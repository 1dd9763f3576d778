------------------------ MODULE ParquetWriterProofs ------------------------
(***************************************************************************)
(* Proofs about ParquetWriter for any number of samplers, rows and row     *)
(* groups. A file has no footer before its turn in Close comes, and Close  *)
(* comes to it once: Finish and the destructor share `closed'.             *)
(*                                                                         *)
(* RInv is about the rows: those in a file's sound part and those that its *)
(* builders still hold are, in this order, the rows the writer was given,  *)
(* as long as nothing has failed.                                          *)
(***************************************************************************)
EXTENDS ParquetWriter, FiniteSetTheorems, WellFoundedInduction, TLAPS

Builders == [Columns -> Seq(1..MaxRows)]
Tables == [pending : 0..RowGroup, built : Builders]
Entries == [by : Names \cup {Own}, kind : {"batch", "torn", "footer"}, num : 0..RowGroup,
            cols : Builders]

NoFooter(file) == \A n \in DOMAIN file : file[n].kind # "footer"

\* Footers are only where closing has been.
Unclosed ==
  /\ pc = "start" => DOMAIN disk = {}
  /\ pc \notin {"start", "gone"} => Names \subseteq DOMAIN disk
  /\ pc \in {"start", "writing"} => ~closed
  /\ ~closed => \A s \in Names \cap DOMAIN disk : NoFooter(disk[s])
  /\ pc = "closing" => closed /\ \A n \in closing..Len(Samplers) : NoFooter(disk[Samplers[n]])

IInv ==
  /\ TypeOK
  /\ table \in [Names -> Tables] /\ disk \in [DOMAIN disk -> Seq(Entries)]
  /\ ~failed => \A s \in Names : table[s].pending < RowGroup
  /\ Unclosed
  /\ FooterLast

-----------------------------------------------------------------------------
(* The pieces of a file.                                                   *)

LEMMA NewTables == NewTable \in Tables /\ NewTable.pending = 0
<1>1. NewTable.built \in Builders
  BY DEF NewTable, Builders
<1>2. QED
  BY <1>1, RowGroupAssumption DEF NewTable, Tables

LEMMA Pieces ==
  ASSUME NEW h \in Names \cup {Own}, NEW t \in Tables
  PROVE  /\ Batch(h, t) \in Entries /\ Batch(h, t).kind = "batch"
         /\ Torn(h) \in Entries /\ Torn(h).kind = "torn"
         /\ Footer(h) \in Entries /\ Footer(h).kind = "footer"
<1>1. t.pending \in 0..RowGroup /\ t.built \in Builders
  BY DEF Tables
<1>2. 0 \in 0..RowGroup /\ NewTable.built \in Builders
  BY NewTables, RowGroupAssumption DEF Tables
<1>3. Batch(h, t) \in Entries /\ Batch(h, t).kind = "batch"
  BY <1>1 DEF Batch, Entries
<1>4. Torn(h) \in Entries /\ Torn(h).kind = "torn"
  BY <1>2 DEF Torn, Entries
<1>5. Footer(h) \in Entries /\ Footer(h).kind = "footer"
  BY <1>2 DEF Footer, Entries
<1>6. QED
  BY <1>3, <1>4, <1>5

\* A column more has been taken from the builders.
LEMMA FinishedTables ==
  ASSUME NEW t \in Tables, NEW c
  PROVE  Finished(t, c) \in Tables /\ Finished(t, c).pending = t.pending
<1>1. [d \in Columns |-> IF d <= c THEN <<>> ELSE t.built[d]] \in Builders
  <2>1. \A d \in Columns : t.built[d] \in Seq(1..MaxRows) /\ <<>> \in Seq(1..MaxRows)
    BY DEF Tables, Builders
  <2>2. QED
    BY <2>1 DEF Builders
<1>2. QED
  BY <1>1 DEF Finished, Tables

\* Flush adds no footer, and what it leaves behind still fits a row group.
LEMMA FlushSound ==
  ASSUME NEW h \in Names, NEW t \in Tables, NEW o \in Flush(h, t)
  PROVE  /\ o.table \in Tables /\ o.add \in Seq(Entries) /\ NoFooter(o.add)
         /\ o.ok \in BOOLEAN /\ o.table.pending \in {0, t.pending}
         /\ (o.ok => o.table.pending = 0)
<1>1. Batch(h, t) \in Entries /\ Torn(h) \in Entries
      /\ Batch(h, t).kind # "footer" /\ Torn(h).kind # "footer"
  BY Pieces
<1>2. /\ <<>> \in Seq(Entries) /\ NoFooter(<<>>)
      /\ <<Batch(h, t)>> \in Seq(Entries) /\ NoFooter(<<Batch(h, t)>>)
      /\ <<Torn(h)>> \in Seq(Entries) /\ NoFooter(<<Torn(h)>>)
  BY <1>1 DEF NoFooter
<1>3. CASE o = [ok |-> TRUE, table |-> t, add |-> <<>>] /\ t.pending = 0
  BY <1>2, <1>3
<1>4. CASE o = [ok |-> TRUE, table |-> NewTable, add |-> <<Batch(h, t)>>]
  BY <1>2, <1>4, NewTables
<1>5. ASSUME NEW c, o = [ok |-> FALSE, table |-> Finished(t, c), add |-> <<>>]
      PROVE  /\ o.table \in Tables /\ o.add \in Seq(Entries) /\ NoFooter(o.add)
             /\ o.ok = FALSE /\ o.table.pending = t.pending
  BY <1>2, <1>5, FinishedTables
<1>6. ASSUME NEW c, o = [ok |-> FALSE, table |-> Finished(t, c), add |-> <<Torn(h)>>]
      PROVE  /\ o.table \in Tables /\ o.add \in Seq(Entries) /\ NoFooter(o.add)
             /\ o.ok = FALSE /\ o.table.pending = t.pending
  BY <1>2, <1>6, FinishedTables
<1>7. QED
  BY <1>3, <1>4, <1>5, <1>6 DEF Flush

\* Writing to a file without a footer leaves it without one ...
LEMMA NoFooterAdded ==
  ASSUME NEW f \in Seq(Entries), NEW g \in Seq(Entries), NoFooter(f), NoFooter(g)
  PROVE  f \o g \in Seq(Entries) /\ NoFooter(f \o g)
<1>1. /\ f \o g \in Seq(Entries) /\ Len(f \o g) = Len(f) + Len(g)
      /\ Len(f) \in Nat /\ Len(g) \in Nat
  OBVIOUS
<1>2. ASSUME NEW n \in 1..Len(f) + Len(g) PROVE (f \o g)[n].kind # "footer"
  <2>1. CASE n <= Len(f)
    <3>1. n \in DOMAIN f /\ (f \o g)[n] = f[n]
      BY <1>1, <2>1
    <3>2. QED
      BY <3>1 DEF NoFooter
  <2>2. CASE n > Len(f)
    <3>1. n - Len(f) \in DOMAIN g /\ (f \o g)[n] = g[n - Len(f)]
      BY <1>1, <2>2
    <3>2. QED
      BY <3>1 DEF NoFooter
  <2>3. QED
    BY <1>1, <2>1, <2>2
<1>3. QED
  BY <1>1, <1>2 DEF NoFooter

\* ... or with one at its end.
LEMMA FooterAdded ==
  ASSUME NEW f \in Seq(Entries), NoFooter(f), NEW e \in Entries
  PROVE  f \o <<e>> \in Seq(Entries) /\ \A n \in Footers(f \o <<e>>) : n = Len(f \o <<e>>)
<1>1. /\ f \o <<e>> \in Seq(Entries) /\ Len(f \o <<e>>) = Len(f) + 1
      /\ DOMAIN (f \o <<e>>) = 1..Len(f) + 1 /\ Len(f) \in Nat
      /\ \A n \in 1..Len(f) : n \in DOMAIN f /\ (f \o <<e>>)[n] = f[n]
  OBVIOUS
<1>2. QED
  BY <1>1 DEF Footers, NoFooter

LEMMA NoFooterLast ==
  ASSUME NEW f, NoFooter(f) PROVE \A n \in Footers(f) : n = Len(f)
BY DEF NoFooter, Footers

-----------------------------------------------------------------------------

LEMMA InitInductive == Init => IInv
<1> SUFFICES ASSUME Init PROVE IInv
  OBVIOUS
<1>1. /\ pc = "start" /\ DOMAIN disk = {} /\ closed = FALSE /\ failed = FALSE /\ closing = 1
      /\ caller = "none" /\ result = "none"
      /\ given = [s \in Names |-> 0] /\ table = [s \in Names |-> NewTable]
  BY DEF Init
<1>2. table \in [Names -> Tables] /\ \A s \in Names : table[s] = NewTable
  BY <1>1, NewTables
<1>3. 0 < RowGroup /\ 0 \in 0..RowGroup /\ 0 \in 0..MaxRows /\ 1 \in 1..Len(Samplers) + 1
  BY RowGroupAssumption, SamplersAssumption
<1>4. TypeOK
  BY <1>1, <1>2, <1>3 DEF TypeOK, Tables, Builders
<1>5. disk \in [DOMAIN disk -> Seq(Entries)]
  BY DEF Init
<1>6. Unclosed /\ FooterLast
  BY <1>1 DEF Unclosed, FooterLast
<1>7. QED
  BY <1>1, <1>2, <1>3, <1>4, <1>5, <1>6, NewTables DEF IInv

LEMMA ConstructInductive == ASSUME IInv, Construct PROVE IInv'
<1>1. /\ pc = "start" /\ pc' \in {"writing", "gone"} /\ ~closed
      /\ UNCHANGED <<given, table, closed, closing, caller, failed, result>>
  BY DEF Construct, IInv, Unclosed
<1>2. PICK k \in Int : /\ disk' = Opened(k) /\ k <= Len(Samplers)
                       /\ (pc' = "writing" => k = Len(Samplers))
  <2>1. Len(Samplers) \in Int /\ Len(Samplers) <= Len(Samplers)
    BY SamplersAssumption
  <2>2. ASSUME NEW n \in 1..Len(Samplers), disk' = Opened(n - 1), pc' = "gone"
        PROVE  n - 1 \in Int /\ n - 1 <= Len(Samplers) /\ pc' # "writing"
    BY <2>2, <2>1
  <2>3. QED
    BY <2>1, <2>2 DEF Construct
<1>3. /\ DOMAIN disk' \subseteq Names /\ (pc' = "writing" => DOMAIN disk' = Names)
      /\ \A p \in DOMAIN disk' : disk'[p] = <<>>
      /\ disk' \in [DOMAIN disk' -> Seq(Entries)]
  <2>1. DOMAIN disk' = {Samplers[m] : m \in 1..k} /\ \A p \in DOMAIN disk' : disk'[p] = <<>>
    BY <1>2 DEF Opened
  <2>2. 1..k \subseteq DOMAIN Samplers /\ (pc' = "writing" => 1..k = DOMAIN Samplers)
    <3>1. PICK last \in Nat : last = Len(Samplers) /\ DOMAIN Samplers = 1..last
      BY SamplersAssumption
    <3>2. k <= last /\ (pc' = "writing" => k = last)
      BY <1>2, <3>1
    <3>3. QED
      BY <3>1, <3>2
  <2>3. disk' = [p \in DOMAIN disk' |-> disk'[p]]
    BY <1>2 DEF Opened
  <2>4. DOMAIN disk' \subseteq Names /\ (pc' = "writing" => DOMAIN disk' = Names)
    BY <2>1, <2>2 DEF Names
  <2>5. \A p \in DOMAIN disk' : disk'[p] \in Seq(Entries)
    <3>1. <<>> \in Seq(Entries)
      OBVIOUS
    <3>2. QED
      BY <2>1, <3>1, Zenon
  <2>6. disk' \in [DOMAIN disk' -> Seq(Entries)]
    BY <2>3, <2>5
  <2>7. QED
    BY <2>1, <2>4, <2>6
<1>4. TypeOK'
  BY <1>1, <1>3 DEF IInv, TypeOK
<1>5. Unclosed'
  BY <1>1, <1>3 DEF Unclosed, NoFooter
<1>6. FooterLast'
  BY <1>3 DEF FooterLast, Footers
<1>7. QED
  BY <1>1, <1>3, <1>4, <1>5, <1>6 DEF IInv

\* A row fills the builders of some columns, or of all.
LEMMA AppendedTables ==
  ASSUME NEW t \in Tables, NEW k \in 1..MaxRows, NEW c
  PROVE  AppendRow(t, k, c) \in Tables /\ AppendRow(t, k, c).pending = t.pending
<1>1. \A d \in Columns : Append(t.built[d], k) \in Seq(1..MaxRows)
  BY DEF Tables, Builders
<1>2. [d \in Columns |-> IF d <= c THEN Append(t.built[d], k) ELSE t.built[d]] \in Builders
  BY <1>1 DEF Tables, Builders
<1>3. QED
  BY <1>2 DEF AppendRow, Tables

\* Write leaves room for a row in the table, or fails; it adds no footer.
LEMMA WrittenSound ==
  ASSUME IInv, NEW s \in Names, NEW k \in 1..MaxRows, ~failed, Names \subseteq DOMAIN disk,
         NoFooter(disk[s]), Written(s, k)
  PROVE  \E t \in Tables, f \in Seq(Entries) :
           /\ table' = [table EXCEPT ![s] = t] /\ disk' = [disk EXCEPT ![s] = f]
           /\ NoFooter(f) /\ failed' \in BOOLEAN /\ (~failed' => t.pending < RowGroup)
<1>1. table[s] \in Tables /\ table[s].pending < RowGroup /\ disk[s] \in Seq(Entries)
      /\ disk = [disk EXCEPT ![s] = disk[s]] /\ failed = FALSE
  BY DEF IInv, TypeOK
<1>2. ASSUME NEW c \in Columns, table' = [table EXCEPT ![s] = AppendRow(@, k, c - 1)],
             failed' = TRUE, UNCHANGED disk
      PROVE  \E t \in Tables, f \in Seq(Entries) :
               /\ table' = [table EXCEPT ![s] = t] /\ disk' = [disk EXCEPT ![s] = f]
               /\ NoFooter(f) /\ failed' \in BOOLEAN /\ (~failed' => t.pending < RowGroup)
  <2>1. AppendRow(table[s], k, c - 1) \in Tables
    BY <1>1, AppendedTables
  <2>2. table' = [table EXCEPT ![s] = AppendRow(table[s], k, c - 1)]
    BY <1>2 DEF IInv
  <2>3. QED
    BY <1>1, <1>2, <2>1, <2>2
<1> DEFINE row == AppendRow(table[s], k, Cardinality(Columns))
           more == [row EXCEPT !.pending = @ + 1]
<1>3. more \in Tables /\ more.pending \in Nat /\ RowGroup \in Nat \ {0}
  <2>1. row \in Tables /\ row.pending = table[s].pending
    BY <1>1, AppendedTables
  <2>2. row.pending + 1 \in 0..RowGroup
    BY <1>1, <2>1, RowGroupAssumption DEF Tables
  <2>3. QED
    BY <2>1, <2>2, RowGroupAssumption DEF Tables
<1>4. CASE /\ ~Full(more) /\ table' = [table EXCEPT ![s] = more] /\ UNCHANGED <<disk, failed>>
  <2>1. more.pending < RowGroup
    BY <1>3, <1>4 DEF Full
  <2>2. QED
    BY <1>1, <1>3, <1>4, <2>1
<1>5. ASSUME NEW o \in Flush(s, more), table' = [table EXCEPT ![s] = o.table],
             disk' = [disk EXCEPT ![s] = @ \o o.add], failed' = ~o.ok
      PROVE  \E t \in Tables, f \in Seq(Entries) :
               /\ table' = [table EXCEPT ![s] = t] /\ disk' = [disk EXCEPT ![s] = f]
               /\ NoFooter(f) /\ failed' \in BOOLEAN /\ (~failed' => t.pending < RowGroup)
  <2>1. /\ o.table \in Tables /\ o.add \in Seq(Entries) /\ NoFooter(o.add)
        /\ o.ok \in BOOLEAN /\ (o.ok => o.table.pending = 0)
    BY <1>3, <1>5, FlushSound
  <2>2. disk[s] \o o.add \in Seq(Entries) /\ NoFooter(disk[s] \o o.add)
    BY <1>1, <2>1, NoFooterAdded
  <2>3. disk' = [disk EXCEPT ![s] = disk[s] \o o.add]
    BY <1>5
  <2>4. failed' \in BOOLEAN
    BY <1>5, <2>1
  <2>5. ~failed' => o.table.pending < RowGroup
    <3>1. o.ok => o.table.pending < RowGroup
      BY <1>3, <2>1
    <3>2. QED
      BY <3>1, <1>5, Zenon
  <2>6. QED
    BY <1>5, <2>1, <2>2, <2>3, <2>4, <2>5
<1>6. QED
  BY <1>2, <1>4, <1>5 DEF Written

\* A row that is written leaves every file without a footer.
LEMMA WriteInductive == ASSUME IInv, NEW s \in Names, Write(s) PROVE IInv'
<1>1. /\ pc = "writing" /\ given[s] < MaxRows /\ given' = [given EXCEPT ![s] = @ + 1]
      /\ UNCHANGED <<pc, closed, closing, caller, result>>
  BY DEF Write
<1>2. /\ ~closed /\ Names \subseteq DOMAIN disk
      /\ \A r \in Names : NoFooter(disk[r])
  BY <1>1 DEF IInv, Unclosed
<1>3. /\ given' \in [Names -> 0..MaxRows] /\ given[s] + 1 \in 1..MaxRows
  BY <1>1, RowGroupAssumption DEF IInv, TypeOK
<1>4. CASE failed /\ UNCHANGED <<table, disk, failed>>
  BY <1>1, <1>3, <1>4 DEF IInv, TypeOK, Unclosed, FooterLast
<1>5. CASE ~failed /\ Written(s, given[s] + 1)
  <2>1. PICK t \in Tables, f \in Seq(Entries) :
          /\ table' = [table EXCEPT ![s] = t] /\ disk' = [disk EXCEPT ![s] = f]
          /\ NoFooter(f) /\ failed' \in BOOLEAN /\ (~failed' => t.pending < RowGroup)
    BY <1>2, <1>3, <1>5, WrittenSound
  <2>2. /\ table' \in [Names -> Tables] /\ DOMAIN disk' = DOMAIN disk
        /\ disk' \in [DOMAIN disk' -> Seq(Entries)]
        /\ ~failed' => \A r \in Names : table'[r].pending < RowGroup
    BY <2>1, <1>5 DEF IInv
  <2>3. \A p \in DOMAIN disk : disk'[p] = IF p = s THEN f ELSE disk[p]
    BY <2>1 DEF IInv
  <2>4. \A r \in Names : NoFooter(disk'[r])
    BY <2>1, <2>3, <1>2
  <2>5. TypeOK'
    BY <1>1, <1>3, <2>1, <2>2 DEF IInv, TypeOK, Tables, Builders
  <2>6. Unclosed'
    BY <1>1, <1>2, <2>2, <2>4 DEF Unclosed
  <2>7. FooterLast'
    BY <2>1, <2>2, <2>3, NoFooterLast DEF IInv, FooterLast
  <2>8. QED
    BY <2>2, <2>5, <2>6, <2>7 DEF IInv
<1>6. QED
  BY <1>4, <1>5 DEF Write

-----------------------------------------------------------------------------
(* Closing.                                                                *)

\* When Close begins no sampler's file has a footer.
LEMMA BeginsUnclosed ==
  ASSUME pc' = "closing", closing' = 1, closed' = TRUE, Names \subseteq DOMAIN disk',
         \A s \in Names : NoFooter(disk'[s])
  PROVE  Unclosed'
<1>1. \A n \in 1..Len(Samplers) : Samplers[n] \in Names
  BY SamplersAssumption DEF Names
<1>2. QED
  BY <1>1 DEF Unclosed

\* The instrument table's file has a footer at its end or none.
LEMMA OwnFile ==
  ASSUME IInv, Instruments \notin Names, NEW f \in Seq(Entries),
         \A n \in Footers(f) : n = Len(f),
         disk' = WithInstruments(f)
  PROVE  /\ DOMAIN disk' = DOMAIN disk \cup {Instruments}
         /\ disk' \in [DOMAIN disk' -> Seq(Entries)]
         /\ \A s \in Names \cap DOMAIN disk : disk'[s] = disk[s]
         /\ FooterLast'
<1>1. /\ DOMAIN disk' = DOMAIN disk \cup {Instruments}
      /\ \A p \in DOMAIN disk' : disk'[p] = IF p = Instruments THEN f ELSE disk[p]
      /\ disk' = [p \in DOMAIN disk' |-> disk'[p]]
  BY DEF WithInstruments
<1>2. \A p \in DOMAIN disk : disk[p] \in Seq(Entries) /\ \A n \in Footers(disk[p]) : n = Len(disk[p])
  BY DEF IInv, FooterLast
<1>3. \A p \in DOMAIN disk' : disk'[p] \in Seq(Entries)
  BY <1>1, <1>2
<1>4. disk' \in [DOMAIN disk' -> Seq(Entries)]
  BY <1>1, <1>3
<1>5. FooterLast'
  BY <1>1, <1>2 DEF FooterLast
<1>6. QED
  BY <1>1, <1>4, <1>5

\* What WriteInstruments may leave in its file.
LEMMA OwnPieces ==
  /\ \A f \in {<<>>, <<Torn(Own)>>, <<Batch(Own, NewTable)>>} : f \in Seq(Entries) /\ NoFooter(f)
  /\ LET f == <<Batch(Own, NewTable), Footer(Own)>>
     IN  f \in Seq(Entries) /\ \A n \in Footers(f) : n = Len(f)
<1>1. /\ Batch(Own, NewTable) \in Entries /\ Batch(Own, NewTable).kind = "batch"
      /\ Torn(Own) \in Entries /\ Torn(Own).kind = "torn"
      /\ Footer(Own) \in Entries /\ Footer(Own).kind = "footer"
  BY Pieces, NewTables
<1>2. /\ <<>> \in Seq(Entries) /\ NoFooter(<<>>)
      /\ <<Torn(Own)>> \in Seq(Entries) /\ NoFooter(<<Torn(Own)>>)
      /\ <<Batch(Own, NewTable)>> \in Seq(Entries) /\ NoFooter(<<Batch(Own, NewTable)>>)
  BY <1>1 DEF NoFooter
<1>3. ASSUME NEW f, f = <<Batch(Own, NewTable), Footer(Own)>>
      PROVE  f \in Seq(Entries) /\ \A n \in Footers(f) : n = Len(f)
  <2>1. f \in Seq(Entries) /\ Len(f) = 2 /\ DOMAIN f = 1..2 /\ f[1].kind = "batch"
    BY <1>1, <1>3
  <2>2. QED
    BY <2>1 DEF Footers
<1>4. QED
  BY <1>2, <1>3

\* Finish fails before Close, or closes.
LEMMA FinishInductive ==
  ASSUME IInv, Instruments \notin Names, Finish PROVE IInv'
<1>1. /\ pc = "writing" /\ UNCHANGED <<given, table>> /\ ~closed /\ Names \subseteq DOMAIN disk
      /\ \A s \in Names : NoFooter(disk[s])
  BY DEF Finish, IInv, Unclosed
<1>2. CASE /\ failed /\ pc' = "finished" /\ result' = "error"
           /\ UNCHANGED <<disk, closed, closing, caller, failed>>
  BY <1>1, <1>2 DEF IInv, TypeOK, Unclosed, FooterLast
<1>3. CASE /\ disk' \in Spoilt /\ failed' = TRUE /\ pc' = "finished" /\ result' = "error"
           /\ UNCHANGED <<closed, closing, caller>>
  <2>1. CASE disk' = disk
    BY <1>1, <1>3, <2>1 DEF IInv, TypeOK, Unclosed, FooterLast
  <2>2. ASSUME NEW f \in {<<>>, <<Torn(Own)>>, <<Batch(Own, NewTable)>>},
               disk' = WithInstruments(f)
        PROVE  IInv'
    <3>1. f \in Seq(Entries) /\ \A n \in Footers(f) : n = Len(f)
      BY <2>2, OwnPieces, NoFooterLast
    <3>2. /\ DOMAIN disk' = DOMAIN disk \cup {Instruments}
          /\ disk' \in [DOMAIN disk' -> Seq(Entries)]
          /\ \A s \in Names \cap DOMAIN disk : disk'[s] = disk[s]
          /\ FooterLast'
      BY <2>2, <3>1, OwnFile
    <3>3. TypeOK'
      BY <1>1, <1>3, <3>2 DEF IInv, TypeOK
    <3>4. Unclosed'
      BY <1>1, <1>3, <3>2 DEF Unclosed
    <3>5. QED
      BY <1>1, <1>3, <3>2, <3>3, <3>4 DEF IInv
  <2>3. QED
    BY <1>3, <2>1, <2>2 DEF Spoilt
<1>4. CASE /\ disk' = WriteInstruments /\ CloseBegins("Finish") /\ UNCHANGED <<failed, result>>
  <2>1. /\ DOMAIN disk' = DOMAIN disk \cup {Instruments}
        /\ disk' \in [DOMAIN disk' -> Seq(Entries)]
        /\ \A s \in Names \cap DOMAIN disk : disk'[s] = disk[s]
        /\ FooterLast'
    BY <1>4, OwnPieces, OwnFile DEF WriteInstruments
  <2>2. pc' = "closing" /\ closing' = 1 /\ caller' = "Finish" /\ closed' = TRUE
    BY <1>4 DEF CloseBegins
  <2>3. 1 \in 1..Len(Samplers) + 1
    BY SamplersAssumption
  <2>4. TypeOK'
    BY <1>1, <1>4, <2>1, <2>2, <2>3 DEF IInv, TypeOK
  <2>5. Unclosed'
    BY <1>1, <2>1, <2>2, BeginsUnclosed
  <2>6. QED
    BY <1>1, <1>4, <2>1, <2>4, <2>5 DEF IInv
<1>5. QED
  BY <1>2, <1>3, <1>4 DEF Finish

\* The destructor closes the writer if Finish has not begun to.
LEMMA DestroyInductive == ASSUME IInv, Destroy PROVE IInv'
<1>1. /\ pc \in {"writing", "finished"} /\ UNCHANGED <<given, table, disk, failed, result>>
  BY DEF Destroy
<1>2. CASE closed /\ pc' = "gone" /\ UNCHANGED <<closed, closing, caller>>
  BY <1>1, <1>2 DEF IInv, TypeOK, Unclosed, FooterLast
<1>3. CASE ~closed /\ CloseBegins("destructor")
  <2>1. pc' = "closing" /\ closing' = 1 /\ caller' = "destructor" /\ closed' = TRUE
    BY <1>3 DEF CloseBegins
  <2>2. 1 \in 1..Len(Samplers) + 1
    BY SamplersAssumption
  <2>3. Unclosed'
    BY <1>1, <1>3, <2>1, BeginsUnclosed DEF IInv, Unclosed
  <2>4. TypeOK'
    BY <1>1, <2>1, <2>2 DEF IInv, TypeOK
  <2>5. QED
    BY <1>1, <2>3, <2>4 DEF IInv, FooterLast
<1>4. QED
  BY <1>2, <1>3 DEF Destroy

\* The files of the samplers that Close has yet to come to stay without a footer, and
\* the one it is at gets at most one, at its end.
LEMMA CloseTableInductive == ASSUME IInv, CloseTable PROVE IInv'
<1> DEFINE s == Samplers[closing]
<1>1. /\ pc = "closing" /\ closing \in 1..Len(Samplers) /\ closed /\ closed \in BOOLEAN
      /\ Names \subseteq DOMAIN disk /\ UNCHANGED <<given, closed, caller>>
      /\ \A n \in closing..Len(Samplers) : NoFooter(disk[Samplers[n]])
  BY SamplersAssumption DEF CloseTable, IInv, TypeOK, Unclosed
<1>2. s \in Names /\ NoFooter(disk[s]) /\ table[s] \in Tables /\ disk[s] \in Seq(Entries)
      /\ (~failed => table[s].pending < RowGroup)
  BY <1>1, SamplersAssumption DEF IInv, Names
<1>3. PICK o \in Flush(s, table[s]) :
        /\ table' = [table EXCEPT ![s] = o.table]
        /\ \/ /\ o.ok
              /\ disk' = [disk EXCEPT ![s] = @ \o o.add \o <<Footer(s)>>]
              /\ closing' = closing + 1
              /\ UNCHANGED <<pc, failed, result>>
           \/ /\ o.ok
              /\ disk' = [disk EXCEPT ![s] = @ \o o.add \o <<Torn(s)>>]
              /\ CloseEnds(FALSE)
           \/ /\ ~o.ok
              /\ disk' = [disk EXCEPT ![s] = @ \o o.add]
              /\ CloseEnds(FALSE)
  BY DEF CloseTable
<1>4. /\ o.table \in Tables /\ o.add \in Seq(Entries) /\ NoFooter(o.add)
      /\ o.table.pending \in {0, table[s].pending}
  BY <1>2, <1>3, FlushSound
<1>5. /\ Torn(s) \in Entries /\ Torn(s).kind = "torn"
      /\ Footer(s) \in Entries /\ Footer(s).kind = "footer"
  BY <1>2, Pieces
<1>6. disk[s] \o o.add \in Seq(Entries) /\ NoFooter(disk[s] \o o.add)
  BY <1>2, <1>4, NoFooterAdded
<1>7. PICK f \in Seq(Entries) : /\ disk' = [disk EXCEPT ![s] = f]
                                /\ \A n \in Footers(f) : n = Len(f)
  <2>1. CASE disk' = [disk EXCEPT ![s] = @ \o o.add \o <<Footer(s)>>]
    BY <2>1, <1>5, <1>6, FooterAdded
  <2>2. CASE disk' = [disk EXCEPT ![s] = @ \o o.add \o <<Torn(s)>>]
    BY <2>2, <1>5, <1>6, FooterAdded
  <2>3. CASE disk' = [disk EXCEPT ![s] = @ \o o.add]
    BY <2>3, <1>6, NoFooterLast
  <2>4. QED
    BY <1>3, <2>1, <2>2, <2>3
<1>8. /\ DOMAIN disk' = DOMAIN disk /\ disk' \in [DOMAIN disk' -> Seq(Entries)]
      /\ \A p \in DOMAIN disk : disk'[p] = IF p = s THEN f ELSE disk[p]
  BY <1>7 DEF IInv
<1>9. FooterLast'
  BY <1>7, <1>8 DEF IInv, FooterLast
<1>10. /\ table' \in [Names -> Tables]
       /\ \A r \in Names : table'[r] = IF r = s THEN o.table ELSE table[r]
  BY <1>3, <1>4 DEF IInv
<1>11. ~failed => \A r \in Names : table'[r].pending < RowGroup
  BY <1>2, <1>4, <1>10, RowGroupAssumption DEF IInv
<1>12. CASE closing' = closing + 1 /\ UNCHANGED <<pc, failed, result>>
  <2>1. closing + 1 \in 1..Len(Samplers) + 1
    BY <1>1, SamplersAssumption
  <2>2. TypeOK'
    BY <1>1, <1>8, <1>10, <1>12, <2>1 DEF IInv, TypeOK, Tables, Builders
  <2>3. ASSUME NEW n \in closing + 1..Len(Samplers) PROVE NoFooter(disk'[Samplers[n]])
    <3>1. n \in closing..Len(Samplers) /\ n \in 1..Len(Samplers) /\ n # closing
      BY <1>1, SamplersAssumption
    <3>2. Samplers[n] # s /\ Samplers[n] \in Names
      BY <3>1, <1>1, SamplersAssumption DEF Names
    <3>3. QED
      BY <1>1, <1>8, <3>1, <3>2
  <2>4. Unclosed'
    BY <1>1, <1>8, <1>12, <2>3 DEF Unclosed
  <2>5. QED
    BY <1>8, <1>9, <1>10, <1>11, <1>12, <2>2, <2>4 DEF IInv
<1>13. CASE CloseEnds(FALSE)
  <2>1. /\ pc' \in {"finished", "gone"} /\ UNCHANGED closing /\ (~failed' => ~failed)
        /\ result' \in {"none", "ok", "error"}
    BY <1>13 DEF CloseEnds, IInv, TypeOK
  <2>2. failed' \in BOOLEAN
    BY <1>13 DEF CloseEnds
  <2>3. TypeOK'
    BY <1>1, <1>8, <1>10, <2>1, <2>2 DEF IInv, TypeOK, Tables, Builders
  <2>4. Unclosed'
    BY <1>1, <1>8, <2>1 DEF Unclosed
  <2>5. QED
    BY <1>8, <1>9, <1>10, <1>11, <2>1, <2>3, <2>4 DEF IInv
<1>14. QED
  BY <1>3, <1>12, <1>13

LEMMA CloseReturnsInductive == ASSUME IInv, CloseReturns PROVE IInv'
<1>1. /\ pc = "closing" /\ closed /\ UNCHANGED <<given, table, disk, closed, caller, closing>>
      /\ pc' \in {"finished", "gone"} /\ result' \in {"none", "ok", "error"}
      /\ (~failed' => ~failed) /\ Names \subseteq DOMAIN disk
  BY DEF CloseReturns, CloseEnds, IInv, TypeOK, Unclosed
<1>2. failed' \in BOOLEAN
  BY DEF CloseReturns, CloseEnds
<1>3. TypeOK'
  BY <1>1, <1>2 DEF IInv, TypeOK
<1>4. Unclosed' /\ FooterLast'
  BY <1>1 DEF IInv, Unclosed, FooterLast
<1>5. QED
  BY <1>1, <1>3, <1>4 DEF IInv

-----------------------------------------------------------------------------
\* Closing comes to every file once, if none is named like the instrument table.
THEOREM Inductive == ASSUME Instruments \notin Names PROVE Spec => []IInv
<1>1. Init => IInv
  BY InitInductive
<1>2. IInv /\ [Next]_vars => IInv'
  <2> SUFFICES ASSUME IInv, [Next]_vars PROVE IInv'
    OBVIOUS
  <2>1. CASE Construct
    BY <2>1, ConstructInductive
  <2>2. ASSUME NEW s \in Names, Write(s) PROVE IInv'
    BY <2>2, WriteInductive
  <2>3. CASE Finish
    BY <2>3, FinishInductive
  <2>4. CASE CloseTable
    BY <2>4, CloseTableInductive
  <2>5. CASE CloseReturns
    BY <2>5, CloseReturnsInductive
  <2>6. CASE Destroy
    BY <2>6, DestroyInductive
  <2>7. CASE UNCHANGED vars
    BY <2>7 DEF vars, IInv, TypeOK, Unclosed, FooterLast
  <2>8. QED
    BY <2>1, <2>2, <2>3, <2>4, <2>5, <2>6, <2>7 DEF Next
<1>3. QED
  BY <1>1, <1>2, PTL DEF Spec

\* A table never buffers more rows than a row group has, whatever fails.
THEOREM TypeCorrect == ASSUME Instruments \notin Names PROVE Spec => []TypeOK
<1>1. IInv => TypeOK
  BY DEF IInv
<1>2. Spec => []IInv
  BY Inductive
<1>3. QED
  BY <1>1, <1>2, PTL

\* A file gets one footer and nothing after it, although Finish and the destructor
\* both close the writer and each of its steps may fail.
THEOREM FootersLast == ASSUME Instruments \notin Names PROVE Spec => []FooterLast
<1>1. IInv => FooterLast
  BY DEF IInv
<1>2. Spec => []IInv
  BY Inductive
<1>3. QED
  BY <1>1, <1>2, PTL

-----------------------------------------------------------------------------
(* Induction.                                                              *)

\* A set of natural numbers that holds 0 and with each number the next holds them all:
\* the least number outside it would follow one inside.
LEMMA Induct ==
  ASSUME NEW T \in SUBSET Nat, 0 \in T, \A n \in T : n + 1 \in T
  PROVE  T = Nat
<1> SUFFICES ASSUME Nat \ T # {} PROVE FALSE
  OBVIOUS
<1>1. PICK n \in Nat \ T : \A m \in Nat \ T : ~(<<m, n>> \in OpToRel(<, Nat))
  <2>1. Nat \ T \subseteq Nat
    OBVIOUS
  <2>2. QED
    BY <2>1, NatLessThanWellFounded, WFMin, Zenon
<1>2. n # 0 /\ n - 1 \in Nat /\ n - 1 < n
  OBVIOUS
<1>3. n - 1 \in T
  BY <1>1, <1>2 DEF OpToRel
<1>4. QED
  BY <1>2, <1>3

\* A function can be defined by recursion on 0..N.
Steps(N, A, a, step) == N \in Nat /\ a \in A /\ step \in [1..N -> [A -> A]]

Runs(N, A, a, step, f) ==
  f \in [0..N -> A] /\ f[0] = a /\ \A n \in 1..N : f[n] = step[n][f[n - 1]]

LEMMA Recursion ==
  ASSUME NEW N, NEW A, NEW a, NEW step, Steps(N, A, a, step)
  PROVE  \E f : Runs(N, A, a, step, f)
<1> USE DEF Steps
<1> DEFINE T == {m \in Nat : m <= N =>
                   \E f \in [0..m -> A] : f[0] = a /\ \A n \in 1..m : f[n] = step[n][f[n - 1]]}
<1>1. 0 \in T
  <2> DEFINE f == [n \in 0..0 |-> a]
  <2>1. f \in [0..0 -> A] /\ f[0] = a /\ \A n \in 1..0 : f[n] = step[n][f[n - 1]]
    OBVIOUS
  <2>2. QED
    BY <2>1
<1>2. ASSUME NEW m \in T PROVE m + 1 \in T
  <2> SUFFICES ASSUME m + 1 <= N
               PROVE  \E f \in [0..m + 1 -> A] :
                        f[0] = a /\ \A n \in 1..m + 1 : f[n] = step[n][f[n - 1]]
    OBVIOUS
  <2>1. m \in Nat
    OBVIOUS
  <2>2. PICK f \in [0..m -> A] : f[0] = a /\ \A n \in 1..m : f[n] = step[n][f[n - 1]]
    BY <2>1
  <2> DEFINE g == [k \in 0..m + 1 |-> IF k = m + 1 THEN step[m + 1][f[m]] ELSE f[k]]
  <2>3. m + 1 \in 1..N /\ m \in 0..m /\ f[m] \in A /\ step[m + 1] \in [A -> A]
    BY <2>1
  <2>4. g \in [0..m + 1 -> A]
    BY <2>1, <2>3
  <2>5. g[0] = a
    BY <2>1, <2>2
  <2>6. ASSUME NEW n \in 1..m + 1 PROVE g[n] = step[n][g[n - 1]]
    <3>1. n - 1 \in 0..m /\ n \in 0..m + 1 /\ n - 1 \in 0..m + 1 /\ n - 1 # m + 1
      BY <2>1
    <3>2. g[n - 1] = f[n - 1]
      BY <3>1
    <3>3. CASE n = m + 1
      BY <3>1, <3>2, <3>3, <2>1
    <3>4. CASE n # m + 1
      <4>1. n \in 1..m
        BY <2>1, <3>4
      <4>2. QED
        BY <3>1, <3>2, <3>4, <4>1, <2>2
    <3>5. QED
      BY <3>3, <3>4
  <2>7. QED
    BY <2>4, <2>5, <2>6
<1>3. T = Nat
  <2> HIDE DEF T
  <2>1. T \in SUBSET Nat
    BY DEF T
  <2>2. QED
    BY <1>1, <1>2, <2>1, Induct
<1>4. QED
  BY <1>3 DEF Runs

Rows == Seq(1..MaxRows)

\* What RowsIn means: the rows of the first n batches, for every n.
LEMMA RowsInRecursion ==
  ASSUME NEW file \in Seq(Entries), NEW c \in Columns
  PROVE  \E upto \in [0..Len(file) -> Rows] :
           /\ upto[0] = <<>> /\ \A n \in 1..Len(file) : upto[n] = upto[n - 1] \o file[n].cols[c]
           /\ RowsIn(file, c) = upto[Len(file)]
<1>1. Len(file) \in Nat /\ <<>> \in Rows
  BY DEF Rows
<1>2. \A n \in 1..Len(file) : file[n].cols[c] \in Rows
  <2>1. ASSUME NEW n \in 1..Len(file) PROVE file[n].cols[c] \in Rows
    <3>1. file[n] \in Entries
      OBVIOUS
    <3>2. file[n].cols \in Builders
      BY <3>1 DEF Entries
    <3>3. QED
      BY <3>2 DEF Builders, Rows
  <2>2. QED
    BY <2>1
<1> DEFINE step == [n \in 1..Len(file) |-> [r \in Rows |-> r \o file[n].cols[c]]]
<1>3. step \in [1..Len(file) -> [Rows -> Rows]]
  BY <1>2 DEF Rows
<1>4. \A n \in 1..Len(file) : \A r \in Rows : step[n][r] = r \o file[n].cols[c]
  OBVIOUS
<1> HIDE DEF step
<1>5. PICK f \in [0..Len(file) -> Rows] : f[0] = <<>> /\ \A n \in 1..Len(file) : f[n] = step[n][f[n - 1]]
  <2>1. Steps(Len(file), Rows, <<>>, step)
    BY <1>1, <1>3 DEF Steps
  <2>2. QED
    BY <2>1, Recursion DEF Runs
<1>6. \A n \in 1..Len(file) : n - 1 \in 0..Len(file) /\ f[n - 1] \in Rows
  BY <1>1
<1>7. \A n \in 1..Len(file) : f[n] = f[n - 1] \o file[n].cols[c]
  BY <1>4, <1>5, <1>6
<1> DEFINE Def(u) == u = [n \in 0..Len(file) |-> IF n = 0 THEN <<>> ELSE u[n - 1] \o file[n].cols[c]]
<1>8. Def(f)
  <2>1. \A n \in 0..Len(file) : f[n] = IF n = 0 THEN <<>> ELSE f[n - 1] \o file[n].cols[c]
    <3>1. \A n \in 0..Len(file) : n = 0 \/ n \in 1..Len(file)
      BY <1>1
    <3>2. QED
      BY <3>1, <1>5, <1>7
  <2>2. QED
    BY <2>1
<1> DEFINE u == CHOOSE g : Def(g)
<1>9. Def(u)
  BY <1>8, Zenon
<1>10. RowsIn(file, c) = u[Len(file)]
  BY DEF RowsIn
<1> HIDE DEF u
<1>11. u[0] = <<>> /\ \A n \in 1..Len(file) : u[n] = u[n - 1] \o file[n].cols[c]
  <2>1. 0 \in 0..Len(file) /\ \A n \in 1..Len(file) : n \in 0..Len(file) /\ n # 0
    BY <1>1
  <2>2. \A n \in 0..Len(file) : u[n] = IF n = 0 THEN <<>> ELSE u[n - 1] \o file[n].cols[c]
    BY <1>9, Zenon
  <2>3. QED
    BY <2>1, <2>2
<1>12. \A n \in 0..Len(file) : u[n] \in Rows
  <2> DEFINE T == {n \in Nat : n <= Len(file) => u[n] \in Rows}
  <2>1. 0 \in T
    BY <1>1, <1>11
  <2>2. ASSUME NEW n \in T PROVE n + 1 \in T
    <3>1. n \in Nat /\ (n + 1 <= Len(file) => u[n] \in Rows /\ n + 1 \in 1..Len(file))
      BY <1>1
    <3>2. n + 1 <= Len(file) => u[n + 1] = u[n] \o file[n + 1].cols[c]
      BY <3>1, <1>11
    <3>3. \A r, t \in Rows : r \o t \in Rows
      BY DEF Rows
    <3>4. n + 1 <= Len(file) => u[n + 1] \in Rows
      BY <3>1, <3>2, <3>3, <1>2
    <3>5. QED
      BY <3>1, <3>4
  <2>3. T = Nat
    <3> HIDE DEF T
    <3>1. T \in SUBSET Nat
      BY DEF T
    <3>2. QED
      BY <2>1, <2>2, <3>1, Induct
  <2>4. QED
    BY <1>1, <2>3
<1>13. u = [n \in 0..Len(file) |-> u[n]]
  BY <1>9
<1>14. u \in [0..Len(file) -> Rows]
  BY <1>12, <1>13
<1>15. QED
  BY <1>10, <1>11, <1>14
\* The rows of one batch more come behind those of the batches before it.
LEMMA RowsInAdd ==
  ASSUME NEW file \in Seq(Entries), NEW e \in Entries, NEW c \in Columns
  PROVE  /\ RowsIn(file, c) \in Rows /\ RowsIn(<<>>, c) = <<>>
         /\ RowsIn(file \o <<e>>, c) = RowsIn(file, c) \o e.cols[c]
<1> DEFINE more == file \o <<e>>
           size == Len(file)
<1>1. /\ more \in Seq(Entries) /\ Len(more) = size + 1 /\ size \in Nat /\ more[size + 1] = e
      /\ \A n \in 1..size : more[n] = file[n]
  OBVIOUS
<1> HIDE DEF more, size
<1>2. PICK u \in [0..size -> Rows] :
        /\ u[0] = <<>> /\ \A n \in 1..size : u[n] = u[n - 1] \o file[n].cols[c]
        /\ RowsIn(file, c) = u[size]
  BY RowsInRecursion DEF size
<1>3. PICK v \in [0..size + 1 -> Rows] :
        /\ v[0] = <<>> /\ \A n \in 1..size + 1 : v[n] = v[n - 1] \o more[n].cols[c]
        /\ RowsIn(more, c) = v[size + 1]
  <2>1. \E w \in [0..Len(more) -> Rows] :
          /\ w[0] = <<>> /\ \A n \in 1..Len(more) : w[n] = w[n - 1] \o more[n].cols[c]
          /\ RowsIn(more, c) = w[Len(more)]
    BY <1>1, RowsInRecursion
  <2>2. QED
    BY <2>1, <1>1
<1>4. \A n \in 0..size : v[n] = u[n]
  <2> DEFINE T == {n \in Nat : n <= size => v[n] = u[n]}
  <2>1. 0 \in T
    BY <1>2, <1>3
  <2>2. ASSUME NEW n \in T PROVE n + 1 \in T
    <3> SUFFICES ASSUME n + 1 <= size PROVE v[n + 1] = u[n + 1]
      OBVIOUS
    <3>1. PICK m \in 1..size : m = n + 1 /\ m - 1 = n
      BY <1>1
    <3>2. m \in 1..size + 1 /\ v[n] = u[n]
      BY <1>1, <3>1
    <3>3. v[m] = v[m - 1] \o more[m].cols[c] /\ u[m] = u[m - 1] \o file[m].cols[c]
      BY <3>1, <3>2, <1>2, <1>3
    <3>4. QED
      BY <3>1, <3>2, <3>3, <1>1
  <2>3. T = Nat
    <3> HIDE DEF T
    <3>1. T \in SUBSET Nat
      BY DEF T
    <3>2. QED
      BY <2>1, <2>2, <3>1, Induct
  <2>4. QED
    BY <1>1, <2>3
<1>5. RowsIn(file, c) \in Rows
  BY <1>1, <1>2
<1>6. RowsIn(more, c) = RowsIn(file, c) \o e.cols[c]
  <2>1. size + 1 \in 1..size + 1 /\ size + 1 - 1 = size /\ size \in 0..size
    BY <1>1
  <2>2. v[size + 1] = v[size] \o more[size + 1].cols[c]
    BY <2>1, <1>3
  <2>3. QED
    BY <2>1, <2>2, <1>1, <1>2, <1>3, <1>4
<1>7. RowsIn(<<>>, c) = <<>>
  <2>1. <<>> \in Seq(Entries) /\ Len(<<>>) = 0
    OBVIOUS
  <2>2. PICK w \in [0..Len(<<>>) -> Rows] : w[0] = <<>> /\ RowsIn(<<>>, c) = w[Len(<<>>)]
    BY <2>1, RowsInRecursion
  <2>3. QED
    BY <2>1, <2>2
<1>8. QED
  BY <1>5, <1>6, <1>7 DEF more

-----------------------------------------------------------------------------
(* The sound part of a file.                                               *)

Fits(x, s) == x.by = s /\ Uniform(x)
Clean(file, s) == \A n \in DOMAIN file : Fits(file[n], s)

LEMMA Least ==
  ASSUME NEW T \in SUBSET Nat, T # {}
  PROVE  \E n \in T : \A m \in T : n <= m
<1>1. PICK n \in T : \A m \in T : ~(<<m, n>> \in OpToRel(<, Nat))
  BY NatLessThanWellFounded, WFMin, Zenon
<1>2. \A m \in T : ~(m < n)
  BY <1>1 DEF OpToRel
<1>3. QED
  BY <1>2

LEMMA CleanSound ==
  ASSUME NEW file, NEW s, Clean(file, s)
  PROVE  SoundPart(file, s) = file
BY DEF Clean, Fits, SoundPart

\* The sound part ends before the first entry that does not fit.
LEMMA SoundCut ==
  ASSUME NEW file \in Seq(Entries), NEW s, NEW k \in 1..Len(file), ~Fits(file[k], s),
         \A n \in 1..k - 1 : Fits(file[n], s)
  PROVE  SoundPart(file, s) = SubSeq(file, 1, k - 1)
<1> DEFINE bad == {n \in DOMAIN file : file[n].by # s \/ ~Uniform(file[n])}
<1>1. DOMAIN file = 1..Len(file) /\ Len(file) \in Nat
  OBVIOUS
<1>2. \A n \in 1..Len(file) : n \in bad <=> ~Fits(file[n], s)
  BY <1>1 DEF Fits
<1>3. k \in bad /\ bad \subseteq 1..Len(file) /\ \A m \in bad : k <= m
  BY <1>1, <1>2
<1> HIDE DEF bad
<1>4. (CHOOSE n \in bad : \A m \in bad : n <= m) = k
  <2>1. \A n \in bad : (\A m \in bad : n <= m) => n = k
    BY <1>3
  <2>2. QED
    BY <1>3, <2>1
<1>5. bad # {}
  BY <1>3
<1>6. QED
  BY <1>4, <1>5 DEF SoundPart, bad

\* Where a file that is not clean is cut.
LEMMA CutExists ==
  ASSUME NEW file \in Seq(Entries), NEW s, ~Clean(file, s)
  PROVE  \E k \in 1..Len(file) : ~Fits(file[k], s) /\ \A n \in 1..k - 1 : Fits(file[n], s)
<1> DEFINE bad == {n \in 1..Len(file) : ~Fits(file[n], s)}
<1>1. bad \in SUBSET Nat /\ bad # {}
  BY DEF Clean
<1>2. PICK k \in bad : \A m \in bad : k <= m
  <2> HIDE DEF bad
  <2>1. QED
    BY <1>1, Least
<1>3. \A n \in 1..k - 1 : Fits(file[n], s)
  BY <1>2
<1>4. QED
  BY <1>2, <1>3

\* An entry more is sound where everything is, and cuts the file if it does not fit.
LEMMA SoundAdd ==
  ASSUME NEW file \in Seq(Entries), NEW e \in Entries, NEW s
  PROVE  /\ Clean(file \o <<e>>, s) <=> Clean(file, s) /\ Fits(e, s)
         /\ SoundPart(file \o <<e>>, s) =
              IF Clean(file, s) /\ Fits(e, s) THEN file \o <<e>> ELSE SoundPart(file, s)
<1> DEFINE more == file \o <<e>>
           size == Len(file)
<1>1. /\ more \in Seq(Entries) /\ Len(more) = size + 1 /\ size \in Nat /\ more[size + 1] = e
      /\ \A n \in 1..size : more[n] = file[n]
      /\ DOMAIN more = 1..size + 1 /\ DOMAIN file = 1..size
  OBVIOUS
<1>2. \A k \in 1..size + 1 : SubSeq(more, 1, k - 1) = SubSeq(file, 1, k - 1)
  BY <1>1
<1>3. SubSeq(file, 1, size) = file
  BY <1>1
<1> HIDE DEF more, size
<1>4. Clean(more, s) <=> Clean(file, s) /\ Fits(e, s)
  BY <1>1 DEF Clean
<1>5. CASE Clean(file, s) /\ Fits(e, s)
  BY <1>4, <1>5, CleanSound DEF more
<1>6. CASE Clean(file, s) /\ ~Fits(e, s)
  <2>1. /\ size + 1 \in 1..Len(more) /\ ~Fits(more[size + 1], s)
        /\ \A n \in 1..size + 1 - 1 : Fits(more[n], s)
    BY <1>1, <1>6 DEF Clean
  <2>2. SoundPart(more, s) = SubSeq(more, 1, size + 1 - 1)
    BY <1>1, <2>1, SoundCut
  <2>3. SoundPart(more, s) = file
    BY <1>1, <1>2, <1>3, <2>2
  <2>4. QED
    BY <1>4, <1>6, <2>3, CleanSound DEF more
<1>7. CASE ~Clean(file, s)
  <2>1. PICK k \in 1..size : ~Fits(file[k], s) /\ \A n \in 1..k - 1 : Fits(file[n], s)
    BY <1>7, CutExists DEF size
  <2>2. SoundPart(file, s) = SubSeq(file, 1, k - 1)
    BY <2>1, SoundCut DEF size
  <2>3. k \in 1..size + 1 /\ ~Fits(more[k], s) /\ \A n \in 1..k - 1 : Fits(more[n], s)
    BY <1>1, <2>1
  <2>4. SoundPart(more, s) = SubSeq(more, 1, k - 1)
    BY <1>1, <2>3, SoundCut
  <2>5. QED
    BY <1>2, <1>4, <1>7, <2>2, <2>3, <2>4 DEF more
<1>8. QED
  BY <1>4, <1>5, <1>6, <1>7 DEF more
-----------------------------------------------------------------------------
(* What a file and its table hold together.                                *)

\* The rows behind the first n, in a table ...
Behind(n, p) == [k \in 1..p |-> n + k]
Follows(t, n) == \A c \in Columns : t.built[c] = Behind(n, t.pending)

\* ... whose columns may have come apart when one of them failed.
Broken(t) == \E c \in Columns : Len(t.built[c]) # t.pending

Holds(file, s, n) == \A c \in Columns : RowsIn(SoundPart(file, s), c) = Upto(n)

\* Whatever has failed: the file has the first rows, and if it can still grow, then by
\* the next ones or by a batch that shows that it is broken.
Partly(file, t, s, g) ==
  \E n \in 0..g : /\ Holds(file, s, n)
                  /\ Clean(file, s) => (Follows(t, n) /\ n + t.pending <= g) \/ Broken(t)

\* Nothing has failed: the file and its table have all the rows.
Whole(file, t, s, g) ==
  Clean(file, s) /\ \E n \in 0..g : Holds(file, s, n) /\ Follows(t, n) /\ n + t.pending = g

LEMMA BehindIs ==
  ASSUME NEW n \in Nat, NEW p \in Nat
  PROVE  /\ Upto(n) \o Behind(n, p) = Upto(n + p) /\ Behind(n, 0) = <<>> /\ Len(Behind(n, p)) = p
         /\ Append(Behind(n, p), n + p + 1) = Behind(n, p + 1)
<1> DEFINE u == Upto(n)
           b == Behind(n, p)
<1>1. u \in Seq(Int) /\ b \in Seq(Int)
  BY DEF Upto, Behind
<1>2. Len(u) = n /\ Len(b) = p
  BY DEF Upto, Behind
<1>3. (\A k \in 1..n : u[k] = k) /\ \A k \in 1..p : b[k] = n + k
  BY DEF Upto, Behind
<1> HIDE DEF u, b
<1>4. u \o b = [k \in 1..n + p |-> k]
  <2> DEFINE w == u \o b
  <2>1. w \in Seq(Int) /\ Len(w) = n + p
    BY <1>1, <1>2
  <2>2. ASSUME NEW k \in 1..n + p PROVE w[k] = k
    <3>1. CASE k <= n
      BY <3>1, <1>1, <1>2, <1>3
    <3>2. CASE k > n
      <4>1. k - n \in 1..p /\ w[k] = b[k - n]
        BY <3>2, <1>1, <1>2
      <4>2. QED
        BY <4>1, <1>3
    <3> HIDE DEF w
    <3>3. QED
      BY <3>1, <3>2
  <2> HIDE DEF w
  <2>3. w = [k \in 1..n + p |-> w[k]]
    BY <2>1
  <2>4. QED
    BY <2>2, <2>3 DEF w
<1>5. Append(b, n + p + 1) = [k \in 1..p + 1 |-> n + k]
  <2> DEFINE w == Append(b, n + p + 1)
  <2>1. w \in Seq(Int) /\ Len(w) = p + 1
    BY <1>1, <1>2
  <2>2. \A k \in 1..p : w[k] = b[k] /\ w[p + 1] = n + p + 1
    BY <1>1, <1>2
  <2>3. w[p + 1] = n + (p + 1)
    BY <1>1, <1>2
  <2> HIDE DEF w
  <2>4. \A k \in 1..p + 1 : w[k] = n + k
    BY <1>3, <2>2, <2>3
  <2>5. w = [k \in 1..p + 1 |-> w[k]]
    BY <2>1
  <2>6. QED
    BY <2>4, <2>5 DEF w
<1>6. Behind(n, 0) = <<>>
  BY DEF Behind
<1>7. QED
  BY <1>2, <1>4, <1>5, <1>6 DEF u, b, Upto, Behind

LEMMA WholePartly ==
  ASSUME NEW file, NEW t, NEW s, NEW g \in Nat, Whole(file, t, s, g)
  PROVE  Partly(file, t, s, g)
BY DEF Whole, Partly

\* A row that is not written takes nothing away.
LEMMA PartlyLater ==
  ASSUME NEW file, NEW t \in Tables, NEW s, NEW g \in Nat, Partly(file, t, s, g)
  PROVE  Partly(file, t, s, g + 1)
<1>1. PICK n \in 0..g : /\ Holds(file, s, n)
                        /\ Clean(file, s) => (Follows(t, n) /\ n + t.pending <= g) \/ Broken(t)
  BY DEF Partly
<1>2. n \in 0..g + 1 /\ t.pending \in Int
  BY DEF Tables
<1>3. QED
  BY <1>1, <1>2 DEF Partly

\* An entry that does not fit leaves the sound part of a file alone.
LEMMA PartlyCut ==
  ASSUME NEW file \in Seq(Entries), NEW t, NEW u, NEW s, NEW g \in Nat, NEW e \in Entries,
         Partly(file, t, s, g), ~Fits(e, s) \/ ~Clean(file, s)
  PROVE  Partly(file \o <<e>>, u, s, g)
BY SoundAdd DEF Partly, Holds

\* The rows of a batch come behind those that are there.
LEMMA HoldsMore ==
  ASSUME NEW file \in Seq(Entries), NEW s, NEW n \in Nat, NEW p \in Nat, NEW e \in Entries,
         Holds(file, s, n), Clean(file, s), Fits(e, s), \A c \in Columns : e.cols[c] = Behind(n, p)
  PROVE  Clean(file \o <<e>>, s) /\ Holds(file \o <<e>>, s, n + p)
<1>1. Clean(file \o <<e>>, s) /\ SoundPart(file \o <<e>>, s) = file \o <<e>>
  BY SoundAdd
<1>2. SoundPart(file, s) = file
  BY CleanSound
<1>3. ASSUME NEW c \in Columns PROVE RowsIn(file \o <<e>>, c) = Upto(n + p)
  <2>1. RowsIn(file \o <<e>>, c) = RowsIn(file, c) \o e.cols[c]
    BY RowsInAdd
  <2>2. RowsIn(file, c) = Upto(n)
    BY <1>2 DEF Holds
  <2>3. QED
    BY <2>1, <2>2, BehindIs
<1>4. QED
  BY <1>1, <1>3 DEF Holds

\* The pieces that Flush and Close write: which of them fit.
LEMMA PiecesFit ==
  ASSUME NEW s \in Names, NEW t \in Tables
  PROVE  /\ ~Fits(Torn(s), s)
         /\ Fits(Footer(s), s) /\ \A n \in Nat, c \in Columns : Footer(s).cols[c] = Behind(n, 0)
         /\ Broken(t) => ~Fits(Batch(s, t), s)
         /\ ~Broken(t) => Fits(Batch(s, t), s)
<1>1. \A c \in Columns : NewTable.built[c] = <<>> /\ Len(<<>>) = 0
  BY DEF NewTable
<1>2. Torn(s).kind = "torn" /\ Footer(s).kind = "footer" /\ Batch(s, t).kind = "batch"
  BY DEF Torn, Footer, Batch
<1>3. ~Fits(Torn(s), s)
  BY <1>2 DEF Fits, Uniform
<1>4. Footer(s).by = s /\ Footer(s).num = 0 /\ \A c \in Columns : Footer(s).cols[c] = <<>>
  BY <1>1 DEF Footer
<1>5. Fits(Footer(s), s)
  BY <1>1, <1>2, <1>4 DEF Fits, Uniform
<1>6. \A n \in Nat, c \in Columns : Footer(s).cols[c] = Behind(n, 0)
  BY <1>4, BehindIs
<1>7. Batch(s, t).by = s /\ Batch(s, t).num = t.pending /\ Batch(s, t).cols = t.built
  BY DEF Batch
<1>8. Broken(t) <=> ~Fits(Batch(s, t), s)
  BY <1>2, <1>7 DEF Fits, Uniform, Broken
<1>9. QED
  BY <1>3, <1>5, <1>6, <1>8

LEMMA FollowsFits ==
  ASSUME NEW t \in Tables, NEW n \in Nat, Follows(t, n)
  PROVE  ~Broken(t)
<1>1. t.pending \in Nat
  BY RowGroupAssumption DEF Tables
<1>2. QED
  BY <1>1, BehindIs DEF Follows, Broken

LEMMA NewFollows == \A n \in Nat : Follows(NewTable, n)
<1>1. NewTable.pending = 0 /\ \A c \in Columns : NewTable.built[c] = <<>>
  BY DEF NewTable
<1>2. QED
  BY <1>1, BehindIs DEF Follows

\* A footer adds no rows.
LEMMA FooterKeeps ==
  ASSUME NEW file \in Seq(Entries), NEW t \in Tables, NEW s \in Names, NEW g \in Nat
  PROVE  /\ Partly(file, t, s, g) => Partly(file \o <<Footer(s)>>, t, s, g)
         /\ Whole(file, t, s, g) => Whole(file \o <<Footer(s)>>, t, s, g)
<1>1. Footer(s) \in Entries /\ Fits(Footer(s), s)
      /\ \A n \in Nat, c \in Columns : Footer(s).cols[c] = Behind(n, 0)
  BY Pieces, PiecesFit
<1>2. ASSUME NEW n \in Nat, Holds(file, s, n), Clean(file, s)
      PROVE  Clean(file \o <<Footer(s)>>, s) /\ Holds(file \o <<Footer(s)>>, s, n)
  <2>1. 0 \in Nat /\ n + 0 = n
    OBVIOUS
  <2>2. Clean(file \o <<Footer(s)>>, s) /\ Holds(file \o <<Footer(s)>>, s, n + 0)
    BY <1>1, <1>2, <2>1, HoldsMore
  <2>3. QED
    BY <2>1, <2>2
<1>3. ASSUME Partly(file, t, s, g) PROVE Partly(file \o <<Footer(s)>>, t, s, g)
  <2>1. CASE Clean(file, s)
    BY <2>1, <1>2, <1>3 DEF Partly
  <2>2. CASE ~Clean(file, s)
    BY <2>2, <1>1, <1>3, PartlyCut
  <2>3. QED
    BY <2>1, <2>2
<1>4. ASSUME Whole(file, t, s, g) PROVE Whole(file \o <<Footer(s)>>, t, s, g)
  BY <1>2, <1>4 DEF Whole
<1>5. QED
  BY <1>3, <1>4
LEMMA ThreeColumns == Cardinality(Columns) = 3
<1>1. PICK a \in Int, b \in Int : a = 1 /\ b = 3
  OBVIOUS
<1>2. Cardinality(a..b) = IF a > b THEN 0 ELSE b - a + 1
  BY FS_Interval
<1>3. Columns = a..b
  BY <1>1 DEF Columns
<1>4. QED
  BY <1>1, <1>2, <1>3

\* Taking the first columns breaks a table that has rows, unless nothing was taken.
LEMMA FinishedBreaks ==
  ASSUME NEW t \in Tables, t.pending # 0, NEW c \in 0..3, NEW n \in Nat,
         Follows(t, n) \/ Broken(t)
  PROVE  Broken(Finished(t, c)) \/ (Follows(Finished(t, c), n) /\ Finished(t, c).pending = t.pending)
<1>1. /\ Finished(t, c).pending = t.pending
      /\ \A d \in Columns : Finished(t, c).built[d] = IF d <= c THEN <<>> ELSE t.built[d]
  BY DEF Finished, Tables, Builders
<1>2. Len(<<>>) = 0 /\ Columns = 1..3
  BY DEF Columns
<1>3. CASE c = 0
  <2>1. \A d \in Columns : Finished(t, c).built[d] = t.built[d]
    BY <1>1, <1>2, <1>3
  <2>2. QED
    BY <2>1, <1>1 DEF Follows, Broken
<1>4. CASE c # 0
  <2>1. Finished(t, c).built[1] = <<>> /\ 1 \in Columns
    BY <1>1, <1>2, <1>4
  <2>2. QED
    BY <2>1, <1>1, <1>2 DEF Broken
<1>5. QED
  BY <1>3, <1>4

\* Flush never puts a wrong row into the sound part of a file, and loses none if it returns.
LEMMA FlushKeeps ==
  ASSUME NEW f \in Seq(Entries), NEW t \in Tables, NEW s \in Names, NEW g \in Nat,
         NEW o \in Flush(s, t)
  PROVE  /\ Partly(f, t, s, g) => Partly(f \o o.add, o.table, s, g)
         /\ Whole(f, t, s, g) /\ o.ok => Whole(f \o o.add, o.table, s, g)
<1>1. f \o <<>> = f /\ t.pending \in Nat
  BY RowGroupAssumption DEF Tables
<1>2. Batch(s, t) \in Entries /\ Torn(s) \in Entries
  BY Pieces
<1>3. CASE o = [ok |-> TRUE, table |-> t, add |-> <<>>] /\ t.pending = 0
  BY <1>1, <1>3
<1>4. CASE o = [ok |-> TRUE, table |-> NewTable, add |-> <<Batch(s, t)>>]
  <2>1. \A c \in Columns : Batch(s, t).cols[c] = t.built[c]
    BY DEF Batch
  <2>2. ASSUME NEW n \in Nat, Holds(f, s, n), Clean(f, s), Follows(t, n)
        PROVE  /\ Clean(f \o <<Batch(s, t)>>, s) /\ Holds(f \o <<Batch(s, t)>>, s, n + t.pending)
               /\ Follows(NewTable, n + t.pending) /\ NewTable.pending = 0
    <3>1. Fits(Batch(s, t), s)
      BY <2>2, FollowsFits, PiecesFit
    <3>2. \A c \in Columns : Batch(s, t).cols[c] = Behind(n, t.pending)
      BY <2>1, <2>2 DEF Follows
    <3>3. n + t.pending \in Nat
      BY <1>1
    <3>4. QED
      BY <1>1, <1>2, <2>2, <3>1, <3>2, <3>3, HoldsMore, NewFollows, NewTables
  <2>3. ASSUME Partly(f, t, s, g) PROVE Partly(f \o <<Batch(s, t)>>, NewTable, s, g)
    <3>1. PICK n \in 0..g : /\ Holds(f, s, n)
                            /\ Clean(f, s) => (Follows(t, n) /\ n + t.pending <= g) \/ Broken(t)
      BY <2>3 DEF Partly
    <3>2. CASE Clean(f, s) /\ ~Broken(t)
      <4>1. n + t.pending \in 0..g /\ n + t.pending + 0 <= g /\ n \in Nat
        BY <1>1, <3>1, <3>2
      <4>2. QED
        BY <3>1, <3>2, <4>1, <2>2 DEF Partly
    <3>3. CASE ~Clean(f, s) \/ Broken(t)
      <4>1. ~Clean(f, s) \/ ~Fits(Batch(s, t), s)
        BY <3>3, PiecesFit
      <4>2. QED
        BY <1>2, <2>3, <4>1, PartlyCut
    <3>4. QED
      BY <3>2, <3>3
  <2>4. ASSUME Whole(f, t, s, g) PROVE Whole(f \o <<Batch(s, t)>>, NewTable, s, g)
    <3>1. PICK n \in 0..g : Holds(f, s, n) /\ Follows(t, n) /\ n + t.pending = g
      BY <2>4 DEF Whole
    <3>2. n + t.pending \in 0..g /\ n + t.pending + 0 = g /\ n \in Nat /\ Clean(f, s)
      BY <1>1, <2>4, <3>1 DEF Whole
    <3>3. QED
      BY <2>2, <3>1, <3>2 DEF Whole
  <2>5. QED
    BY <1>4, <2>3, <2>4
<1>5. ASSUME NEW c \in 0..3, t.pending # 0,
             \/ o = [ok |-> FALSE, table |-> Finished(t, c), add |-> <<>>]
             \/ o = [ok |-> FALSE, table |-> Finished(t, c), add |-> <<Torn(s)>>]
      PROVE  ~o.ok /\ (Partly(f, t, s, g) => Partly(f \o o.add, o.table, s, g))
  <2> SUFFICES ASSUME Partly(f, t, s, g) PROVE Partly(f \o o.add, Finished(t, c), s, g)
    BY <1>5
  <2>1. CASE o.add = <<>>
    <3>1. PICK n \in 0..g : /\ Holds(f, s, n)
                            /\ Clean(f, s) => (Follows(t, n) /\ n + t.pending <= g) \/ Broken(t)
      BY DEF Partly
    <3>2. Clean(f, s) =>
            (Follows(Finished(t, c), n) /\ n + Finished(t, c).pending <= g) \/ Broken(Finished(t, c))
      <4>1. Finished(t, c).pending = t.pending
        BY FinishedTables
      <4>2. n \in Nat
        OBVIOUS
      <4>3. ASSUME Clean(f, s), ~Broken(t)
            PROVE  Broken(Finished(t, c)) \/ (Follows(Finished(t, c), n) /\ n + Finished(t, c).pending <= g)
        BY <1>5, <3>1, <4>1, <4>2, <4>3, FinishedBreaks
      <4>4. ASSUME Broken(t) PROVE Broken(Finished(t, c))
        <5>1. \A d \in Columns : Finished(t, c).built[d] = IF d <= c THEN <<>> ELSE t.built[d]
          BY DEF Finished, Tables, Builders
        <5>2. Len(<<>>) = 0
          OBVIOUS
        <5>3. QED
          BY <1>5, <4>1, <4>4, <5>1, <5>2 DEF Broken
      <4>5. QED
        BY <4>3, <4>4
    <3>3. QED
      BY <1>1, <2>1, <3>1, <3>2 DEF Partly
  <2>2. CASE o.add = <<Torn(s)>>
    BY <1>2, <2>2, PiecesFit, PartlyCut
  <2>3. QED
    BY <1>5, <2>1, <2>2
<1>6. \/ o = [ok |-> TRUE, table |-> t, add |-> <<>>] /\ t.pending = 0
      \/ o = [ok |-> TRUE, table |-> NewTable, add |-> <<Batch(s, t)>>]
      \/ \E c \in 0..3 : /\ t.pending # 0
                         /\ \/ o = [ok |-> FALSE, table |-> Finished(t, c), add |-> <<>>]
                            \/ o = [ok |-> FALSE, table |-> Finished(t, c), add |-> <<Torn(s)>>]
  <2>1. Cardinality(Columns) = 3
    BY ThreeColumns
  <2>2. \A c \in Columns : c - 1 \in 0..3
    BY DEF Columns
  <2>3. 3 \in 0..3
    OBVIOUS
  <2>4. QED
    BY <2>1, <2>2, <2>3 DEF Flush
<1>7. QED
  BY <1>3, <1>4, <1>5, <1>6

\* A row that does not get into every column breaks its table, unless it got into none.
LEMMA AppendKeeps ==
  ASSUME NEW f \in Seq(Entries), NEW t \in Tables, NEW s \in Names, NEW g \in Nat,
         g + 1 <= MaxRows, Whole(f, t, s, g), NEW c \in 0..2
  PROVE  Partly(f, AppendRow(t, g + 1, c), s, g + 1)
<1> DEFINE u == AppendRow(t, g + 1, c)
<1>1. PICK n \in 0..g : Holds(f, s, n) /\ Follows(t, n) /\ n + t.pending = g
  BY DEF Whole
<1>2. /\ u.pending = t.pending /\ t.pending \in Nat
      /\ \A d \in Columns : u.built[d] = IF d <= c THEN Append(t.built[d], g + 1) ELSE t.built[d]
  BY RowGroupAssumption DEF AppendRow, Tables, Builders
<1> HIDE DEF u
<1>3. CASE c = 0
  <2>1. \A d \in Columns : u.built[d] = t.built[d]
    BY <1>2, <1>3 DEF Columns
  <2>2. Follows(u, n) /\ n + u.pending <= g + 1 /\ n \in 0..g + 1
    BY <1>1, <1>2, <2>1 DEF Follows
  <2>3. QED
    BY <1>1, <2>2 DEF Partly, u
<1>4. CASE c # 0
  <2>1. 1 \in Columns /\ 1 <= c /\ t.built[1] \in Seq(1..MaxRows)
    BY <1>4 DEF Columns, Tables, Builders
  <2>2. Len(u.built[1]) = Len(t.built[1]) + 1 /\ Len(t.built[1]) = t.pending
    <3>1. u.built[1] = Append(t.built[1], g + 1)
      BY <1>2, <2>1
    <3>2. Len(Append(t.built[1], g + 1)) = Len(t.built[1]) + 1
      BY <2>1
    <3>3. Len(t.built[1]) = t.pending
      <4>1. n \in Nat /\ t.built[1] = Behind(n, t.pending)
        BY <1>1, <2>1 DEF Follows
      <4>2. QED
        BY <1>2, <4>1, BehindIs
    <3>4. QED
      BY <3>1, <3>2, <3>3
  <2>3. Broken(u)
    BY <1>2, <2>1, <2>2 DEF Broken
  <2>4. n \in 0..g + 1
    OBVIOUS
  <2>5. QED
    BY <1>1, <2>3, <2>4 DEF Partly, u
<1>5. QED
  BY <1>3, <1>4

\* A row that gets into every column follows those before it.
LEMMA AppendFollows ==
  ASSUME NEW f \in Seq(Entries), NEW t \in Tables, NEW s \in Names, NEW g \in Nat,
         Whole(f, t, s, g)
  PROVE  Whole(f, [AppendRow(t, g + 1, 3) EXCEPT !.pending = @ + 1], s, g + 1)
<1> DEFINE u == [AppendRow(t, g + 1, 3) EXCEPT !.pending = @ + 1]
<1>1. PICK n \in 0..g : Holds(f, s, n) /\ Follows(t, n) /\ n + t.pending = g
  BY DEF Whole
<1>2. /\ u.pending = t.pending + 1 /\ t.pending \in Nat
      /\ \A d \in Columns : u.built[d] = Append(t.built[d], g + 1)
  BY RowGroupAssumption DEF AppendRow, Tables, Builders, Columns
<1> HIDE DEF u
<1>3. \A d \in Columns : u.built[d] = Behind(n, u.pending)
  <2>1. Append(Behind(n, t.pending), n + t.pending + 1) = Behind(n, t.pending + 1)
    <3>1. n \in Nat
      OBVIOUS
    <3>2. QED
      BY <3>1, <1>2, BehindIs
  <2>2. QED
    BY <1>1, <1>2, <2>1 DEF Follows
<1>4. n \in 0..g + 1 /\ n + u.pending = g + 1
  BY <1>1, <1>2
<1>5. QED
  BY <1>1, <1>3, <1>4 DEF Whole, Follows, u
-----------------------------------------------------------------------------
(* What the files and the tables hold at every place.                      *)

Begun ==
  pc \in {"start", "writing"} =>
    /\ caller = "none" /\ result = "none"
    /\ pc = "start" => \A s \in Names : given[s] = 0 /\ table[s] = NewTable

RowsKept ==
  \A s \in Names \cap DOMAIN disk :
    /\ Partly(disk[s], table[s], s, given[s])
    /\ ~failed /\ caller # "destructor" => Whole(disk[s], table[s], s, given[s])

\* What closing has done so far, and what the report therefore says.
Reported ==
  /\ pc = "closing" =>
       result # "ok" /\ caller \in {"Finish", "destructor"} /\ (caller = "Finish" => ~failed)
  /\ result = "ok" =>
       /\ closed /\ ~failed /\ caller = "Finish" /\ closing = Len(Samplers) + 1
       /\ pc \in {"finished", "gone"} /\ Names \subseteq DOMAIN disk
  /\ (pc = "closing" /\ caller = "Finish") \/ result = "ok" =>
       /\ Instruments \in DOMAIN disk
       /\ \A n \in DOMAIN disk[Instruments] : disk[Instruments][n].by = Own
  /\ pc = "closing" \/ result = "ok" =>
       \A n \in 1..closing - 1 : table[Samplers[n]].pending = 0 /\ Footers(disk[Samplers[n]]) # {}

RInv == Begun /\ RowsKept /\ Reported

LEMMA EmptyWhole ==
  ASSUME NEW s PROVE Whole(<<>>, NewTable, s, 0)
<1>1. Clean(<<>>, s)
  BY DEF Clean
<1>2. SoundPart(<<>>, s) = <<>>
  BY <1>1, CleanSound
<1>3. Holds(<<>>, s, 0)
  <2>1. Upto(0) = <<>>
    BY DEF Upto
  <2>2. \A c \in Columns : RowsIn(<<>>, c) = <<>>
    <3>1. Footer(Own) \in Entries /\ <<>> \in Seq(Entries)
      BY Pieces, NewTables
    <3>2. QED
      BY <3>1, RowsInAdd
  <2>3. QED
    BY <1>2, <2>1, <2>2 DEF Holds
<1>4. Follows(NewTable, 0) /\ NewTable.pending = 0 /\ 0 \in 0..0 /\ 0 + 0 = 0
  BY NewFollows, NewTables
<1>5. QED
  BY <1>1, <1>3, <1>4 DEF Whole

LEMMA InitRows == Init => RInv
<1> SUFFICES ASSUME Init PROVE RInv
  OBVIOUS
<1>1. /\ pc = "start" /\ DOMAIN disk = {} /\ caller = "none" /\ result = "none"
      /\ given = [s \in Names |-> 0] /\ table = [s \in Names |-> NewTable]
  BY DEF Init
<1>2. Begun /\ RowsKept /\ Reported
  BY <1>1 DEF Begun, RowsKept, Reported
<1>3. QED
  BY <1>2 DEF RInv

LEMMA ConstructRows == ASSUME IInv, RInv, Construct PROVE RInv'
<1>1. /\ pc = "start" /\ pc' \in {"writing", "gone"} /\ caller = "none" /\ result = "none"
      /\ UNCHANGED <<given, table, closed, closing, caller, failed, result>>
      /\ \A s \in Names : given[s] = 0 /\ table[s] = NewTable
  BY DEF Construct, RInv, Begun
<1>2. \A p \in DOMAIN disk' : disk'[p] = <<>>
  BY DEF Construct, Opened
<1>3. \A s \in Names : Whole(<<>>, NewTable, s, 0) /\ Partly(<<>>, NewTable, s, 0)
  BY EmptyWhole, WholePartly
<1>4. RowsKept'
  BY <1>1, <1>2, <1>3 DEF RowsKept
<1>5. Begun' /\ Reported'
  BY <1>1 DEF Begun, Reported
<1>6. QED
  BY <1>4, <1>5 DEF RInv

\* A step that changes the file and the table of one sampler only.
LEMMA OneChanges ==
  ASSUME IInv, RowsKept, NEW s \in Names, s \in DOMAIN disk,
         DOMAIN disk' = DOMAIN disk, UNCHANGED caller, ~failed' => ~failed,
         \A r \in Names \ {s} : disk'[r] = disk[r] /\ table'[r] = table[r] /\ given'[r] = given[r],
         Partly(disk'[s], table'[s], s, given'[s]),
         ~failed' /\ caller # "destructor" => Whole(disk'[s], table'[s], s, given'[s])
  PROVE  RowsKept'
BY DEF RowsKept

LEMMA WriteRows == ASSUME IInv, RInv, NEW s \in Names, Write(s) PROVE RInv'
<1> DEFINE g == given[s]
<1>1. /\ pc = "writing" /\ g < MaxRows /\ given' = [given EXCEPT ![s] = @ + 1]
      /\ UNCHANGED <<pc, closed, closing, caller, result>>
      /\ caller = "none" /\ result = "none" /\ s \in DOMAIN disk
  BY DEF Write, RInv, Begun, IInv, Unclosed
<1>2. /\ g \in Nat /\ g + 1 <= MaxRows /\ g + 1 \in Nat /\ given'[s] = g + 1
      /\ \A r \in Names \ {s} : given'[r] = given[r]
  BY <1>1, RowGroupAssumption DEF IInv, TypeOK
<1>3. table[s] \in Tables /\ disk[s] \in Seq(Entries) /\ failed \in BOOLEAN
  BY <1>1 DEF IInv, TypeOK
<1>4. Partly(disk[s], table[s], s, g) /\ (~failed => Whole(disk[s], table[s], s, g))
  BY <1>1 DEF RInv, RowsKept
<1> HIDE DEF g
<1>5. Begun' /\ Reported'
  BY <1>1 DEF Begun, Reported
<1>6. CASE failed /\ UNCHANGED <<table, disk, failed>>
  <2>1. Partly(disk'[s], table'[s], s, given'[s])
    BY <1>2, <1>3, <1>4, <1>6, PartlyLater
  <2>2. RowsKept'
    BY <1>1, <1>2, <1>6, <2>1, OneChanges DEF RInv
  <2>3. QED
    BY <1>5, <2>2 DEF RInv
<1>7. CASE ~failed /\ Written(s, g + 1)
  <2>1. ASSUME NEW c \in Columns, table' = [table EXCEPT ![s] = AppendRow(@, g + 1, c - 1)],
               failed' = TRUE, UNCHANGED disk
        PROVE  RowsKept'
    <3>1. c - 1 \in 0..2
      BY DEF Columns
    <3>2. Partly(disk[s], AppendRow(table[s], g + 1, c - 1), s, g + 1)
      BY <1>2, <1>3, <1>4, <1>7, <3>1, AppendKeeps
    <3>3. /\ table'[s] = AppendRow(table[s], g + 1, c - 1)
          /\ \A r \in Names \ {s} : table'[r] = table[r]
      BY <2>1 DEF IInv
    <3>4. QED
      BY <1>1, <1>2, <2>1, <3>2, <3>3, OneChanges DEF RInv
  <2> DEFINE more == [AppendRow(table[s], g + 1, Cardinality(Columns)) EXCEPT !.pending = @ + 1]
  <2>2. /\ Whole(disk[s], more, s, g + 1) /\ Partly(disk[s], more, s, g + 1) /\ more \in Tables
    <3>1. Cardinality(Columns) = 3
      BY ThreeColumns
    <3>2. Whole(disk[s], more, s, g + 1)
      BY <1>2, <1>3, <1>4, <1>7, <3>1, AppendFollows
    <3>3. more \in Tables
      <4>1. g + 1 \in 1..MaxRows
        BY <1>2, RowGroupAssumption
      <4>2. /\ AppendRow(table[s], g + 1, Cardinality(Columns)) \in Tables
            /\ AppendRow(table[s], g + 1, Cardinality(Columns)).pending = table[s].pending
        BY <1>3, <4>1, AppendedTables
      <4>3. table[s].pending + 1 \in 0..RowGroup
        BY <1>3, <1>7, RowGroupAssumption DEF IInv, Tables
      <4>4. QED
        BY <4>2, <4>3 DEF Tables
    <3>4. QED
      BY <1>2, <3>2, <3>3, WholePartly
  <2> HIDE DEF more
  <2>3. ASSUME table' = [table EXCEPT ![s] = more], UNCHANGED <<disk, failed>>
        PROVE  RowsKept'
    <3>1. table'[s] = more /\ \A r \in Names \ {s} : table'[r] = table[r]
      BY <2>3 DEF IInv
    <3>2. /\ DOMAIN disk' = DOMAIN disk /\ disk'[s] = disk[s] /\ (~failed' => ~failed)
          /\ \A r \in Names \ {s} : disk'[r] = disk[r] /\ table'[r] = table[r]
      BY <2>3, <3>1
    <3>3. Partly(disk'[s], table'[s], s, given'[s]) /\ Whole(disk'[s], table'[s], s, given'[s])
      BY <1>2, <2>2, <3>1, <3>2
    <3>4. QED
      BY <1>1, <1>2, <3>2, <3>3, OneChanges DEF RInv
  <2>4. ASSUME NEW o \in Flush(s, more), table' = [table EXCEPT ![s] = o.table],
               disk' = [disk EXCEPT ![s] = @ \o o.add], failed' = ~o.ok
        PROVE  RowsKept'
    <3>1. /\ Partly(disk[s] \o o.add, o.table, s, g + 1)
          /\ o.ok => Whole(disk[s] \o o.add, o.table, s, g + 1)
      BY <1>2, <1>3, <2>2, FlushKeeps
    <3>2. /\ table'[s] = o.table /\ disk'[s] = disk[s] \o o.add /\ DOMAIN disk' = DOMAIN disk
          /\ \A r \in Names \ {s} : table'[r] = table[r] /\ disk'[r] = disk[r]
      BY <1>1, <2>4 DEF IInv
    <3>3. ~failed' => o.ok
      BY <2>4
    <3>4. QED
      BY <1>1, <1>2, <1>7, <3>1, <3>2, <3>3, OneChanges DEF RInv
  <2>5. RowsKept'
    <3>1. \/ \E c \in Columns : table' = [table EXCEPT ![s] = AppendRow(@, g + 1, c - 1)]
                               /\ failed' = TRUE /\ UNCHANGED disk
          \/ table' = [table EXCEPT ![s] = more] /\ UNCHANGED <<disk, failed>>
          \/ \E o \in Flush(s, more) : /\ table' = [table EXCEPT ![s] = o.table]
                                      /\ disk' = [disk EXCEPT ![s] = @ \o o.add]
                                      /\ failed' = ~o.ok
      BY <1>7 DEF Written, more
    <3>2. QED
      BY <2>1, <2>3, <2>4, <3>1
  <2>6. QED
    BY <1>5, <2>5 DEF RInv
<1>8. QED
  BY <1>6, <1>7 DEF Write, g
\* WriteInstruments leaves the files of the samplers alone.
LEMMA OwnApart ==
  ASSUME Instruments \notin Names, NEW f, disk' = WithInstruments(f)
  PROVE  /\ DOMAIN disk' = DOMAIN disk \cup {Instruments} /\ disk'[Instruments] = f
         /\ \A s \in Names : s \in DOMAIN disk' <=> s \in DOMAIN disk
         /\ \A s \in Names \cap DOMAIN disk : disk'[s] = disk[s]
BY DEF WithInstruments

\* What the samplers have is as before.
LEMMA RowsUntouched ==
  ASSUME RowsKept, UNCHANGED <<given, table>>, ~failed' => ~failed,
         caller' # "destructor" => caller # "destructor",
         \A s \in Names : s \in DOMAIN disk' <=> s \in DOMAIN disk,
         \A s \in Names \cap DOMAIN disk : disk'[s] = disk[s]
  PROVE  RowsKept'
BY DEF RowsKept

LEMMA FinishRows ==
  ASSUME IInv, RInv, Instruments \notin Names, Finish PROVE RInv'
<1>1. /\ pc = "writing" /\ UNCHANGED <<given, table>> /\ caller = "none" /\ result = "none"
      /\ Names \subseteq DOMAIN disk
  BY DEF Finish, RInv, Begun, IInv, Unclosed
<1>2. CASE /\ pc' = "finished" /\ result' = "error" /\ (failed \/ failed' = TRUE)
           /\ UNCHANGED <<closed, closing, caller>> /\ (failed => UNCHANGED failed)
           /\ disk' \in Spoilt
  <2>1. /\ \A s \in Names : s \in DOMAIN disk' <=> s \in DOMAIN disk
        /\ \A s \in Names \cap DOMAIN disk : disk'[s] = disk[s]
    BY <1>2, OwnApart DEF Spoilt
  <2>2. RowsKept'
    BY <1>1, <1>2, <2>1, RowsUntouched DEF RInv
  <2>3. Begun' /\ Reported'
    BY <1>1, <1>2 DEF Begun, Reported
  <2>4. QED
    BY <2>2, <2>3 DEF RInv
<1>3. CASE ~failed /\ disk' = WriteInstruments /\ CloseBegins("Finish") /\ UNCHANGED <<failed, result>>
  <2>1. pc' = "closing" /\ closing' = 1 /\ caller' = "Finish"
    BY <1>3 DEF CloseBegins
  <2>2. /\ Instruments \in DOMAIN disk' /\ disk'[Instruments] = <<Batch(Own, NewTable), Footer(Own)>>
        /\ \A s \in Names : s \in DOMAIN disk' <=> s \in DOMAIN disk
        /\ \A s \in Names \cap DOMAIN disk : disk'[s] = disk[s]
    BY <1>3, OwnApart DEF WriteInstruments
  <2>3. RowsKept'
    BY <1>1, <1>3, <2>1, <2>2, RowsUntouched DEF RInv
  <2>4. \A n \in DOMAIN disk'[Instruments] : disk'[Instruments][n].by = Own
    <3>1. Batch(Own, NewTable).by = Own /\ Footer(Own).by = Own
      BY DEF Batch, Footer
    <3>2. QED
      BY <2>2, <3>1
  <2>5. Begun' /\ Reported'
    BY <1>1, <1>3, <2>1, <2>2, <2>4 DEF Begun, Reported
  <2>6. QED
    BY <2>3, <2>5 DEF RInv
<1>4. QED
  BY <1>2, <1>3 DEF Finish, Spoilt

LEMMA DestroyRows == ASSUME IInv, RInv, Destroy PROVE RInv'
<1>1. /\ pc \in {"writing", "finished"} /\ UNCHANGED <<given, table, disk, failed, result>>
  BY DEF Destroy
<1>2. CASE closed /\ pc' = "gone" /\ UNCHANGED <<closed, closing, caller>>
  <2>1. Begun' /\ RowsKept' /\ Reported'
    BY <1>1, <1>2 DEF RInv, Begun, RowsKept, Reported
  <2>2. QED
    BY <2>1 DEF RInv
<1>3. CASE ~closed /\ CloseBegins("destructor")
  <2>1. pc' = "closing" /\ closing' = 1 /\ caller' = "destructor" /\ result # "ok"
    BY <1>3 DEF CloseBegins, RInv, Reported
  <2>2. Begun' /\ RowsKept' /\ Reported'
    BY <1>1, <2>1 DEF RInv, Begun, RowsKept, Reported
  <2>3. QED
    BY <2>2 DEF RInv
<1>4. QED
  BY <1>2, <1>3 DEF Destroy

LEMMA CloseReturnsRows == ASSUME IInv, RInv, CloseReturns PROVE RInv'
<1>1. /\ pc = "closing" /\ closed /\ UNCHANGED <<given, table, disk, closed, caller, closing>>
      /\ pc' = (IF caller = "Finish" THEN "finished" ELSE "gone") /\ Names \subseteq DOMAIN disk
      /\ result' = (IF caller = "Finish" THEN "ok" ELSE result)
      /\ closing > Len(Samplers) /\ closing \in 1..Len(Samplers) + 1
  BY DEF CloseReturns, CloseEnds, IInv, TypeOK, Unclosed
<1>2. failed' = failed
  BY DEF CloseReturns, CloseEnds, IInv, TypeOK
<1>3. closing = Len(Samplers) + 1
  BY <1>1, SamplersAssumption
<1>4. RowsKept'
  BY <1>1, <1>2, RowsUntouched DEF RInv
<1>5. Begun' /\ Reported'
  BY <1>1, <1>2, <1>3 DEF RInv, Begun, Reported
<1>6. QED
  BY <1>4, <1>5 DEF RInv

\* The file Close is at gets the rows that are left, and its footer if that goes well.
LEMMA CloseTableRows ==
  ASSUME IInv, RInv, Instruments \notin Names, CloseTable PROVE RInv'
<1> DEFINE s == Samplers[closing]
           g == given[s]
<1>1. /\ pc = "closing" /\ closing \in 1..Len(Samplers) /\ closed
      /\ Names \subseteq DOMAIN disk /\ UNCHANGED <<given, closed, caller>>
      /\ result # "ok" /\ caller \in {"Finish", "destructor"} /\ (caller = "Finish" => ~failed)
  BY SamplersAssumption DEF CloseTable, IInv, TypeOK, Unclosed, RInv, Reported
<1>2. /\ s \in Names /\ s \in DOMAIN disk /\ table[s] \in Tables /\ disk[s] \in Seq(Entries)
      /\ g \in Nat
  BY <1>1, SamplersAssumption, RowGroupAssumption DEF IInv, TypeOK, Names
<1>3. PICK o \in Flush(s, table[s]) :
        /\ table' = [table EXCEPT ![s] = o.table]
        /\ \/ /\ o.ok
              /\ disk' = [disk EXCEPT ![s] = @ \o o.add \o <<Footer(s)>>]
              /\ closing' = closing + 1
              /\ UNCHANGED <<pc, failed, result>>
           \/ /\ o.ok
              /\ disk' = [disk EXCEPT ![s] = @ \o o.add \o <<Torn(s)>>]
              /\ CloseEnds(FALSE)
           \/ /\ ~o.ok
              /\ disk' = [disk EXCEPT ![s] = @ \o o.add]
              /\ CloseEnds(FALSE)
  BY DEF CloseTable
<1> DEFINE f == disk[s] \o o.add
<1>4. /\ Partly(disk[s], table[s], s, g)
      /\ ~failed /\ caller # "destructor" => Whole(disk[s], table[s], s, g)
  BY <1>2 DEF RInv, RowsKept
<1>5. /\ o.table \in Tables /\ o.add \in Seq(Entries) /\ (o.ok => o.table.pending = 0)
  BY <1>2, <1>3, FlushSound
<1>6. f \in Seq(Entries) /\ Torn(s) \in Entries /\ Footer(s) \in Entries
  BY <1>2, <1>5, Pieces
<1>7. /\ Partly(f, o.table, s, g)
      /\ o.ok /\ ~failed /\ caller # "destructor" => Whole(f, o.table, s, g)
  BY <1>2, <1>3, <1>4, FlushKeeps
<1>8. /\ table'[s] = o.table /\ given'[s] = g /\ DOMAIN disk' = DOMAIN disk
      /\ \A r \in Names \ {s} : table'[r] = table[r] /\ given'[r] = given[r]
      /\ \A p \in DOMAIN disk \ {s} : disk'[p] = disk[p]
  BY <1>1, <1>2, <1>3 DEF IInv
<1>9. \A r \in Names \ {s} : disk'[r] = disk[r]
  BY <1>1, <1>8
<1> HIDE DEF f, g
<1>10. CASE /\ o.ok /\ disk'[s] = f \o <<Footer(s)>> /\ closing' = closing + 1
            /\ UNCHANGED <<pc, failed, result>>
  <2>1. /\ Partly(f \o <<Footer(s)>>, o.table, s, g)
        /\ ~failed /\ caller # "destructor" => Whole(f \o <<Footer(s)>>, o.table, s, g)
    BY <1>2, <1>5, <1>6, <1>7, <1>10, FooterKeeps
  <2>2. RowsKept'
    <3>1. Partly(disk'[s], table'[s], s, given'[s])
      BY <1>8, <1>10, <2>1
    <3>2. ~failed' /\ caller # "destructor" => Whole(disk'[s], table'[s], s, given'[s])
      BY <1>8, <1>10, <2>1
    <3>3. ~failed' => ~failed
      BY <1>10
    <3>4. QED
      BY <1>1, <1>2, <1>8, <1>9, <3>1, <3>2, <3>3, OneChanges DEF RInv
  <2>3. Footers(disk'[s]) # {} /\ table'[s].pending = 0
    <3>1. /\ Len(f \o <<Footer(s)>>) \in DOMAIN (f \o <<Footer(s)>>)
          /\ (f \o <<Footer(s)>>)[Len(f \o <<Footer(s)>>)] = Footer(s)
      BY <1>6
    <3>2. Footer(s).kind = "footer"
      BY DEF Footer
    <3>3. Footers(f \o <<Footer(s)>>) # {}
      BY <3>1, <3>2 DEF Footers
    <3>4. QED
      BY <1>5, <1>8, <1>10, <3>3
  <2>4. ASSUME NEW n \in 1..closing' - 1
        PROVE  table'[Samplers[n]].pending = 0 /\ Footers(disk'[Samplers[n]]) # {}
    <3>1. CASE n = closing
      BY <2>3, <3>1
    <3>2. CASE n # closing
      <4>1. n \in 1..closing - 1 /\ n \in 1..Len(Samplers)
        BY <1>1, <1>10, <3>2, SamplersAssumption
      <4>2. Samplers[n] \in Names \ {s}
        BY <1>1, <3>2, <4>1, SamplersAssumption DEF Names
      <4>3. table[Samplers[n]].pending = 0 /\ Footers(disk[Samplers[n]]) # {}
        BY <1>1, <4>1 DEF RInv, Reported
      <4>4. table'[Samplers[n]] = table[Samplers[n]] /\ disk'[Samplers[n]] = disk[Samplers[n]]
        BY <1>8, <1>9, <4>2
      <4>5. QED
        BY <4>3, <4>4
    <3>3. QED
      BY <3>1, <3>2
  <2>5. caller = "Finish" => /\ Instruments \in DOMAIN disk'
                             /\ \A n \in DOMAIN disk'[Instruments] : disk'[Instruments][n].by = Own
    <3>1. Instruments # s
      BY <1>2
    <3>2. QED
      BY <1>1, <1>8, <3>1 DEF RInv, Reported
  <2>6. Begun' /\ Reported'
    BY <1>1, <1>10, <2>4, <2>5 DEF Begun, Reported
  <2>7. QED
    BY <2>2, <2>6 DEF RInv
<1>11. CASE /\ (o.ok /\ disk'[s] = f \o <<Torn(s)>>) \/ disk'[s] = f
            /\ CloseEnds(FALSE)
  <2>1. /\ pc' \in {"finished", "gone"} /\ result' # "ok"
        /\ (caller = "Finish" => failed') /\ (~failed' => ~failed)
    BY <1>1, <1>11 DEF CloseEnds
  <2>2. Partly(disk'[s], table'[s], s, given'[s])
    <3>1. Partly(f \o <<Torn(s)>>, o.table, s, g)
      BY <1>2, <1>5, <1>6, <1>7, PiecesFit, PartlyCut DEF g
    <3>2. QED
      BY <1>7, <1>8, <1>11, <3>1
  <2>3. RowsKept'
    BY <1>1, <1>2, <1>8, <1>9, <2>1, <2>2, OneChanges DEF RInv
  <2>4. Begun' /\ Reported'
    BY <2>1 DEF Begun, Reported
  <2>5. QED
    BY <2>3, <2>4 DEF RInv
<1>12. QED
  <2>1. \/ /\ o.ok /\ disk' = [disk EXCEPT ![s] = f \o <<Footer(s)>>] /\ closing' = closing + 1
           /\ UNCHANGED <<pc, failed, result>>
        \/ /\ o.ok /\ disk' = [disk EXCEPT ![s] = f \o <<Torn(s)>>] /\ CloseEnds(FALSE)
        \/ disk' = [disk EXCEPT ![s] = f] /\ CloseEnds(FALSE)
    BY <1>3 DEF f
  <2>2. \A x : disk' = [disk EXCEPT ![s] = x] => disk'[s] = x
    BY <1>2
  <2>3. QED
    BY <1>10, <1>11, <2>1, <2>2

\* The files and the tables hold the rows at every place.
THEOREM RowsInductive == ASSUME Instruments \notin Names PROVE Spec => []RInv
<1>1. Init => RInv
  BY InitRows
<1>2. IInv /\ RInv /\ [Next]_vars => RInv'
  <2> SUFFICES ASSUME IInv, RInv, [Next]_vars PROVE RInv'
    OBVIOUS
  <2>1. CASE Construct
    BY <2>1, ConstructRows
  <2>2. ASSUME NEW s \in Names, Write(s) PROVE RInv'
    BY <2>2, WriteRows
  <2>3. CASE Finish
    BY <2>3, FinishRows
  <2>4. CASE CloseTable
    BY <2>4, CloseTableRows
  <2>5. CASE CloseReturns
    BY <2>5, CloseReturnsRows
  <2>6. CASE Destroy
    BY <2>6, DestroyRows
  <2>7. CASE UNCHANGED vars
    BY <2>7 DEF vars, RInv, Begun, RowsKept, Reported
  <2>8. QED
    BY <2>1, <2>2, <2>3, <2>4, <2>5, <2>6, <2>7 DEF Next
<1>3. Spec => []IInv
  BY Inductive
<1>4. QED
  BY <1>1, <1>2, <1>3, PTL DEF Spec

\* Whatever fails, and whatever the destructor still writes after it, the sound part of a
\* sampler's file holds its first rows in order, the same in every column; until something
\* fails, file and builders together hold them all.
THEOREM PrefixKept == ASSUME Instruments \notin Names PROVE Spec => []RowsPrefix
<1>1. IInv /\ RInv => RowsPrefix
  <2> SUFFICES ASSUME IInv, RInv, NEW s \in Names \cap DOMAIN disk
               PROVE  /\ \E n \in 0..given[s] : \A c \in Columns : RowsIn(Sound(s), c) = Upto(n)
                      /\ ~failed /\ caller # "destructor" =>
                           \A c \in Columns : RowsIn(Sound(s), c) \o table[s].built[c] = Upto(given[s])
    BY DEF RowsPrefix
  <2>1. /\ Partly(disk[s], table[s], s, given[s])
        /\ ~failed /\ caller # "destructor" => Whole(disk[s], table[s], s, given[s])
    BY DEF RInv, RowsKept
  <2>2. \E n \in 0..given[s] : \A c \in Columns : RowsIn(Sound(s), c) = Upto(n)
    BY <2>1 DEF Partly, Holds, Sound
  <2>3. ASSUME Whole(disk[s], table[s], s, given[s]), NEW c \in Columns
        PROVE  RowsIn(Sound(s), c) \o table[s].built[c] = Upto(given[s])
    <3>1. PICK n \in 0..given[s] : /\ Holds(disk[s], s, n) /\ Follows(table[s], n)
                                   /\ n + table[s].pending = given[s]
      BY <2>3 DEF Whole
    <3>2. n \in Nat /\ table[s].pending \in Nat
      BY RowGroupAssumption DEF IInv, TypeOK
    <3>3. RowsIn(Sound(s), c) = Upto(n) /\ table[s].built[c] = Behind(n, table[s].pending)
      BY <3>1 DEF Holds, Follows, Sound
    <3>4. QED
      BY <3>1, <3>2, <3>3, BehindIs
  <2>4. QED
    BY <2>1, <2>2, <2>3
<1>2. Spec => []IInv /\ []RInv
  BY Inductive, RowsInductive
<1>3. QED
  BY <1>1, <1>2, PTL

\* If Finish reports no error, every sampler has a whole file with every row given to it,
\* and nobody but WriteInstruments has written to the instrument table.
THEOREM ReportTrue == ASSUME Instruments \notin Names PROVE Spec => []ReportedFilesWhole
<1>1. IInv /\ RInv => ReportedFilesWhole
  <2> SUFFICES ASSUME IInv, RInv, result = "ok" PROVE ReportedFilesWhole
    BY DEF ReportedFilesWhole
  <2>1. /\ ~failed /\ caller = "Finish" /\ closing = Len(Samplers) + 1 /\ Names \subseteq DOMAIN disk
        /\ \A n \in DOMAIN disk[Instruments] : disk[Instruments][n].by = Own
        /\ \A n \in 1..closing - 1 : table[Samplers[n]].pending = 0 /\ Footers(disk[Samplers[n]]) # {}
    BY DEF RInv, Reported
  <2>2. ASSUME NEW s \in Names
        PROVE  /\ Sound(s) = disk[s] /\ Cardinality(Footers(disk[s])) = 1
               /\ \A c \in Columns : RowsIn(disk[s], c) = Upto(given[s])
    <3>1. s \in DOMAIN disk /\ Whole(disk[s], table[s], s, given[s])
      BY <2>1 DEF RInv, RowsKept
    <3>2. table[s].pending = 0 /\ Footers(disk[s]) # {}
      <4>1. PICK n \in 1..Len(Samplers) : s = Samplers[n]
        BY SamplersAssumption DEF Names
      <4>2. n \in 1..closing - 1
        BY <2>1, SamplersAssumption
      <4>3. QED
        BY <2>1, <4>1, <4>2
    <3>3. Sound(s) = disk[s]
      BY <3>1, CleanSound DEF Whole, Sound
    <3>4. Cardinality(Footers(disk[s])) = 1
      <4>1. Footers(disk[s]) = {Len(disk[s])}
        BY <3>1, <3>2 DEF IInv, FooterLast
      <4>2. QED
        BY <4>1, FS_Singleton
    <3>5. PICK n \in 0..given[s] : Holds(disk[s], s, n) /\ n + table[s].pending = given[s]
      BY <3>1 DEF Whole
    <3>6. n = given[s]
      BY <3>2, <3>5
    <3>7. QED
      BY <3>3, <3>4, <3>5, <3>6 DEF Holds, Sound
  <2>3. QED
    BY <2>1, <2>2 DEF ReportedFilesWhole
<1>2. Spec => []IInv /\ []RInv
  BY Inductive, RowsInductive
<1>3. QED
  BY <1>1, <1>2, PTL
=============================================================================
