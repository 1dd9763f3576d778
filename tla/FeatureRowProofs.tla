-------------------------- MODULE FeatureRowProofs --------------------------
(***************************************************************************)
(* Proofs about FeatureRow, CsvWriter and CatalogReport: the cells of a    *)
(* row are those of the columns they stand under, a sampler's file read as *)
(* CSV is the table of the rows it emitted, and what check prints read as  *)
(* JSON is the catalog.                                                    *)
(*                                                                         *)
(* The inductive invariant is RowInv: the catalog is what the bundles      *)
(* declare (CatalogRight), and each instance of the engine, each of the    *)
(* sampler's last values and each row is a function of the log of events   *)
(* (EngineInv).  TextsRight carries the assumptions on the bundles' texts  *)
(* over to the texts of the catalog.                                       *)
(*                                                                         *)
(* What a reader makes of a text is a fold over its characters, and every  *)
(* list a printer goes through is one too.  Each of these is described by  *)
(* its steps (Taken, Joined and FlattenSeq of a sequence and one element   *)
(* more), by Induct, so that a text is read part by part: CsvCell, JsonIs  *)
(* and PieceIs say what a part does to any reader that comes upon it.      *)
(***************************************************************************)
EXTENDS CatalogReport, CsvWriter, FiniteSetTheorems, WellFoundedInduction, TLAPS

-----------------------------------------------------------------------------
(* Induction.                                                              *)

\* A set of natural numbers that holds 0, and with each number the next, holds them all.
LEMMA Induct ==
  ASSUME NEW T \in SUBSET Nat, 0 \in T, \A n \in T : n + 1 \in T
  PROVE  T = Nat
<1> SUFFICES ASSUME Nat \ T # {} PROVE FALSE
  OBVIOUS
<1>1. PICK n \in Nat \ T : \A m \in Nat \ T : ~(<<m, n>> \in OpToRel(<, Nat))
  <2>1. Nat \ T \subseteq Nat
    OBVIOUS
  <2>2. QED
    BY <2>1, NatLessThanWellFounded, WFMin, Zenon
<1>2. n # 0 /\ n - 1 \in Nat /\ n - 1 < n
  OBVIOUS
<1>3. n - 1 \in T
  BY <1>1, <1>2 DEF OpToRel
<1>4. QED
  BY <1>2, <1>3

-----------------------------------------------------------------------------
(* Sequences of anything.                                                  *)

IsSeq(s) == \E S : s \in Seq(S)

LEMMA SeqShape ==
  ASSUME NEW s, IsSeq(s)
  PROVE  /\ Len(s) \in Nat /\ DOMAIN s = 1..Len(s) /\ s = [n \in 1..Len(s) |-> s[n]]
         /\ (s = <<>> <=> Len(s) = 0)
<1>1. PICK S : s \in Seq(S)
  BY DEF IsSeq
<1> QED BY <1>1

\* A function on 1..n is a sequence of length n.
LEMMA SeqMade ==
  ASSUME NEW n \in Nat, NEW f, DOMAIN f = 1..n, f = [i \in 1..n |-> f[i]]
  PROVE  IsSeq(f) /\ Len(f) = n
<1> DEFINE S == {f[i] : i \in 1..n}
<1>1. f \in [1..n -> S]
  OBVIOUS
<1>2. f \in Seq(S) /\ Len(f) = n
  BY <1>1
<1> QED BY <1>2 DEF IsSeq

LEMMA SeqSame ==
  ASSUME NEW s, NEW t, IsSeq(s), IsSeq(t), Len(s) = Len(t), \A n \in 1..Len(s) : s[n] = t[n]
  PROVE  s = t
BY SeqShape

LEMMA SeqsJoin ==
  ASSUME NEW s, NEW t, IsSeq(s), IsSeq(t)
  PROVE  \E S : s \in Seq(S) /\ t \in Seq(S)
<1>1. PICK S : s \in Seq(S)
  BY DEF IsSeq
<1>2. PICK T : t \in Seq(T)
  BY DEF IsSeq
<1>3. s \in Seq(S \cup T) /\ t \in Seq(S \cup T)
  BY <1>1, <1>2
<1> QED BY <1>3

LEMMA EmptySeqIs == IsSeq(<<>>) /\ Len(<<>>) = 0
<1>1. <<>> \in Seq({})
  OBVIOUS
<1> QED BY <1>1 DEF IsSeq

LEMMA OneSeqIs == ASSUME NEW x PROVE IsSeq(<<x>>) /\ Len(<<x>>) = 1 /\ <<x>>[1] = x
<1>1. <<x>> \in Seq({x})
  OBVIOUS
<1> QED BY <1>1 DEF IsSeq

LEMMA ConcatIs ==
  ASSUME NEW s, NEW t, IsSeq(s), IsSeq(t)
  PROVE  /\ IsSeq(s \o t) /\ Len(s \o t) = Len(s) + Len(t)
         /\ \A n \in 1..Len(s) : (s \o t)[n] = s[n]
         /\ \A n \in 1..Len(t) : (s \o t)[Len(s) + n] = t[n]
<1>1. PICK S : s \in Seq(S) /\ t \in Seq(S)
  BY SeqsJoin
<1>2. s \o t \in Seq(S)
  BY <1>1
<1>3. Len(s \o t) = Len(s) + Len(t) /\ Len(s) \in Nat /\ Len(t) \in Nat
  BY <1>1
<1>4. ASSUME NEW n \in 1..Len(t) PROVE (s \o t)[Len(s) + n] = t[n]
  BY <1>1, <1>3
<1>5. ASSUME NEW n \in 1..Len(s) PROVE (s \o t)[n] = s[n]
  BY <1>1, <1>3
<1> QED BY <1>2, <1>3, <1>4, <1>5 DEF IsSeq

LEMMA ConcatEmpty ==
  ASSUME NEW s, IsSeq(s)
  PROVE  s \o <<>> = s /\ <<>> \o s = s
<1>1. PICK S : s \in Seq(S)
  BY DEF IsSeq
<1> QED BY <1>1

LEMMA ConcatAssoc ==
  ASSUME NEW s, NEW t, NEW u, IsSeq(s), IsSeq(t), IsSeq(u)
  PROVE  (s \o t) \o u = s \o (t \o u)
<1>1. PICK S : s \in Seq(S)
  BY DEF IsSeq
<1>2. PICK T : t \in Seq(T)
  BY DEF IsSeq
<1>3. PICK U : u \in Seq(U)
  BY DEF IsSeq
<1> DEFINE A == S \cup T \cup U
<1>4. s \in Seq(A) /\ t \in Seq(A) /\ u \in Seq(A)
  BY <1>1, <1>2, <1>3
<1> QED BY <1>4

LEMMA AppendIs ==
  ASSUME NEW s, NEW x, IsSeq(s)
  PROVE  /\ Append(s, x) = s \o <<x>> /\ IsSeq(Append(s, x)) /\ Len(Append(s, x)) = Len(s) + 1
         /\ \A n \in 1..Len(s) : Append(s, x)[n] = s[n]
         /\ Append(s, x)[Len(s) + 1] = x
<1>1. PICK S : s \in Seq(S)
  BY DEF IsSeq
<1>2. s \in Seq(S \cup {x}) /\ x \in S \cup {x}
  BY <1>1
<1>3. Append(s, x) \in Seq(S \cup {x})
  BY <1>2
<1>4. Append(s, x) = s \o <<x>> /\ Len(Append(s, x)) = Len(s) + 1
  BY <1>2
<1>5. Append(s, x)[Len(s) + 1] = x
  BY <1>2
<1>6. ASSUME NEW n \in 1..Len(s) PROVE Append(s, x)[n] = s[n]
  BY <1>2
<1> QED BY <1>3, <1>4, <1>5, <1>6 DEF IsSeq

LEMMA ConcatAppend ==
  ASSUME NEW s, NEW t, NEW x, IsSeq(s), IsSeq(t)
  PROVE  s \o Append(t, x) = Append(s \o t, x)
<1>1. PICK S : s \in Seq(S) /\ t \in Seq(S)
  BY SeqsJoin
<1>2. s \in Seq(S \cup {x}) /\ t \in Seq(S \cup {x}) /\ x \in S \cup {x}
  BY <1>1
<1> QED BY <1>2

\* The first k elements.
LEMMA FirstIs ==
  ASSUME NEW s, IsSeq(s), NEW k \in 0..Len(s)
  PROVE  /\ IsSeq(SubSeq(s, 1, k)) /\ Len(SubSeq(s, 1, k)) = k
         /\ \A n \in 1..k : SubSeq(s, 1, k)[n] = s[n]
         /\ k = Len(s) => SubSeq(s, 1, k) = s
         /\ k > 0 => SubSeq(s, 1, k) = Append(SubSeq(s, 1, k - 1), s[k])
<1>1. PICK S : s \in Seq(S)
  BY DEF IsSeq
<1>2. Len(s) \in Nat /\ k \in Nat
  BY <1>1
<1>3. ASSUME NEW j \in 0..Len(s)
      PROVE  /\ SubSeq(s, 1, j) \in Seq(S) /\ Len(SubSeq(s, 1, j)) = j
             /\ \A n \in 1..j : SubSeq(s, 1, j)[n] = s[n]
  BY <1>1, <1>2
<1>4. k = Len(s) => SubSeq(s, 1, k) = s
  BY <1>1, <1>3
<1>5. ASSUME k > 0 PROVE SubSeq(s, 1, k) = Append(SubSeq(s, 1, k - 1), s[k])
  <2>1. k - 1 \in 0..Len(s) /\ k - 1 \in Nat /\ k \in 1..Len(s)
    BY <1>2, <1>5
  <2>2. PICK t : t = SubSeq(s, 1, k - 1)
    OBVIOUS
  <2>3. t \in Seq(S) /\ Len(t) = k - 1 /\ \A n \in 1..k - 1 : t[n] = s[n]
    BY <1>3, <2>1, <2>2
  <2>4. IsSeq(t) /\ IsSeq(SubSeq(s, 1, k))
    <3>1. SubSeq(s, 1, k) \in Seq(S)
      BY <1>3
    <3> QED BY <2>3, <3>1 DEF IsSeq
  <2>5. IsSeq(Append(t, s[k])) /\ Len(Append(t, s[k])) = k
    <3>1. IsSeq(Append(t, s[k])) /\ Len(Append(t, s[k])) = Len(t) + 1
      BY <2>4, AppendIs
    <3> QED BY <1>2, <2>3, <3>1
  <2>6. ASSUME NEW n \in 1..k PROVE SubSeq(s, 1, k)[n] = Append(t, s[k])[n]
    <3>1. CASE n = k
      BY <3>1, <1>3, <2>1, <2>3, <2>4, AppendIs
    <3>2. CASE n \in 1..k - 1
      BY <3>2, <1>3, <2>1, <2>3, <2>4, AppendIs
    <3>3. n = k \/ n \in 1..k - 1
      BY <1>2
    <3> QED BY <3>1, <3>2, <3>3
  <2> QED BY <2>2, <2>4, <2>5, <2>6, <1>3, SeqSame
<1> QED BY <1>3, <1>4, <1>5 DEF IsSeq
-----------------------------------------------------------------------------
(* FlattenSeq.                                                             *)

\* The recursive function that FlattenSeq evaluates.
Flattens(s, N, g) == g = [n \in 1..N |-> IF n = 1 THEN s[n] ELSE g[n - 1] \o s[n]]

LEMMA FlattensExists ==
  ASSUME NEW s, NEW N \in Nat
  PROVE  \E g : Flattens(s, N, g)
<1> DEFINE T == {m \in Nat : \E g : Flattens(s, m, g)}
<1>1. 0 \in T
  <2>1. Flattens(s, 0, [n \in 1..0 |-> s])
    BY DEF Flattens
  <2> QED BY <2>1
<1>2. ASSUME NEW m \in T PROVE m + 1 \in T
  <2>1. PICK g : Flattens(s, m, g)
    OBVIOUS
  <2> DEFINE last == IF m + 1 = 1 THEN s[m + 1] ELSE g[m] \o s[m + 1]
             h == [n \in 1..m + 1 |-> IF n = m + 1 THEN last ELSE g[n]]
  <2>2. ASSUME NEW n \in 1..m + 1
        PROVE  h[n] = IF n = 1 THEN s[n] ELSE h[n - 1] \o s[n]
    <3>1. CASE n = m + 1
      BY <3>1
    <3>2. CASE n # m + 1
      <4>1. n \in 1..m /\ (n # 1 => n - 1 \in 1..m /\ n - 1 \in 1..m + 1 /\ n - 1 # m + 1)
        BY <3>2
      <4>2. g[n] = IF n = 1 THEN s[n] ELSE g[n - 1] \o s[n]
        BY <2>1, <4>1 DEF Flattens
      <4> QED BY <3>2, <4>1, <4>2
    <3> QED BY <3>1, <3>2
  <2>3. Flattens(s, m + 1, h)
    BY <2>2 DEF Flattens
  <2> QED BY <2>3
<1> QED BY <1>1, <1>2, Induct

\* It depends on the sequences so far alone.
LEMMA FlattensSame ==
  ASSUME NEW s, NEW t, NEW N \in Nat, NEW M \in Nat, N <= M, \A n \in 1..N : s[n] = t[n],
         NEW g, Flattens(s, N, g), NEW h, Flattens(t, M, h)
  PROVE  \A n \in 1..N : g[n] = h[n]
<1> DEFINE T == {m \in Nat : \A n \in 1..N : n <= m => g[n] = h[n]}
<1>1. 0 \in T
  OBVIOUS
<1>2. ASSUME NEW m \in T PROVE m + 1 \in T
  <2> SUFFICES ASSUME NEW n \in 1..N, n <= m + 1 PROVE g[n] = h[n]
    OBVIOUS
  <2>1. CASE n <= m
    BY <2>1
  <2>2. CASE n = m + 1
    <3>1. n \in 1..M /\ (n # 1 => n - 1 \in 1..N /\ n - 1 <= m)
      BY <2>2
    <3>2. g[n] = IF n = 1 THEN s[n] ELSE g[n - 1] \o s[n]
      BY DEF Flattens
    <3>3. h[n] = IF n = 1 THEN t[n] ELSE h[n - 1] \o t[n]
      BY <3>1 DEF Flattens
    <3>4. n # 1 => g[n - 1] = h[n - 1]
      BY <3>1
    <3> QED BY <3>2, <3>3, <3>4
  <2> QED BY <2>1, <2>2
<1>3. T = Nat
  BY <1>1, <1>2, Induct
<1> QED BY <1>3

LEMMA FlattenLast ==
  ASSUME NEW s, Len(s) \in Nat, Len(s) # 0
  PROVE  \E g : Flattens(s, Len(s), g) /\ FlattenSeq(s) = g[Len(s)]
<1> DEFINE g == CHOOSE g : Flattens(s, Len(s), g)
<1>1. Flattens(s, Len(s), g)
  BY FlattensExists
<1>2. FlattenSeq(s) = g[Len(s)]
  BY DEF FlattenSeq, Flattens
<1> QED BY <1>1, <1>2

LEMMA FlattenEmpty == FlattenSeq(<<>>) = <<>>
BY DEF FlattenSeq

\* A sequence of sequences.
IsSeqs(s) == IsSeq(s) /\ \A n \in 1..Len(s) : IsSeq(s[n])

LEMMA FlattenAppend ==
  ASSUME NEW s, NEW x, IsSeq(s), IsSeq(x)
  PROVE  FlattenSeq(Append(s, x)) = IF s = <<>> THEN x ELSE FlattenSeq(s) \o x
<1> DEFINE t == Append(s, x)
<1>1. PICK N : N = Len(s)
  OBVIOUS
<1>2. /\ N \in Nat /\ Len(t) = N + 1 /\ t[N + 1] = x /\ (s = <<>> <=> N = 0)
      /\ \A n \in 1..N : s[n] = t[n]
  BY <1>1, AppendIs, SeqShape
<1> HIDE DEF t
<1>3. PICK h : Flattens(t, N + 1, h) /\ FlattenSeq(t) = h[N + 1]
  <2>1. Len(t) \in Nat /\ Len(t) # 0
    BY <1>2
  <2> QED BY <1>2, <2>1, FlattenLast
<1>4. h[N + 1] = IF N = 0 THEN x ELSE h[N] \o x
  <2>1. N + 1 \in 1..N + 1 /\ (N + 1) - 1 = N /\ (N + 1 = 1 <=> N = 0)
    BY <1>2
  <2>2. h[N + 1] = IF N + 1 = 1 THEN t[N + 1] ELSE h[(N + 1) - 1] \o t[N + 1]
    BY <1>3, <2>1 DEF Flattens
  <2> QED BY <1>2, <2>1, <2>2
<1>5. CASE s = <<>>
  BY <1>2, <1>3, <1>4, <1>5 DEF t
<1>6. CASE s # <<>>
  <2>1. N # 0 /\ N \in 1..N
    BY <1>2, <1>6
  <2>2. PICK g : Flattens(s, N, g) /\ FlattenSeq(s) = g[N]
    BY <1>1, <1>2, <2>1, FlattenLast
  <2>3. g[N] = h[N]
    <3>1. N <= N + 1 /\ N + 1 \in Nat
      BY <1>2
    <3>2. \A n \in 1..N : s[n] = t[n]
      BY <1>2
    <3>3. Flattens(s, N, g) /\ Flattens(t, N + 1, h) /\ N \in Nat
      BY <1>2, <1>3, <2>2
    <3>4. \A n \in 1..N : g[n] = h[n]
      BY <3>1, <3>2, <3>3, FlattensSame
    <3> QED BY <2>1, <3>4
  <2> QED BY <1>3, <1>4, <1>6, <2>1, <2>2, <2>3 DEF t
<1> QED BY <1>5, <1>6

\* The first k sequences, put one after the other.
Upto(s, k) == FlattenSeq(SubSeq(s, 1, k))

LEMMA UptoStep ==
  ASSUME NEW s, IsSeqs(s), NEW k \in 1..Len(s)
  PROVE  Upto(s, k) = IF k = 1 THEN s[k] ELSE Upto(s, k - 1) \o s[k]
<1>1. IsSeq(s) /\ IsSeq(s[k]) /\ Len(s) \in Nat
  BY SeqShape DEF IsSeqs
<1>2. k \in 0..Len(s) /\ k - 1 \in 0..Len(s) /\ k > 0 /\ (k - 1 = 0 <=> k = 1)
  BY <1>1
<1>3. PICK t : t = SubSeq(s, 1, k - 1)
  OBVIOUS
<1>4. IsSeq(t) /\ Len(t) = k - 1
  BY <1>1, <1>2, <1>3, FirstIs
<1>5. SubSeq(s, 1, k) = Append(t, s[k])
  BY <1>1, <1>2, <1>3, FirstIs
<1>6. t = <<>> <=> k = 1
  BY <1>2, <1>4, SeqShape
<1>7. FlattenSeq(Append(t, s[k])) = IF t = <<>> THEN s[k] ELSE FlattenSeq(t) \o s[k]
  BY <1>1, <1>4, FlattenAppend
<1> QED BY <1>3, <1>5, <1>6, <1>7 DEF Upto

LEMMA UptoNone ==
  ASSUME NEW s, IsSeq(s)
  PROVE  Upto(s, 0) = <<>>
<1>1. Len(s) \in Nat
  BY SeqShape
<1>2. IsSeq(SubSeq(s, 1, 0)) /\ Len(SubSeq(s, 1, 0)) = 0
  BY <1>1, FirstIs
<1>3. SubSeq(s, 1, 0) = <<>>
  BY <1>2, SeqShape
<1> QED BY <1>3, FlattenEmpty DEF Upto

LEMMA UptoSeq ==
  ASSUME NEW s, IsSeqs(s), NEW k \in 0..Len(s)
  PROVE  IsSeq(Upto(s, k))
<1> DEFINE T == {m \in Nat : m <= Len(s) => IsSeq(Upto(s, m))}
<1>1. IsSeq(s) /\ Len(s) \in Nat
  BY SeqShape DEF IsSeqs
<1>2. 0 \in T
  BY <1>1, UptoNone, EmptySeqIs
<1>3. ASSUME NEW m \in T PROVE m + 1 \in T
  <2> SUFFICES ASSUME m + 1 <= Len(s) PROVE IsSeq(Upto(s, m + 1))
    OBVIOUS
  <2>1. m + 1 \in 1..Len(s) /\ m <= Len(s) /\ (m + 1) - 1 = m
    BY <1>1
  <2>2. IsSeq(s[m + 1]) /\ IsSeq(Upto(s, m))
    BY <2>1 DEF IsSeqs
  <2>3. Upto(s, m + 1) = IF m + 1 = 1 THEN s[m + 1] ELSE Upto(s, m) \o s[m + 1]
    BY <2>1, UptoStep
  <2> QED BY <2>2, <2>3, ConcatIs
<1>4. T = Nat
  BY <1>2, <1>3, Induct
<1>5. k \in Nat /\ k <= Len(s)
  BY <1>1
<1> HIDE DEF T
<1>6. k \in T
  BY <1>4, <1>5
<1> QED BY <1>5, <1>6 DEF T

\* The equation, also for the first.
LEMMA UptoIs ==
  ASSUME NEW s, IsSeqs(s)
  PROVE  /\ Upto(s, 0) = <<>> /\ Upto(s, Len(s)) = FlattenSeq(s) /\ IsSeq(FlattenSeq(s))
         /\ \A k \in 1..Len(s) : Upto(s, k) = Upto(s, k - 1) \o s[k]
         /\ \A k \in 0..Len(s) : IsSeq(Upto(s, k)) /\ Len(Upto(s, k)) \in Nat
         /\ \A k \in 1..Len(s) : Len(Upto(s, k)) = Len(Upto(s, k - 1)) + Len(s[k])
<1>1. IsSeq(s) /\ Len(s) \in Nat
  BY SeqShape DEF IsSeqs
<1>2. Upto(s, 0) = <<>>
  BY <1>1, UptoNone
<1>3. ASSUME NEW k \in 0..Len(s) PROVE IsSeq(Upto(s, k)) /\ Len(Upto(s, k)) \in Nat
  BY UptoSeq, SeqShape
<1>4. Upto(s, Len(s)) = FlattenSeq(s) /\ IsSeq(FlattenSeq(s))
  <2>1. SubSeq(s, 1, Len(s)) = s
    BY <1>1, FirstIs
  <2>2. Len(s) \in 0..Len(s)
    BY <1>1
  <2>3. IsSeq(Upto(s, Len(s)))
    BY <1>3, <2>2
  <2> QED BY <2>1, <2>3 DEF Upto
<1>5. ASSUME NEW k \in 1..Len(s)
      PROVE  /\ Upto(s, k) = Upto(s, k - 1) \o s[k]
             /\ Len(Upto(s, k)) = Len(Upto(s, k - 1)) + Len(s[k])
  <2>1. k - 1 \in 0..Len(s) /\ (k = 1 => k - 1 = 0)
    BY <1>1
  <2>2. IsSeq(Upto(s, k - 1)) /\ IsSeq(s[k])
    BY <1>3, <2>1 DEF IsSeqs
  <2>3. Upto(s, k) = IF k = 1 THEN s[k] ELSE Upto(s, k - 1) \o s[k]
    BY UptoStep
  <2>4. k = 1 => Upto(s, k - 1) \o s[k] = s[k]
    BY <1>2, <2>1, <2>2, ConcatEmpty
  <2>5. Upto(s, k) = Upto(s, k - 1) \o s[k]
    BY <2>3, <2>4
  <2> QED BY <2>2, <2>5, ConcatIs
<1> QED BY <1>2, <1>3, <1>4, <1>5
\* What has been put stays.
LEMMA UptoGrows ==
  ASSUME NEW s, IsSeqs(s), NEW j \in 0..Len(s), NEW k \in 0..Len(s), j <= k
  PROVE  /\ Len(Upto(s, j)) <= Len(Upto(s, k))
         /\ \A n \in 1..Len(Upto(s, j)) : Upto(s, k)[n] = Upto(s, j)[n]
<1> DEFINE Kept(m) == /\ Len(Upto(s, j)) <= Len(Upto(s, m))
                      /\ \A n \in 1..Len(Upto(s, j)) : Upto(s, m)[n] = Upto(s, j)[n]
           T == {m \in Nat : j <= m /\ m <= Len(s) => Kept(m)}
<1>1. Len(s) \in Nat /\ j \in Nat /\ k \in Nat /\ k <= Len(s)
  BY SeqShape DEF IsSeqs
<1>2. Kept(j)
  BY UptoIs
<1>3. 0 \in T
  BY <1>1, <1>2
<1>4. ASSUME NEW m \in T PROVE m + 1 \in T
  <2> SUFFICES ASSUME j <= m + 1, m + 1 <= Len(s) PROVE Kept(m + 1)
    OBVIOUS
  <2>1. CASE j = m + 1
    BY <1>2, <2>1
  <2>2. CASE j <= m
    <3>1. m \in 0..Len(s) /\ m + 1 \in 1..Len(s) /\ (m + 1) - 1 = m
      BY <1>1
    <3>2. Kept(m)
      BY <2>2, <3>1
    <3>3. PICK t : t = Upto(s, m)
      OBVIOUS
    <3>4. Upto(s, m + 1) = t \o s[m + 1] /\ Len(Upto(s, m + 1)) = Len(t) + Len(s[m + 1])
      BY <3>1, <3>3, UptoIs
    <3>5. IsSeq(t) /\ IsSeq(s[m + 1]) /\ Len(t) \in Nat /\ Len(s[m + 1]) \in Nat
      BY <3>1, <3>3, UptoIs, SeqShape DEF IsSeqs
    <3>6. \A n \in 1..Len(t) : Upto(s, m + 1)[n] = t[n]
      BY <3>4, <3>5, ConcatIs
    <3>7. Len(Upto(s, j)) \in Nat
      BY UptoIs
    <3> QED BY <3>2, <3>3, <3>4, <3>5, <3>6, <3>7
  <2> QED BY <2>1, <2>2, <1>1
<1>5. T = Nat
  BY <1>3, <1>4, Induct
<1> HIDE DEF T, Kept
<1>6. k \in T
  BY <1>1, <1>5
<1>7. Kept(k)
  BY <1>1, <1>6 DEF T
<1> QED BY <1>7 DEF Kept

\* Where the i-th element of the k-th sequence lies.
LEMMA UptoAt ==
  ASSUME NEW s, IsSeqs(s), NEW k \in 1..Len(s), NEW i \in 1..Len(s[k]), NEW m \in k..Len(s)
  PROVE  /\ Len(Upto(s, k - 1)) + i \in 1..Len(Upto(s, m))
         /\ Upto(s, m)[Len(Upto(s, k - 1)) + i] = s[k][i]
<1>1. Len(s) \in Nat /\ k \in 0..Len(s) /\ k - 1 \in 0..Len(s) /\ m \in 0..Len(s) /\ k <= m
  BY SeqShape DEF IsSeqs
<1>2. PICK t : t = Upto(s, k - 1)
  OBVIOUS
<1>3. IsSeq(t) /\ IsSeq(s[k]) /\ Len(t) \in Nat /\ Len(s[k]) \in Nat
  BY <1>1, <1>2, UptoIs, SeqShape DEF IsSeqs
<1>4. Upto(s, k) = t \o s[k] /\ Len(Upto(s, k)) = Len(t) + Len(s[k])
  BY <1>1, <1>2, UptoIs
<1>5. Upto(s, k)[Len(t) + i] = s[k][i]
  BY <1>3, <1>4, ConcatIs
<1>6. Len(t) + i \in 1..Len(Upto(s, k)) /\ Len(Upto(s, k)) \in Nat
  BY <1>3, <1>4
<1>7. /\ Len(Upto(s, k)) <= Len(Upto(s, m)) /\ Len(Upto(s, m)) \in Nat
      /\ \A n \in 1..Len(Upto(s, k)) : Upto(s, m)[n] = Upto(s, k)[n]
  BY <1>1, UptoGrows, UptoIs
<1>8. PICK x : x = Len(t) + i
  OBVIOUS
<1>9. x \in 1..Len(Upto(s, k)) /\ Upto(s, k)[x] = s[k][i]
  BY <1>5, <1>6, <1>8
<1>10. x \in 1..Len(Upto(s, m)) /\ Upto(s, m)[x] = s[k][i]
  BY <1>6, <1>7, <1>9
<1> QED BY <1>2, <1>8, <1>10

\* Nothing else lies there.
LEMMA UptoCovers ==
  ASSUME NEW s, IsSeqs(s), NEW k \in 0..Len(s), NEW n \in 1..Len(Upto(s, k))
  PROVE  \E j \in 1..k : \E i \in 1..Len(s[j]) : n = Len(Upto(s, j - 1)) + i
<1> DEFINE Found(l, x) == \E j \in 1..l : \E i \in 1..Len(s[j]) : x = Len(Upto(s, j - 1)) + i
           T == {m \in Nat : m <= Len(s) => \A x \in 1..Len(Upto(s, m)) : Found(m, x)}
<1>1. Len(s) \in Nat /\ k \in Nat /\ k <= Len(s)
  BY SeqShape DEF IsSeqs
<1>2. 0 \in T
  <2>1. Len(Upto(s, 0)) = 0
    BY UptoIs, EmptySeqIs
  <2> QED BY <2>1
<1>3. ASSUME NEW m \in T PROVE m + 1 \in T
  <2> SUFFICES ASSUME m + 1 <= Len(s), NEW x \in 1..Len(Upto(s, m + 1)) PROVE Found(m + 1, x)
    OBVIOUS
  <2>1. m \in 0..Len(s) /\ m + 1 \in 1..Len(s) /\ (m + 1) - 1 = m /\ m + 1 \in 1..m + 1
    BY <1>1
  <2>2. /\ Len(Upto(s, m + 1)) = Len(Upto(s, m)) + Len(s[m + 1])
        /\ Len(Upto(s, m)) \in Nat /\ Len(s[m + 1]) \in Nat
    BY <2>1, UptoIs, SeqShape DEF IsSeqs
  <2>3. CASE x <= Len(Upto(s, m))
    <3>1. m <= Len(s) /\ x \in 1..Len(Upto(s, m))
      BY <2>1, <2>2, <2>3
    <3>2. PICK j \in 1..m : \E i \in 1..Len(s[j]) : x = Len(Upto(s, j - 1)) + i
      BY <3>1, Zenon
    <3>3. j \in 1..m + 1
      OBVIOUS
    <3> QED BY <3>2, <3>3
  <2>4. CASE x > Len(Upto(s, m))
    <3> DEFINE i == x - Len(Upto(s, m))
    <3>1. i \in 1..Len(s[m + 1]) /\ x = Len(Upto(s, m)) + i
      BY <2>2, <2>4
    <3> QED BY <2>1, <3>1
  <2> QED BY <2>2, <2>3, <2>4
<1>4. T = Nat
  BY <1>2, <1>3, Induct
<1> HIDE DEF T, Found
<1>5. k \in T
  BY <1>1, <1>4
<1>6. Found(k, n)
  BY <1>1, <1>5 DEF T
<1> QED BY <1>6 DEF Found
\* Two sequences of sequences of the same lengths, and what is at the same place in both.
Parallel(s, t) ==
  IsSeqs(s) /\ IsSeqs(t) /\ Len(s) = Len(t) /\ \A n \in 1..Len(s) : Len(s[n]) = Len(t[n])
Alike(s, t, n) ==
  \E j \in 1..Len(s) : \E i \in 1..Len(s[j]) :
    FlattenSeq(s)[n] = s[j][i] /\ FlattenSeq(t)[n] = t[j][i]

LEMMA UptoParallel ==
  ASSUME NEW s, NEW t, Parallel(s, t), NEW k \in 0..Len(s)
  PROVE  Len(Upto(s, k)) = Len(Upto(t, k))
<1> DEFINE T == {m \in Nat : m <= Len(s) => Len(Upto(s, m)) = Len(Upto(t, m))}
<1>0. IsSeqs(s) /\ IsSeqs(t) /\ Len(s) = Len(t) /\ \A n \in 1..Len(s) : Len(s[n]) = Len(t[n])
  BY DEF Parallel
<1>1. Len(s) \in Nat /\ k \in Nat /\ k <= Len(s)
  BY <1>0, SeqShape DEF IsSeqs
<1>2. 0 \in T
  BY <1>0, UptoIs
<1>3. ASSUME NEW m \in T PROVE m + 1 \in T
  <2> SUFFICES ASSUME m + 1 <= Len(s) PROVE Len(Upto(s, m + 1)) = Len(Upto(t, m + 1))
    OBVIOUS
  <2>1. m + 1 \in 1..Len(s) /\ m + 1 \in 1..Len(t) /\ (m + 1) - 1 = m /\ m <= Len(s)
    BY <1>0, <1>1
  <2>2. Len(Upto(s, m)) = Len(Upto(t, m))
    BY <2>1
  <2>3. Len(Upto(s, m + 1)) = Len(Upto(s, m)) + Len(s[m + 1])
    BY <1>0, <2>1, UptoIs
  <2>4. Len(Upto(t, m + 1)) = Len(Upto(t, m)) + Len(t[m + 1])
    BY <1>0, <2>1, UptoIs
  <2> QED BY <1>0, <2>1, <2>2, <2>3, <2>4
<1>4. T = Nat
  BY <1>2, <1>3, Induct
<1> HIDE DEF T
<1>5. k \in T
  BY <1>1, <1>4
<1> QED BY <1>1, <1>5 DEF T

LEMMA FlattenParallel ==
  ASSUME NEW s, NEW t, Parallel(s, t)
  PROVE  /\ IsSeq(FlattenSeq(s)) /\ IsSeq(FlattenSeq(t)) /\ Len(FlattenSeq(s)) = Len(FlattenSeq(t))
         /\ \A n \in 1..Len(FlattenSeq(s)) : Alike(s, t, n)
<1>0. IsSeqs(s) /\ IsSeqs(t) /\ Len(s) = Len(t) /\ \A n \in 1..Len(s) : Len(s[n]) = Len(t[n])
  BY DEF Parallel
<1>1. Len(s) \in Nat /\ Len(s) \in 0..Len(s)
  BY <1>0, SeqShape DEF IsSeqs
<1>2. /\ Upto(s, Len(s)) = FlattenSeq(s) /\ IsSeq(FlattenSeq(s))
      /\ Upto(t, Len(s)) = FlattenSeq(t) /\ IsSeq(FlattenSeq(t))
  BY <1>0, UptoIs
<1>3. \A k \in 0..Len(s) : Len(Upto(s, k)) = Len(Upto(t, k))
  BY UptoParallel
<1>4. ASSUME NEW n \in 1..Len(FlattenSeq(s)) PROVE Alike(s, t, n)
  <2>0. n \in 1..Len(Upto(s, Len(s)))
    BY <1>2
  <2>1. PICK j \in 1..Len(s) : \E i \in 1..Len(s[j]) : n = Len(Upto(s, j - 1)) + i
    BY <1>0, <1>1, <2>0, UptoCovers
  <2>2. PICK i \in 1..Len(s[j]) : n = Len(Upto(s, j - 1)) + i
    BY <2>1
  <2>3. j - 1 \in 0..Len(s) /\ j \in 1..Len(t) /\ i \in 1..Len(t[j]) /\ Len(s) \in j..Len(s)
    BY <1>0, <1>1
  <2>4. Upto(s, Len(s))[n] = s[j][i]
    BY <1>0, <2>2, <2>3, UptoAt
  <2>5. n = Len(Upto(t, j - 1)) + i
    BY <1>3, <2>2, <2>3
  <2>6. Len(s) \in j..Len(t)
    BY <1>0, <2>3
  <2>7. Upto(t, Len(s))[n] = t[j][i]
    BY <1>0, <2>3, <2>5, <2>6, UptoAt
  <2> QED BY <1>2, <2>2, <2>4, <2>7 DEF Alike
<1> QED BY <1>1, <1>2, <1>3, <1>4
-----------------------------------------------------------------------------
(* The inductive invariant of CellsUnderTheirNames.                        *)

\* The columns that a plugin q, the p-th, declares, and those of a sequence of plugins.
DeclaredOf(q, p) ==
  [f \in DOMAIN Bundles[q.stem] |->
     [c \in DOMAIN Bundles[q.stem][f] |->
        [name |-> q.name \o Dot \o Bundles[q.stem][f][c].name,
         cumulative |-> Bundles[q.stem][f][c].cumulative, plugin |-> p, feature |-> f, column |-> c]]]
DeclaredBy(pl) == [p \in DOMAIN pl |-> FlattenSeq(DeclaredOf(pl[p], p))]

FromBundles(pl) == IsSeq(pl) /\ \A p \in 1..Len(pl) : pl[p].stem \in DOMAIN Bundles

\* The catalog's columns are the declared ones, in their order.
ColumnsDeclared ==
  /\ IsSeq(columns) /\ Len(columns) = Len(Declared)
  /\ \A x \in 1..Len(columns) :
       columns[x].name = Declared[x].name /\ columns[x].cumulative = Declared[x].cumulative

SamplersChosen ==
  /\ IsSeq(samplers)
  /\ \A s \in 1..Len(samplers) :
       /\ IsSeq(samplers[s].columns)
       /\ \A k \in DOMAIN samplers[s].columns : samplers[s].columns[k] \in 1..Len(columns)
       /\ samplers[s].names = [k \in DOMAIN samplers[s].columns |-> columns[samplers[s].columns[k]].name]
       /\ samplers[s].names = WantedNames(s)

\* What the cells of sampler s are of.
Of(s) == [k \in DOMAIN samplers[s].columns |-> Declared[samplers[s].columns[k]]]

\* StateAt and Baseline of a log l, and the value of column d of features in a state.
StateOf(l, k) == [events |-> Cardinality({j \in 1..k : l[j] # "clear"}),
                  resets |-> Cardinality({j \in 1..k : l[j] = "clear"})]
ValueOf(d, state) == Value(d.plugin, d.feature, d.column, state)
ClearedAfter(l, rows, n, upto) == \E j \in rows[n].at + 1..upto : l[j] = "clear"
BaselineOf(l, d, rows, n) ==
  IF n = 1 \/ ClearedAfter(l, rows, n - 1, rows[n].at) THEN Zero
  ELSE ValueOf(d, StateOf(l, rows[n - 1].at))

RowRight(l, of, rows, n) ==
  /\ rows[n].at \in 1..Len(l)
  /\ rows[n].cells = [k \in DOMAIN of |-> rows[n].cells[k]]
  /\ \A k \in DOMAIN of :
       /\ rows[n].cells[k].value = ValueOf(of[k], StateOf(l, rows[n].at))
       /\ rows[n].cells[k].since = IF of[k].cumulative THEN BaselineOf(l, of[k], rows, n) ELSE Zero

\* The baseline of the row that comes next: Zero before the first and after a Clear.
NextBaseline(l, d, rows) ==
  IF rows = <<>> \/ ClearedAfter(l, rows, Len(rows), Len(l)) THEN Zero
  ELSE ValueOf(d, StateOf(l, rows[Len(rows)].at))

SamplerRight(l, of, m) ==
  /\ m = [count |-> m.count, rows |-> m.rows, last |-> m.last]
  /\ IsSeq(m.rows) /\ \A n \in 1..Len(m.rows) : RowRight(l, of, m.rows, n)
  /\ m.last = [k \in DOMAIN of |-> m.last[k]]
  /\ \A k \in DOMAIN of : of[k].cumulative => m.last[k] = NextBaseline(l, of[k], m.rows)

EngineRight(e) ==
  /\ e = [instances |-> e.instances, offsets |-> e.offsets, values |-> e.values,
          fresh |-> e.fresh, samplers |-> e.samplers]
  /\ e.instances = [p \in DOMAIN plugins |-> [f \in DOMAIN Bundles[plugins[p].stem] |-> StateOf(log, Len(log))]]
  /\ e.offsets = Offsets
  /\ e.values = [x \in 1..Len(columns) |-> e.values[x]]
  /\ e.samplers = [s \in 1..Len(samplers) |-> e.samplers[s]]
  /\ \A s \in 1..Len(samplers) : SamplerRight(log, Of(s), e.samplers[s])

CatalogRight == FromBundles(plugins) /\ ColumnsDeclared /\ SamplersChosen
EngineInv ==
  /\ IsSeq(log)
  /\ engine = <<>> => log = <<>>
  /\ engine # <<>> => engine = <<engine[1]>> /\ EngineRight(engine[1])
RowInv == CatalogRight /\ EngineInv

-----------------------------------------------------------------------------
(* What the plugins declare.                                               *)

LEMMA BundleIs ==
  ASSUME NEW b \in DOMAIN Bundles
  PROVE  /\ IsSeqs(Bundles[b]) /\ IsSeq(Concat(b)) /\ Ncol(b) \in Nat
         /\ DOMAIN Bundles[b] = 1..Len(Bundles[b])
         /\ \A f \in 1..Len(Bundles[b]) : DOMAIN Bundles[b][f] = 1..Len(Bundles[b][f])
<1>1. PICK S : Bundles[b] \in Seq(Seq(S))
  BY BundlesAssumption
<1>2. IsSeq(Bundles[b])
  BY <1>1 DEF IsSeq
<1>3. Len(Bundles[b]) \in Nat /\ DOMAIN Bundles[b] = 1..Len(Bundles[b])
  BY <1>2, SeqShape
<1>4. ASSUME NEW f \in 1..Len(Bundles[b])
      PROVE  IsSeq(Bundles[b][f]) /\ DOMAIN Bundles[b][f] = 1..Len(Bundles[b][f])
  <2>1. Bundles[b][f] \in Seq(S)
    BY <1>1
  <2>2. IsSeq(Bundles[b][f])
    BY <2>1 DEF IsSeq
  <2> QED BY <2>2, SeqShape
<1>5. IsSeqs(Bundles[b])
  BY <1>2, <1>4 DEF IsSeqs
<1>6. IsSeq(Concat(b))
  BY <1>5, UptoIs DEF Concat
<1> QED BY <1>3, <1>4, <1>5, <1>6, SeqShape DEF Ncol

\* One plugin's columns, as Declared and as Concat list them.
LEMMA DeclaredOfIs ==
  ASSUME NEW q, q.stem \in DOMAIN Bundles, NEW p
  PROVE  /\ IsSeqs(DeclaredOf(q, p)) /\ Len(DeclaredOf(q, p)) = Len(Bundles[q.stem])
         /\ IsSeq(FlattenSeq(DeclaredOf(q, p))) /\ Len(FlattenSeq(DeclaredOf(q, p))) = Ncol(q.stem)
         /\ \A i \in 1..Ncol(q.stem) :
              /\ FlattenSeq(DeclaredOf(q, p))[i].name = q.name \o Dot \o Concat(q.stem)[i].name
              /\ FlattenSeq(DeclaredOf(q, p))[i].cumulative = Concat(q.stem)[i].cumulative
<1> DEFINE b == q.stem
<1>1. b \in DOMAIN Bundles
  OBVIOUS
<1>2. PICK B : B = Bundles[b]
  OBVIOUS
<1>3. /\ IsSeqs(B) /\ Len(B) \in Nat /\ DOMAIN B = 1..Len(B)
      /\ \A f \in 1..Len(B) : DOMAIN B[f] = 1..Len(B[f]) /\ Len(B[f]) \in Nat
  BY <1>1, <1>2, BundleIs, SeqShape DEF IsSeqs
<1>4. PICK D : D = DeclaredOf(q, p)
  OBVIOUS
<1>5. D = [f \in 1..Len(B) |-> [c \in 1..Len(B[f]) |->
             [name |-> q.name \o Dot \o B[f][c].name, cumulative |-> B[f][c].cumulative,
              plugin |-> p, feature |-> f, column |-> c]]]
  BY <1>2, <1>3, <1>4 DEF DeclaredOf
<1>6. IsSeq(D) /\ Len(D) = Len(B)
  BY <1>3, <1>5, SeqMade
<1>7. ASSUME NEW f \in 1..Len(B)
      PROVE  IsSeq(D[f]) /\ Len(D[f]) = Len(B[f])
  <2>1. Len(B[f]) \in Nat /\ DOMAIN D[f] = 1..Len(B[f]) /\ D[f] = [c \in 1..Len(B[f]) |-> D[f][c]]
    BY <1>3, <1>5
  <2> QED BY <2>1, SeqMade
<1>8. IsSeqs(D)
  BY <1>6, <1>7 DEF IsSeqs
<1>9. /\ IsSeq(FlattenSeq(D)) /\ Len(FlattenSeq(D)) = Len(FlattenSeq(B))
      /\ \A n \in 1..Len(FlattenSeq(D)) : Alike(D, B, n)
  <2>1. IsSeqs(D) /\ IsSeqs(B) /\ Len(D) = Len(B)
    BY <1>3, <1>6, <1>8
  <2>2. \A n \in 1..Len(D) : Len(D[n]) = Len(B[n])
    BY <1>6, <1>7
  <2>3. Parallel(D, B)
    BY <2>1, <2>2 DEF Parallel
  <2> QED BY <2>3, FlattenParallel
<1>10. Len(FlattenSeq(B)) = Ncol(b) /\ FlattenSeq(B) = Concat(b)
  BY <1>2 DEF Ncol, Concat
<1>11. ASSUME NEW n \in 1..Ncol(b)
       PROVE  /\ FlattenSeq(D)[n].name = q.name \o Dot \o Concat(b)[n].name
              /\ FlattenSeq(D)[n].cumulative = Concat(b)[n].cumulative
  <2>1. n \in 1..Len(FlattenSeq(D))
    BY <1>9, <1>10
  <2>2. PICK j \in 1..Len(D) : \E i \in 1..Len(D[j]) :
           FlattenSeq(D)[n] = D[j][i] /\ FlattenSeq(B)[n] = B[j][i]
    BY <1>9, <2>1 DEF Alike
  <2>3. PICK i \in 1..Len(D[j]) : FlattenSeq(D)[n] = D[j][i] /\ FlattenSeq(B)[n] = B[j][i]
    BY <2>2
  <2>4. j \in 1..Len(B) /\ i \in 1..Len(B[j])
    BY <1>6, <1>7
  <2>5. D[j][i].name = q.name \o Dot \o B[j][i].name /\ D[j][i].cumulative = B[j][i].cumulative
    BY <1>5, <2>4
  <2> QED BY <1>10, <2>3, <2>5
<1> QED BY <1>2, <1>4, <1>6, <1>8, <1>9, <1>10, <1>11

\* All of them.
LEMMA DeclaredIs ==
  ASSUME NEW pl, FromBundles(pl)
  PROVE  /\ IsSeqs(DeclaredBy(pl)) /\ Len(DeclaredBy(pl)) = Len(pl)
         /\ DeclaredBy(pl) = [p \in 1..Len(pl) |-> FlattenSeq(DeclaredOf(pl[p], p))]
         /\ IsSeq(FlattenSeq(DeclaredBy(pl))) /\ Len(FlattenSeq(DeclaredBy(pl))) \in Nat
<1>1. /\ IsSeq(pl) /\ Len(pl) \in Nat /\ DOMAIN pl = 1..Len(pl)
      /\ \A p \in 1..Len(pl) : pl[p].stem \in DOMAIN Bundles
  BY SeqShape DEF FromBundles
<1>2. DeclaredBy(pl) = [p \in 1..Len(pl) |-> FlattenSeq(DeclaredOf(pl[p], p))]
  BY <1>1 DEF DeclaredBy
<1>3. IsSeq(DeclaredBy(pl)) /\ Len(DeclaredBy(pl)) = Len(pl)
  <2>1. DOMAIN DeclaredBy(pl) = 1..Len(pl) /\ DeclaredBy(pl) = [p \in 1..Len(pl) |-> DeclaredBy(pl)[p]]
    BY <1>2
  <2> QED BY <1>1, <2>1, SeqMade
<1>4. IsSeqs(DeclaredBy(pl))
  <2>1. ASSUME NEW p \in 1..Len(pl) PROVE IsSeq(DeclaredBy(pl)[p])
    <3>1. DeclaredBy(pl)[p] = FlattenSeq(DeclaredOf(pl[p], p))
      BY <1>2
    <3>2. pl[p].stem \in DOMAIN Bundles
      BY <1>1
    <3> QED BY <3>1, <3>2, DeclaredOfIs
  <2> QED BY <1>3, <2>1 DEF IsSeqs
<1>5. IsSeq(FlattenSeq(DeclaredBy(pl)))
  BY <1>4, UptoIs
<1> QED BY <1>2, <1>3, <1>4, <1>5, SeqShape

LEMMA DeclaredNow == Declared = FlattenSeq(DeclaredBy(plugins))
BY DEF Declared, DeclaredBy, DeclaredOf
LEMMA CatalogInit == ASSUME Init PROVE CatalogRight
<1>1. plugins = <<>> /\ columns = <<>> /\ samplers = <<>>
  BY DEF Init
<1>2. FromBundles(plugins)
  BY <1>1, EmptySeqIs DEF FromBundles
<1>3. Len(DeclaredBy(plugins)) = 0 /\ IsSeqs(DeclaredBy(plugins))
  BY <1>1, <1>2, DeclaredIs, EmptySeqIs
<1>4. Declared = <<>>
  BY <1>3, DeclaredNow, UptoIs
<1> QED BY <1>1, <1>2, <1>4, EmptySeqIs DEF CatalogRight, ColumnsDeclared, SamplersChosen

\* LoadPlugin appends what the plugin declares, as ColumnInfos names it.
LEMMA LoadPluginKeepsCatalog ==
  ASSUME CatalogRight, NEW stem \in DOMAIN Bundles, NEW given, LoadPlugin(stem, given)
  PROVE  CatalogRight'
<1> DEFINE name == PluginName(stem, given)
           q == [name |-> name, stem |-> stem]
           P == Len(plugins)
           new == ColumnInfos(P + 1, stem, name)
<1>1. /\ samplers = <<>> /\ samplers' = samplers
      /\ columns' = columns \o new /\ plugins' = Append(plugins, q)
  BY DEF LoadPlugin
<1>2. /\ FromBundles(plugins) /\ IsSeq(plugins) /\ P \in Nat /\ P + 1 \in 1..P + 1
      /\ q.stem \in DOMAIN Bundles /\ IsSeq(columns) /\ Len(columns) \in Nat
  BY SeqShape DEF CatalogRight, FromBundles, ColumnsDeclared
<1>3. /\ IsSeq(plugins') /\ Len(plugins') = P + 1 /\ plugins'[P + 1] = q
      /\ \A p \in 1..P : plugins'[p] = plugins[p]
  BY <1>1, <1>2, AppendIs
<1>4. FromBundles(plugins')
  BY <1>2, <1>3 DEF FromBundles
<1> DEFINE added == FlattenSeq(DeclaredOf(q, P + 1))
           before == DeclaredBy(plugins)
<1>5. /\ IsSeqs(before) /\ IsSeq(before) /\ Len(before) = P
      /\ before = [p \in 1..P |-> FlattenSeq(DeclaredOf(plugins[p], p))]
      /\ IsSeq(FlattenSeq(before)) /\ Len(FlattenSeq(before)) \in Nat
  BY <1>2, DeclaredIs DEF IsSeqs
<1>6. /\ IsSeq(DeclaredBy(plugins')) /\ Len(DeclaredBy(plugins')) = P + 1
      /\ DeclaredBy(plugins') = [p \in 1..P + 1 |-> FlattenSeq(DeclaredOf(plugins'[p], p))]
  BY <1>3, <1>4, DeclaredIs DEF IsSeqs
<1>7. /\ IsSeq(added) /\ Len(added) = Ncol(stem)
      /\ \A i \in 1..Ncol(stem) : /\ added[i].name = name \o Dot \o Concat(stem)[i].name
                                  /\ added[i].cumulative = Concat(stem)[i].cumulative
  <2>1. q.stem = stem /\ q.name = name
    OBVIOUS
  <2> HIDE DEF q
  <2> QED BY <1>2, <2>1, DeclaredOfIs
<1> HIDE DEF q, added, before, P
<1>8. DeclaredBy(plugins') = Append(before, added)
  <2>1. IsSeq(Append(before, added)) /\ Len(Append(before, added)) = P + 1
    BY <1>5, AppendIs
  <2>2. ASSUME NEW p \in 1..P + 1 PROVE DeclaredBy(plugins')[p] = Append(before, added)[p]
    <3>1. CASE p = P + 1
      <4>1. DeclaredBy(plugins')[p] = FlattenSeq(DeclaredOf(q, P + 1))
        BY <1>2, <1>3, <1>6, <3>1
      <4>2. Append(before, added)[P + 1] = added
        BY <1>5, AppendIs
      <4> QED BY <3>1, <4>1, <4>2 DEF added
    <3>2. CASE p \in 1..P
      <4>1. DeclaredBy(plugins')[p] = FlattenSeq(DeclaredOf(plugins[p], p))
        BY <1>2, <1>3, <1>6, <3>2
      <4>2. IsSeq(before) /\ p \in 1..Len(before)
        BY <1>5, <3>2
      <4>3. Append(before, added)[p] = before[p]
        BY <4>2, AppendIs
      <4> QED BY <1>5, <3>2, <4>1, <4>3
    <3>3. p = P + 1 \/ p \in 1..P
      BY <1>2
    <3> QED BY <3>1, <3>2, <3>3
  <2> QED BY <1>6, <2>1, <2>2, SeqSame
<1>9. Declared' = Declared \o added
  <2>1. Declared' = FlattenSeq(DeclaredBy(plugins')) /\ Declared = FlattenSeq(before)
    BY DEF Declared, DeclaredBy, DeclaredOf, before
  <2>2. FlattenSeq(Append(before, added)) = IF before = <<>> THEN added ELSE FlattenSeq(before) \o added
    BY <1>5, <1>7, FlattenAppend
  <2>3. before = <<>> => FlattenSeq(before) \o added = added
    BY <1>7, FlattenEmpty, ConcatEmpty
  <2> QED BY <1>8, <2>1, <2>2, <2>3
<1>10. /\ IsSeq(Declared) /\ Len(Declared) = Len(columns)
       /\ \A x \in 1..Len(columns) :
            columns[x].name = Declared[x].name /\ columns[x].cumulative = Declared[x].cumulative
  <2>1. IsSeq(Declared)
    BY <1>5, DeclaredNow DEF before
  <2> QED BY <2>1 DEF CatalogRight, ColumnsDeclared
<1>11. /\ IsSeq(new) /\ Len(new) = Ncol(stem)
       /\ \A i \in 1..Ncol(stem) : /\ new[i].name = name \o Dot \o Concat(stem)[i].name
                                   /\ new[i].cumulative = Concat(stem)[i].cumulative
  <2>1. Ncol(stem) \in Nat
    BY BundleIs
  <2>2. /\ DOMAIN new = 1..Ncol(stem) /\ new = [i \in 1..Ncol(stem) |-> new[i]]
        /\ \A i \in 1..Ncol(stem) : /\ new[i].name = name \o Dot \o Concat(stem)[i].name
                                    /\ new[i].cumulative = Concat(stem)[i].cumulative
    BY DEF ColumnInfos
  <2> HIDE DEF new
  <2> QED BY <2>1, <2>2, SeqMade
<1> HIDE DEF new, name
<1>12. ColumnsDeclared'
  <2>1. IsSeq(columns') /\ Len(columns') = Len(columns) + Len(new)
    BY <1>1, <1>2, <1>11, ConcatIs
  <2>2. Len(Declared') = Len(Declared) + Len(added)
    BY <1>7, <1>9, <1>10, ConcatIs
  <2>3. ASSUME NEW x \in 1..Len(columns')
        PROVE  columns'[x].name = Declared'[x].name /\ columns'[x].cumulative = Declared'[x].cumulative
    <3>1. Ncol(stem) \in Nat
      BY BundleIs
    <3>2. CASE x \in 1..Len(columns)
      <4>1. columns'[x] = columns[x] /\ Declared'[x] = Declared[x]
        BY <1>1, <1>2, <1>7, <1>9, <1>10, <1>11, <3>2, ConcatIs
      <4> QED BY <1>10, <3>2, <4>1
    <3>3. CASE x > Len(columns)
      <4>1. PICK i \in 1..Ncol(stem) : x = Len(columns) + i
        <5>1. x - Len(columns) \in 1..Ncol(stem) /\ x = Len(columns) + (x - Len(columns))
          BY <1>2, <1>11, <2>1, <3>1, <3>3
        <5> QED BY <5>1
      <4>2. columns'[x] = new[i] /\ Declared'[x] = added[i]
        BY <1>1, <1>2, <1>7, <1>9, <1>10, <1>11, <4>1, ConcatIs
      <4> QED BY <1>7, <1>11, <4>2
    <3> QED BY <1>2, <3>2, <3>3
  <2> QED BY <1>7, <1>10, <1>11, <2>1, <2>2, <2>3 DEF ColumnsDeclared
<1>13. SamplersChosen'
  BY <1>1, EmptySeqIs DEF SamplersChosen
<1> QED BY <1>4, <1>12, <1>13 DEF CatalogRight
\* What FindColumn returns when it finds something.
LEMMA FindColumnIs ==
  ASSUME IsSeq(columns), NEW name, FindColumn(name) # 0
  PROVE  FindColumn(name) \in 1..Len(columns) /\ columns[FindColumn(name)].name = name
<1>1. Len(columns) \in Nat /\ DOMAIN columns = 1..Len(columns)
  BY SeqShape
<1>2. \E x \in 1..Len(columns) : columns[x].name = name
  BY <1>1 DEF FindColumn, SelectInSeq
<1> QED BY <1>1, <1>2 DEF FindColumn, SelectInSeq, Min

LEMMA AddSamplerKeepsCatalog ==
  ASSUME CatalogRight, NEW name, NEW names \in Selections, NEW every, AddSampler(name, names, every)
  PROVE  CatalogRight'
<1> DEFINE new == Template(name, names, every)
           cols == Chosen(names)
<1>1. /\ samplers' = Append(samplers, new) /\ plugins' = plugins /\ columns' = columns
      /\ \A n \in DOMAIN names : FindColumn(names[n]) # 0
  BY DEF AddSampler
<1>2. /\ IsSeq(columns) /\ Len(columns) \in Nat /\ DOMAIN columns = 1..Len(columns)
      /\ IsSeq(samplers) /\ Len(samplers) \in Nat
      /\ IsSeq(Declared) /\ DOMAIN Declared = 1..Len(Declared) /\ Len(Declared) = Len(columns)
      /\ \A x \in 1..Len(columns) : columns[x].name = Declared[x].name
  BY DeclaredIs, DeclaredNow, SeqShape DEF CatalogRight, ColumnsDeclared, SamplersChosen
<1>3. FromBundles(plugins') /\ ColumnsDeclared' /\ Declared' = Declared
  <2>1. Declared' = Declared
    BY <1>1 DEF Declared
  <2> QED BY <1>1, <2>1 DEF CatalogRight, ColumnsDeclared
<1>4. IsSeq(names) /\ Len(names) \in Nat /\ DOMAIN names = 1..Len(names)
      /\ names = [n \in 1..Len(names) |-> names[n]]
  <2>1. names \in Seq(Seq(STRING))
    BY SamplersAssumption
  <2>2. IsSeq(names)
    BY <2>1 DEF IsSeq
  <2> QED BY <2>2, SeqShape
<1>5. new.columns = cols /\ new.wanted = names /\ new.names = [k \in DOMAIN cols |-> columns[cols[k]].name]
  BY DEF Template
<1> HIDE DEF new
<1>6. /\ IsSeq(new.columns)
      /\ \A k \in DOMAIN new.columns : new.columns[k] \in 1..Len(columns)
      /\ new.names = [k \in DOMAIN new.columns |-> columns[new.columns[k]].name]
      /\ new.names = IF new.wanted = <<>> THEN [d \in DOMAIN Declared |-> Declared[d].name] ELSE new.wanted
  <2>1. CASE names = <<>>
    <3>1. cols = [i \in 1..Len(columns) |-> i]
      BY <1>2, <2>1 DEF Chosen
    <3> HIDE DEF cols
    <3>2. IsSeq(cols)
      <4>1. DOMAIN cols = 1..Len(columns) /\ cols = [i \in 1..Len(columns) |-> cols[i]]
        BY <3>1
      <4> QED BY <1>2, <4>1, SeqMade
    <3>3. [k \in DOMAIN cols |-> columns[cols[k]].name] = [d \in DOMAIN Declared |-> Declared[d].name]
      BY <1>2, <3>1
    <3> QED BY <1>5, <2>1, <3>1, <3>2, <3>3
  <2>2. CASE names # <<>>
    <3>1. cols = [n \in 1..Len(names) |-> FindColumn(names[n])]
      BY <1>4, <2>2 DEF Chosen
    <3> HIDE DEF cols
    <3>2. IsSeq(cols)
      <4>1. DOMAIN cols = 1..Len(names) /\ cols = [i \in 1..Len(names) |-> cols[i]]
        BY <3>1
      <4> QED BY <1>4, <4>1, SeqMade
    <3>3. ASSUME NEW n \in 1..Len(names)
          PROVE  cols[n] \in 1..Len(columns) /\ columns[cols[n]].name = names[n]
      <4>1. FindColumn(names[n]) # 0
        BY <1>1, <1>4
      <4> QED BY <1>2, <3>1, <4>1, FindColumnIs
    <3>4. [k \in DOMAIN cols |-> columns[cols[k]].name] = names
      BY <1>4, <3>1, <3>3
    <3> QED BY <1>5, <2>2, <3>1, <3>2, <3>3, <3>4
  <2> QED BY <2>1, <2>2
<1>7. ASSUME NEW s \in 1..Len(samplers')
      PROVE  /\ IsSeq(samplers'[s].columns)
             /\ \A k \in DOMAIN samplers'[s].columns : samplers'[s].columns[k] \in 1..Len(columns)
             /\ samplers'[s].names
                  = [k \in DOMAIN samplers'[s].columns |-> columns[samplers'[s].columns[k]].name]
             /\ samplers'[s].names = IF samplers'[s].wanted = <<>>
                                      THEN [d \in DOMAIN Declared |-> Declared[d].name]
                                      ELSE samplers'[s].wanted
  <2>1. /\ Len(samplers') = Len(samplers) + 1 /\ samplers'[Len(samplers) + 1] = new
        /\ \A n \in 1..Len(samplers) : samplers'[n] = samplers[n]
    BY <1>1, <1>2, AppendIs
  <2>2. s \in 1..Len(samplers) \/ s = Len(samplers) + 1
    BY <1>2, <2>1
  <2>3. CASE s \in 1..Len(samplers)
    BY <2>1, <2>3 DEF CatalogRight, SamplersChosen, WantedNames
  <2>4. CASE s = Len(samplers) + 1
    BY <1>6, <2>1, <2>4
  <2> QED BY <2>2, <2>3, <2>4
<1>8. SamplersChosen'
  <2>1. IsSeq(samplers')
    BY <1>1, <1>2, AppendIs
  <2> QED BY <1>1, <1>3, <1>7, <2>1 DEF SamplersChosen, WantedNames
<1> QED BY <1>3, <1>8 DEF CatalogRight

LEMMA NextKeepsCatalog == CatalogRight /\ [Next]_vars => CatalogRight'
<1> SUFFICES ASSUME CatalogRight, [Next]_vars PROVE CatalogRight'
  OBVIOUS
<1>1. ASSUME NEW stem \in DOMAIN Bundles, NEW name \in Names, LoadPlugin(stem, name) PROVE CatalogRight'
  BY <1>1, LoadPluginKeepsCatalog
<1>2. ASSUME NEW name \in SamplerNames, NEW names \in Selections, NEW every \in Periods,
             AddSampler(name, names, every)
      PROVE  CatalogRight'
  BY <1>2, AddSamplerKeepsCatalog
<1>3. CASE UNCHANGED catalog
  <2>1. Declared' = Declared
    BY <1>3 DEF Declared, catalog
  <2> QED BY <1>3, <2>1 DEF CatalogRight, ColumnsDeclared, SamplersChosen, WantedNames, catalog
<1>4. NewEngine => UNCHANGED catalog
  BY DEF NewEngine
<1>5. ASSUME NEW action, OnEvent(action) PROVE UNCHANGED catalog
  BY <1>5, Zenon DEF OnEvent
<1> QED BY <1>1, <1>2, <1>3, <1>4, <1>5 DEF Next, vars
-----------------------------------------------------------------------------
(* What Read and ReadAll leave in the values.                              *)

LEMMA WrittenNone ==
  ASSUME NEW out, out = [n \in DOMAIN out |-> out[n]], NEW off \in Nat
  PROVE  Written(out, off, <<>>) = out
<1>1. off + 1..off + Len(<<>>) = {}
  BY EmptySeqIs
<1> QED BY <1>1 DEF Written

LEMMA WrittenTwice ==
  ASSUME NEW N \in Nat, NEW out, DOMAIN out = 1..N, NEW off \in Nat, NEW a, NEW b, IsSeq(a), IsSeq(b)
  PROVE  Written(Written(out, off, a), off + Len(a), b) = Written(out, off, a \o b)
<1> DEFINE w == Written(Written(out, off, a), off + Len(a), b)
           v == Written(out, off, a \o b)
<1>1. Len(a) \in Nat /\ Len(b) \in Nat /\ Len(a \o b) = Len(a) + Len(b)
  BY SeqShape, ConcatIs
<1>2. DOMAIN w = 1..N /\ DOMAIN v = 1..N
  BY DEF Written
<1>3. ASSUME NEW n \in 1..N PROVE w[n] = v[n]
  <2>1. /\ w[n] = IF n \in off + Len(a) + 1..off + Len(a) + Len(b) THEN b[n - (off + Len(a))]
                  ELSE IF n \in off + 1..off + Len(a) THEN a[n - off] ELSE out[n]
        /\ v[n] = IF n \in off + 1..off + (Len(a) + Len(b)) THEN (a \o b)[n - off] ELSE out[n]
    BY <1>1 DEF Written
  <2>2. CASE n \in off + 1..off + Len(a)
    <3>1. /\ n - off \in 1..Len(a) /\ n \in off + 1..off + (Len(a) + Len(b))
          /\ n \notin off + Len(a) + 1..off + Len(a) + Len(b)
      BY <1>1, <2>2
    <3>2. (a \o b)[n - off] = a[n - off]
      BY <3>1, ConcatIs
    <3> QED BY <2>1, <2>2, <3>1, <3>2
  <2>3. CASE n \in off + Len(a) + 1..off + Len(a) + Len(b)
    <3>1. PICK i \in 1..Len(b) : n = off + Len(a) + i
      <4>1. n - (off + Len(a)) \in 1..Len(b) /\ n = off + Len(a) + (n - (off + Len(a)))
        BY <1>1, <2>3
      <4> QED BY <4>1
    <3>2. n - (off + Len(a)) = i /\ n - off = Len(a) + i /\ n \in off + 1..off + (Len(a) + Len(b))
      BY <1>1, <3>1
    <3>3. (a \o b)[Len(a) + i] = b[i]
      BY ConcatIs
    <3> QED BY <2>1, <2>3, <3>2, <3>3
  <2>4. CASE n \notin off + 1..off + Len(a) /\ n \notin off + Len(a) + 1..off + Len(a) + Len(b)
    <3>1. n \notin off + 1..off + (Len(a) + Len(b))
      BY <1>1, <2>4
    <3> QED BY <2>1, <2>4, <3>1
  <2> QED BY <2>2, <2>3, <2>4
<1>4. w = [n \in 1..N |-> w[n]] /\ v = [n \in 1..N |-> v[n]]
  BY <1>2 DEF Written
<1> HIDE DEF w, v
<1>5. w = v
  BY <1>3, <1>4
<1> QED BY <1>5 DEF w, v

\* What the features of plugin p write, in their order.
PluginCells(p, inst) == [f \in DOMAIN Bundles[plugins[p].stem] |-> FeatureCells(p, f, inst)]

LEMMA PluginCellsAre ==
  ASSUME FromBundles(plugins), NEW p \in 1..Len(plugins), NEW inst
  PROVE  /\ IsSeqs(PluginCells(p, inst)) /\ Len(PluginCells(p, inst)) = Len(Bundles[plugins[p].stem])
         /\ \A f \in 1..Len(Bundles[plugins[p].stem]) :
              /\ PluginCells(p, inst)[f] = FeatureCells(p, f, inst)
              /\ Len(PluginCells(p, inst)[f]) = Len(Bundles[plugins[p].stem][f])
         /\ IsSeq(FlattenSeq(PluginCells(p, inst)))
         /\ Len(FlattenSeq(PluginCells(p, inst))) = Ncol(plugins[p].stem)
<1> DEFINE C == PluginCells(p, inst)
<1>1. PICK B : B = Bundles[plugins[p].stem]
  OBVIOUS
<1>2. /\ IsSeqs(B) /\ Len(B) \in Nat /\ DOMAIN B = 1..Len(B)
      /\ \A f \in 1..Len(B) : DOMAIN B[f] = 1..Len(B[f]) /\ Len(B[f]) \in Nat
  <2>1. plugins[p].stem \in DOMAIN Bundles
    BY DEF FromBundles
  <2> QED BY <1>1, <2>1, BundleIs, SeqShape DEF IsSeqs
<1>3. /\ DOMAIN C = 1..Len(B) /\ C = [f \in 1..Len(B) |-> C[f]]
      /\ \A f \in 1..Len(B) : C[f] = FeatureCells(p, f, inst)
  BY <1>1, <1>2 DEF PluginCells
<1>4. ASSUME NEW f \in 1..Len(B)
      PROVE  IsSeq(FeatureCells(p, f, inst)) /\ Len(FeatureCells(p, f, inst)) = Len(B[f])
  <2> DEFINE c == FeatureCells(p, f, inst)
  <2>1. DOMAIN c = 1..Len(B[f]) /\ c = [i \in 1..Len(B[f]) |-> c[i]] /\ Len(B[f]) \in Nat
    BY <1>1, <1>2 DEF FeatureCells
  <2> HIDE DEF c
  <2>2. IsSeq(c) /\ Len(c) = Len(B[f])
    BY <2>1, SeqMade
  <2> QED BY <2>2 DEF c
<1> HIDE DEF C
<1>5. IsSeq(C) /\ Len(C) = Len(B)
  BY <1>2, <1>3, SeqMade
<1>6. ASSUME NEW f \in 1..Len(B) PROVE IsSeq(C[f]) /\ Len(C[f]) = Len(B[f])
  BY <1>3, <1>4
<1>7. Parallel(C, B)
  BY <1>2, <1>5, <1>6 DEF Parallel, IsSeqs
<1>8. IsSeq(FlattenSeq(C)) /\ Len(FlattenSeq(C)) = Len(FlattenSeq(B)) /\ IsSeqs(C)
  BY <1>7, FlattenParallel DEF Parallel
<1>9. Len(FlattenSeq(B)) = Ncol(plugins[p].stem)
  BY <1>1 DEF Ncol, Concat
<1> QED BY <1>1, <1>3, <1>5, <1>6, <1>8, <1>9 DEF C

\* The recursive function in Read.
Reads(p, inst, out, from, F, g) ==
  g = [f \in 0..F |-> IF f = 0 THEN [out |-> out, off |-> from]
                      ELSE [out |-> Written(g[f - 1].out, g[f - 1].off, FeatureCells(p, f, inst)),
                            off |-> g[f - 1].off + Len(Bundles[plugins[p].stem][f])]]

LEMMA ReadIs ==
  ASSUME FromBundles(plugins), NEW p \in 1..Len(plugins),
         NEW inst, Len(inst) = Len(Bundles[plugins[p].stem]),
         NEW N \in Nat, NEW out, DOMAIN out = 1..N, out = [n \in DOMAIN out |-> out[n]], NEW from \in Nat
  PROVE  Read(p, inst, out, from) = Written(out, from, FlattenSeq(PluginCells(p, inst)))
<1>1. PICK C : C = PluginCells(p, inst)
  OBVIOUS
<1>2. PICK B : B = Bundles[plugins[p].stem]
  OBVIOUS
<1>3. PICK F : F = Len(B)
  OBVIOUS
<1>4. /\ IsSeqs(C) /\ Len(C) = F /\ F \in Nat /\ Len(inst) = F
      /\ \A f \in 1..F : C[f] = FeatureCells(p, f, inst) /\ Len(C[f]) = Len(B[f]) /\ IsSeq(C[f])
  BY <1>1, <1>2, <1>3, PluginCellsAre, SeqShape DEF IsSeqs
<1> DEFINE h == [f \in 0..F |-> [out |-> Written(out, from, Upto(C, f)), off |-> from + Len(Upto(C, f))]]
<1>5. /\ h[0] = [out |-> out, off |-> from]
      /\ \A f \in 1..F :
           h[f] = [out |-> Written(h[f - 1].out, h[f - 1].off, FeatureCells(p, f, inst)),
                   off |-> h[f - 1].off + Len(B[f])]
  <2>1. h[0] = [out |-> out, off |-> from]
    <3>0. Upto(C, 0) = <<>>
      BY <1>4, UptoIs
    <3>1. Upto(C, 0) = <<>> /\ 0 \in 0..F /\ from + 0 = from
      BY <1>4, <3>0
    <3>2. Written(out, from, <<>>) = out
      BY WrittenNone
    <3> QED BY <3>1, <3>2, EmptySeqIs
  <2>2. ASSUME NEW f \in 1..F
        PROVE  h[f] = [out |-> Written(h[f - 1].out, h[f - 1].off, FeatureCells(p, f, inst)),
                       off |-> h[f - 1].off + Len(B[f])]
    <3>1. f - 1 \in 0..F /\ f \in 0..F
      BY <1>4
    <3>2. PICK u : u = Upto(C, f - 1)
      OBVIOUS
    <3>3. Upto(C, f) = u \o C[f] /\ IsSeq(u) /\ Len(u) \in Nat /\ Len(Upto(C, f)) = Len(u) + Len(C[f])
      BY <1>4, <3>1, <3>2, UptoIs
    <3>4. Written(Written(out, from, u), from + Len(u), C[f]) = Written(out, from, u \o C[f])
      BY <1>4, <3>3, WrittenTwice
    <3>5. from + (Len(u) + Len(C[f])) = (from + Len(u)) + Len(C[f])
      <4>1. Len(C[f]) \in Nat
        BY <1>4, SeqShape
      <4> QED BY <3>3, <4>1
    <3>6. /\ h[f] = [out |-> Written(out, from, u \o C[f]), off |-> from + (Len(u) + Len(C[f]))]
          /\ h[f - 1].out = Written(out, from, u) /\ h[f - 1].off = from + Len(u)
      BY <3>1, <3>2, <3>3
    <3> HIDE DEF h
    <3> QED BY <1>4, <3>4, <3>5, <3>6
  <2> QED BY <2>1, <2>2
<1>6. Reads(p, inst, out, from, F, h)
  <2>1. h = [f \in 0..F |-> h[f]]
    OBVIOUS
  <2> HIDE DEF h
  <2>2. ASSUME NEW f \in 0..F
        PROVE  h[f] = IF f = 0 THEN [out |-> out, off |-> from]
                      ELSE [out |-> Written(h[f - 1].out, h[f - 1].off, FeatureCells(p, f, inst)),
                            off |-> h[f - 1].off + Len(Bundles[plugins[p].stem][f])]
    <3>1. f # 0 => f \in 1..F
      BY <1>4
    <3> QED BY <1>2, <1>5, <3>1
  <2> QED BY <2>1, <2>2 DEF Reads
<1> DEFINE g == CHOOSE g : Reads(p, inst, out, from, F, g)
<1>7. Reads(p, inst, out, from, F, g)
  BY <1>6
<1>8. Read(p, inst, out, from) = g[F].out
  BY <1>4 DEF Read, Reads
<1> HIDE DEF h, g
<1> DEFINE T == {m \in Nat : m <= F => g[m] = h[m]}
<1>9. 0 \in T
  BY <1>4, <1>5, <1>7 DEF Reads
<1>10. ASSUME NEW m \in T PROVE m + 1 \in T
  <2> SUFFICES ASSUME m + 1 <= F PROVE g[m + 1] = h[m + 1]
    OBVIOUS
  <2>1. m + 1 \in 1..F /\ m + 1 \in 0..F /\ (m + 1) - 1 = m /\ m + 1 # 0 /\ m <= F
    BY <1>4
  <2>4. g[m] = h[m]
    BY <2>1
  <2>2. g[m + 1] = [out |-> Written(g[m].out, g[m].off, FeatureCells(p, m + 1, inst)),
                    off |-> g[m].off + Len(B[m + 1])]
    BY <1>2, <1>7, <2>1 DEF Reads
  <2>3. h[m + 1] = [out |-> Written(h[m].out, h[m].off, FeatureCells(p, m + 1, inst)),
                    off |-> h[m].off + Len(B[m + 1])]
    BY <1>5, <2>1
  <2> QED BY <2>4, <2>2, <2>3
<1>11. T = Nat
  BY <1>9, <1>10, Induct
<1>12. g[F] = h[F]
  BY <1>4, <1>11
<1>13. h[F].out = Written(out, from, FlattenSeq(C))
  <2>1. Upto(C, F) = FlattenSeq(C)
    BY <1>4, UptoIs
  <2>2. F \in 0..F
    BY <1>4
  <2> QED BY <2>1, <2>2 DEF h
<1> QED BY <1>1, <1>8, <1>12, <1>13
\* The recursive function in Offsets.
Sizes(P, g) == g = [p \in 0..P |-> IF p = 0 THEN 0 ELSE g[p - 1] + Ncol(plugins[p].stem)]

LEMMA OffsetsAre ==
  ASSUME FromBundles(plugins)
  PROVE  Offsets = [p \in 1..Len(plugins) |-> Len(Upto(DeclaredBy(plugins), p - 1))]
<1>1. PICK D : D = DeclaredBy(plugins)
  OBVIOUS
<1>2. PICK P : P = Len(plugins)
  OBVIOUS
<1>3. /\ P \in Nat /\ IsSeqs(D) /\ Len(D) = P /\ DOMAIN plugins = 1..P
      /\ \A p \in 1..P : Len(D[p]) = Ncol(plugins[p].stem)
  <2>1. P \in Nat /\ IsSeqs(D) /\ Len(D) = P /\ DOMAIN plugins = 1..P
    BY <1>1, <1>2, DeclaredIs, SeqShape DEF FromBundles
  <2>2. ASSUME NEW p \in 1..P PROVE Len(D[p]) = Ncol(plugins[p].stem)
    <3>1. D[p] = FlattenSeq(DeclaredOf(plugins[p], p)) /\ plugins[p].stem \in DOMAIN Bundles
      BY <1>1, <1>2, DeclaredIs DEF FromBundles
    <3>2. PICK q : q = plugins[p]
      OBVIOUS
    <3>3. q.stem \in DOMAIN Bundles
      BY <3>1, <3>2
    <3>4. Len(FlattenSeq(DeclaredOf(q, p))) = Ncol(q.stem)
      BY <3>3, DeclaredOfIs
    <3> QED BY <3>1, <3>2, <3>4
  <2> QED BY <2>1, <2>2
<1> DEFINE h == [p \in 0..P |-> Len(Upto(D, p))]
<1>4. h[0] = 0 /\ \A p \in 1..P : h[p] = h[p - 1] + Ncol(plugins[p].stem)
  <2>1. Upto(D, 0) = <<>>
    BY <1>3, UptoIs
  <2>2. ASSUME NEW p \in 1..P PROVE h[p] = h[p - 1] + Ncol(plugins[p].stem)
    <3>1. p - 1 \in 0..P /\ p \in 0..P
      BY <1>3
    <3>2. Len(Upto(D, p)) = Len(Upto(D, p - 1)) + Len(D[p])
      BY <1>3, UptoIs
    <3>3. h[p] = Len(Upto(D, p)) /\ h[p - 1] = Len(Upto(D, p - 1))
      BY <3>1
    <3> QED BY <1>3, <3>2, <3>3
  <2>3. h[0] = 0
    BY <1>3, <2>1, EmptySeqIs
  <2> HIDE DEF h
  <2> QED BY <2>2, <2>3
<1>5. h = [p \in 0..P |-> h[p]]
  OBVIOUS
<1> HIDE DEF h
<1>6. Sizes(P, h)
  <2>1. ASSUME NEW p \in 0..P PROVE h[p] = IF p = 0 THEN 0 ELSE h[p - 1] + Ncol(plugins[p].stem)
    <3>1. p # 0 => p \in 1..P
      BY <1>3
    <3> QED BY <1>4, <3>1
  <2> QED BY <1>5, <2>1 DEF Sizes
<1> DEFINE g == CHOOSE g : Sizes(P, g)
<1>7. Sizes(P, g)
  BY <1>6
<1>8. Offsets = [p \in DOMAIN plugins |-> g[p - 1]]
  BY <1>2 DEF Offsets, Sizes
<1> HIDE DEF g
<1> DEFINE T == {m \in Nat : m <= P => g[m] = h[m]}
<1>9. 0 \in T
  BY <1>3, <1>4, <1>7 DEF Sizes
<1>10. ASSUME NEW m \in T PROVE m + 1 \in T
  <2> SUFFICES ASSUME m + 1 <= P PROVE g[m + 1] = h[m + 1]
    OBVIOUS
  <2>1. m + 1 \in 1..P /\ m + 1 \in 0..P /\ (m + 1) - 1 = m /\ m + 1 # 0 /\ m <= P
    BY <1>3
  <2>2. g[m] = h[m]
    BY <2>1
  <2>3. g[m + 1] = g[m] + Ncol(plugins[m + 1].stem)
    BY <1>7, <2>1 DEF Sizes
  <2>4. h[m + 1] = h[m] + Ncol(plugins[m + 1].stem)
    BY <1>4, <2>1
  <2> QED BY <2>2, <2>3, <2>4
<1>11. T = Nat
  BY <1>9, <1>10, Induct
<1>12. ASSUME NEW p \in 1..P PROVE g[p - 1] = Len(Upto(D, p - 1))
  <2>1. p - 1 \in Nat /\ p - 1 <= P /\ p - 1 \in 0..P
    BY <1>3
  <2>2. g[p - 1] = h[p - 1]
    BY <1>11, <2>1
  <2> QED BY <2>1, <2>2 DEF h
<1> QED BY <1>1, <1>2, <1>3, <1>8, <1>12

\* What all plugins write, in their order.
AllCells(instances) == [p \in 1..Len(plugins) |-> FlattenSeq(PluginCells(p, instances[p]))]

LEMMA AllCellsAre ==
  ASSUME FromBundles(plugins), NEW instances
  PROVE  /\ IsSeqs(AllCells(instances)) /\ Len(AllCells(instances)) = Len(plugins)
         /\ Parallel(AllCells(instances), DeclaredBy(plugins))
<1> DEFINE A == AllCells(instances)
           D == DeclaredBy(plugins)
<1>1. /\ Len(plugins) \in Nat /\ IsSeqs(D) /\ Len(D) = Len(plugins)
      /\ D = [p \in 1..Len(plugins) |-> FlattenSeq(DeclaredOf(plugins[p], p))]
  BY DeclaredIs, SeqShape DEF FromBundles
<1>2. /\ A = [p \in 1..Len(plugins) |-> FlattenSeq(PluginCells(p, instances[p]))]
      /\ DOMAIN A = 1..Len(plugins) /\ A = [p \in 1..Len(plugins) |-> A[p]]
  BY DEF AllCells
<1> HIDE DEF A, D
<1>3. IsSeq(A) /\ Len(A) = Len(plugins)
  BY <1>1, <1>2, SeqMade
<1>4. ASSUME NEW p \in 1..Len(plugins) PROVE IsSeq(A[p]) /\ Len(A[p]) = Len(D[p])
  <2>1. plugins[p].stem \in DOMAIN Bundles
    BY DEF FromBundles
  <2>2. Len(D[p]) = Ncol(plugins[p].stem)
    BY <1>1, <2>1, DeclaredOfIs
  <2>3. A[p] = FlattenSeq(PluginCells(p, instances[p]))
    BY <1>2
  <2> QED BY <2>2, <2>3, PluginCellsAre
<1>5. IsSeqs(A)
  BY <1>3, <1>4 DEF IsSeqs
<1>6. Parallel(A, D)
  BY <1>1, <1>3, <1>4, <1>5 DEF Parallel
<1> QED BY <1>3, <1>5, <1>6 DEF A, D

\* At the place of a declared column lies the value of that column.
LEMMA AllCellsRight ==
  ASSUME FromBundles(plugins), NEW state, NEW instances,
         \A p \in 1..Len(plugins) : instances[p] = [f \in DOMAIN Bundles[plugins[p].stem] |-> state],
         NEW n \in 1..Len(Declared)
  PROVE  FlattenSeq(AllCells(instances))[n]
           = Value(Declared[n].plugin, Declared[n].feature, Declared[n].column, state)
<1>1. PICK A : A = AllCells(instances)
  OBVIOUS
<1>2. PICK D : D = DeclaredBy(plugins)
  OBVIOUS
<1>3. Parallel(A, D) /\ IsSeqs(A) /\ Len(A) = Len(plugins) /\ Declared = FlattenSeq(D)
  BY <1>1, <1>2, AllCellsAre, DeclaredNow
<1>4. Alike(A, D, n)
  <2>1. n \in 1..Len(FlattenSeq(A))
    BY <1>3, FlattenParallel
  <2> QED BY <1>3, <2>1, FlattenParallel
<1>5. PICK p \in 1..Len(A) : \E i \in 1..Len(A[p]) : FlattenSeq(A)[n] = A[p][i] /\ FlattenSeq(D)[n] = D[p][i]
  BY <1>4 DEF Alike
<1>6. PICK i \in 1..Len(A[p]) : FlattenSeq(A)[n] = A[p][i] /\ FlattenSeq(D)[n] = D[p][i]
  BY <1>5
<1> DEFINE b == plugins[p].stem
           inst == instances[p]
<1>7. PICK C : C = PluginCells(p, inst)
  OBVIOUS
<1>8. PICK E : E = DeclaredOf(plugins[p], p)
  OBVIOUS
<1>9. /\ p \in 1..Len(plugins) /\ b \in DOMAIN Bundles
      /\ A[p] = FlattenSeq(C) /\ D[p] = FlattenSeq(E)
  BY <1>1, <1>2, <1>3, <1>7, <1>8, DeclaredIs DEF AllCells, FromBundles
<1>10. /\ IsSeqs(Bundles[b]) /\ DOMAIN Bundles[b] = 1..Len(Bundles[b])
       /\ \A f \in 1..Len(Bundles[b]) : DOMAIN Bundles[b][f] = 1..Len(Bundles[b][f])
  BY <1>9, BundleIs
<1>11. /\ IsSeqs(C) /\ Len(C) = Len(Bundles[b])
       /\ \A f \in 1..Len(Bundles[b]) : C[f] = FeatureCells(p, f, inst) /\ Len(C[f]) = Len(Bundles[b][f])
  BY <1>7, <1>9, PluginCellsAre
<1>12. IsSeqs(E) /\ Len(E) = Len(Bundles[b])
  BY <1>8, <1>9, DeclaredOfIs
<1>13. \A f \in 1..Len(Bundles[b]) :
         E[f] = [c \in 1..Len(Bundles[b][f]) |->
                   [name |-> plugins[p].name \o Dot \o Bundles[b][f][c].name,
                    cumulative |-> Bundles[b][f][c].cumulative,
                    plugin |-> p, feature |-> f, column |-> c]]
  BY <1>8, <1>10, Zenon DEF DeclaredOf
<1>14. ASSUME NEW f \in 1..Len(C) PROVE Len(E[f]) = Len(C[f])
  <2>1. f \in 1..Len(Bundles[b]) /\ IsSeq(E[f])
    BY <1>11, <1>12 DEF IsSeqs
  <2>2. DOMAIN E[f] = 1..Len(Bundles[b][f]) /\ DOMAIN E[f] = 1..Len(E[f]) /\ Len(E[f]) \in Nat
    BY <1>13, <2>1, SeqShape
  <2>3. IsSeq(Bundles[b][f]) /\ Len(Bundles[b][f]) \in Nat
    BY <1>10, <2>1, SeqShape DEF IsSeqs
  <2>4. Len(E[f]) = Len(Bundles[b][f])
    BY <2>2, <2>3
  <2> QED BY <1>11, <2>1, <2>4
<1>15. Parallel(C, E)
  BY <1>11, <1>12, <1>14 DEF Parallel
<1>16. Alike(C, E, i)
  <2>1. i \in 1..Len(FlattenSeq(C))
    BY <1>9
  <2> QED BY <1>15, <2>1, FlattenParallel
<1>17. PICK f \in 1..Len(C) : \E c \in 1..Len(C[f]) : FlattenSeq(C)[i] = C[f][c] /\ FlattenSeq(E)[i] = E[f][c]
  BY <1>16 DEF Alike
<1>18. PICK c \in 1..Len(C[f]) : FlattenSeq(C)[i] = C[f][c] /\ FlattenSeq(E)[i] = E[f][c]
  BY <1>17
<1>19. f \in 1..Len(Bundles[b]) /\ c \in 1..Len(Bundles[b][f])
  BY <1>11
<1>20. E[f][c].plugin = p /\ E[f][c].feature = f /\ E[f][c].column = c
  <2>1. E[f][c] = [name |-> plugins[p].name \o Dot \o Bundles[b][f][c].name,
                   cumulative |-> Bundles[b][f][c].cumulative, plugin |-> p, feature |-> f, column |-> c]
    <3>1. E[f] = [x \in 1..Len(Bundles[b][f]) |->
                    [name |-> plugins[p].name \o Dot \o Bundles[b][f][x].name,
                     cumulative |-> Bundles[b][f][x].cumulative, plugin |-> p, feature |-> f, column |-> x]]
      BY <1>13, <1>19, Zenon
    <3> QED BY <1>19, <3>1, Zenon
  <2> QED BY <2>1
<1>21. C[f][c] = Value(p, f, c, state)
  <2>1. inst[f] = state
    BY <1>9, <1>10, <1>19
  <2>2. C[f] = [x \in DOMAIN Bundles[b][f] |-> Value(p, f, x, inst[f])]
    BY <1>11, <1>19 DEF FeatureCells
  <2> QED BY <1>10, <1>19, <2>1, <2>2
<1>22. Declared[n] = E[f][c] /\ FlattenSeq(A)[n] = C[f][c]
  BY <1>3, <1>6, <1>9, <1>18
<1> QED BY <1>1, <1>20, <1>21, <1>22
\* The values of all declared columns of features in a state.
ValuesIn(state) == [n \in 1..Len(Declared) |-> ValueOf(Declared[n], state)]

\* The recursive function in ReadAll.
AllRead(e, P, g) ==
  g = [p \in 0..P |-> IF p = 0 THEN e.values ELSE Read(p, e.instances[p], g[p - 1], e.offsets[p])]

LEMMA ReadAllIs ==
  ASSUME FromBundles(plugins), NEW state, NEW e, e.fresh = FALSE, e.offsets = Offsets,
         \A p \in 1..Len(plugins) : e.instances[p] = [f \in DOMAIN Bundles[plugins[p].stem] |-> state],
         e.values = [n \in 1..Len(Declared) |-> e.values[n]]
  PROVE  ReadAll(e) = [e EXCEPT !.fresh = TRUE, !.values = ValuesIn(state)]
<1>1. PICK A : A = AllCells(e.instances)
  OBVIOUS
<1>2. PICK D : D = DeclaredBy(plugins)
  OBVIOUS
<1>3. PICK P : P = Len(plugins)
  OBVIOUS
<1>4. PICK N : N = Len(Declared)
  OBVIOUS
<1>5. PICK v : v = e.values
  OBVIOUS
<1>6. /\ P \in Nat /\ IsSeqs(A) /\ Len(A) = P /\ IsSeqs(D) /\ Len(D) = P
      /\ Parallel(A, D) /\ Declared = FlattenSeq(D) /\ N \in Nat
      /\ DOMAIN v = 1..N /\ v = [n \in DOMAIN v |-> v[n]]
  BY <1>1, <1>2, <1>3, <1>4, <1>5, AllCellsAre, DeclaredIs, DeclaredNow, SeqShape DEF FromBundles
<1>7. ASSUME NEW p \in 1..P
      PROVE  e.offsets[p] = Len(Upto(A, p - 1)) /\ e.offsets[p] \in Nat
  <2>1. p - 1 \in 0..P
    BY <1>6
  <2>2. e.offsets[p] = Len(Upto(D, p - 1))
    BY <1>2, <1>3, OffsetsAre
  <2>3. p - 1 \in 0..Len(A)
    BY <1>6, <2>1
  <2>4. Len(Upto(A, p - 1)) = Len(Upto(D, p - 1))
    BY <1>6, <2>3, UptoParallel
  <2>5. Len(Upto(A, p - 1)) \in Nat
    BY <1>6, <2>3, UptoIs
  <2> QED BY <2>2, <2>4, <2>5
<1> DEFINE h == [p \in 0..P |-> Written(v, 0, Upto(A, p))]
<1>8. /\ h[0] = v
      /\ \A p \in 1..P : h[p] = Read(p, e.instances[p], h[p - 1], e.offsets[p])
  <2>1. h[0] = v
    <3>1. Upto(A, 0) = <<>> /\ Written(v, 0, <<>>) = v
      BY <1>6, UptoIs, WrittenNone
    <3>2. 0 \in 0..P
      BY <1>6
    <3> QED BY <3>1, <3>2
  <2>2. ASSUME NEW p \in 1..P PROVE h[p] = Read(p, e.instances[p], h[p - 1], e.offsets[p])
    <3>1. p - 1 \in 0..P /\ p \in 0..P
      BY <1>6
    <3>2. PICK u : u = Upto(A, p - 1)
      OBVIOUS
    <3>3. PICK C : C = FlattenSeq(PluginCells(p, e.instances[p]))
      OBVIOUS
    <3>4. A[p] = C /\ IsSeq(C)
      <4>1. A[p] = C
        BY <1>1, <1>3, <3>3 DEF AllCells
      <4> QED BY <1>6, <4>1 DEF IsSeqs
    <3>5. Upto(A, p) = u \o C /\ IsSeq(u) /\ Len(u) \in Nat
      <4>1. p \in 1..Len(A) /\ p - 1 \in 0..Len(A)
        BY <1>6, <3>1
      <4>2. Upto(A, p) = Upto(A, p - 1) \o A[p] /\ IsSeq(Upto(A, p - 1)) /\ Len(Upto(A, p - 1)) \in Nat
        BY <1>6, <4>1, UptoIs
      <4> QED BY <3>2, <3>4, <4>2
    <3>6. Written(Written(v, 0, u), 0 + Len(u), C) = Written(v, 0, u \o C)
      <4>1. DOMAIN v = 1..N /\ N \in Nat /\ 0 \in Nat
        BY <1>6
      <4>2. IsSeq(u) /\ IsSeq(C)
        BY <3>4, <3>5
      <4>3. PICK o : o = 0 /\ o \in Nat
        OBVIOUS
      <4>4. Written(Written(v, o, u), o + Len(u), C) = Written(v, o, u \o C)
        BY <4>1, <4>2, <4>3, WrittenTwice
      <4> QED BY <4>3, <4>4
    <3>7. PICK w : w = Written(v, 0, u)
      OBVIOUS
    <3>8. DOMAIN w = 1..N /\ w = [n \in DOMAIN w |-> w[n]]
      BY <1>6, <3>7 DEF Written
    <3>9. Len(e.instances[p]) = Len(Bundles[plugins[p].stem])
      <4>1. plugins[p].stem \in DOMAIN Bundles
        BY <1>3 DEF FromBundles
      <4>2. IsSeq(Bundles[plugins[p].stem])
        BY <4>1, BundleIs DEF IsSeqs
      <4>3. PICK i : i = e.instances[p]
        OBVIOUS
      <4>4. PICK B : B = Bundles[plugins[p].stem]
        OBVIOUS
      <4>5. DOMAIN i = 1..Len(B) /\ i = [f \in 1..Len(B) |-> i[f]] /\ Len(B) \in Nat
        BY <1>3, <4>2, <4>3, <4>4, SeqShape
      <4> QED BY <4>3, <4>4, <4>5, SeqMade
    <3>10. Read(p, e.instances[p], w, Len(u)) = Written(w, Len(u), C)
      BY <1>3, <1>6, <3>3, <3>5, <3>8, <3>9, ReadIs
    <3>11. h[p] = Written(v, 0, u \o C) /\ h[p - 1] = w
      BY <3>1, <3>2, <3>5, <3>7
    <3>12. e.offsets[p] = Len(u) /\ 0 + Len(u) = Len(u)
      BY <1>7, <3>2, <3>5
    <3> HIDE DEF h
    <3> QED BY <3>6, <3>7, <3>10, <3>11, <3>12
  <2> HIDE DEF h
  <2> QED BY <2>1, <2>2
<1>9. h = [p \in 0..P |-> h[p]]
  OBVIOUS
<1> HIDE DEF h
<1>10. AllRead(e, P, h)
  <2>1. ASSUME NEW p \in 0..P
        PROVE  h[p] = IF p = 0 THEN e.values ELSE Read(p, e.instances[p], h[p - 1], e.offsets[p])
    <3>1. p # 0 => p \in 1..P
      BY <1>6
    <3> QED BY <1>5, <1>8, <3>1
  <2> QED BY <1>9, <2>1 DEF AllRead
<1> DEFINE g == CHOOSE g : AllRead(e, P, g)
<1>11. AllRead(e, P, g)
  BY <1>10
<1>12. ReadAll(e) = [e EXCEPT !.fresh = TRUE, !.values = g[P]]
  BY <1>3 DEF ReadAll, AllRead
<1> HIDE DEF g
<1> DEFINE T == {m \in Nat : m <= P => g[m] = h[m]}
<1>13. 0 \in T
  BY <1>5, <1>6, <1>8, <1>11 DEF AllRead
<1>14. ASSUME NEW m \in T PROVE m + 1 \in T
  <2> SUFFICES ASSUME m + 1 <= P PROVE g[m + 1] = h[m + 1]
    OBVIOUS
  <2>1. m + 1 \in 1..P /\ m + 1 \in 0..P /\ (m + 1) - 1 = m /\ m + 1 # 0 /\ m <= P
    <3>1. P \in Nat /\ m \in Nat
      BY <1>6
    <3> QED BY <3>1
  <2>2. g[m] = h[m]
    BY <2>1
  <2>3. g[m + 1] = Read(m + 1, e.instances[m + 1], g[m], e.offsets[m + 1])
    BY <1>11, <2>1 DEF AllRead
  <2>4. h[m + 1] = Read(m + 1, e.instances[m + 1], h[m], e.offsets[m + 1])
    BY <1>8, <2>1
  <2> QED BY <2>2, <2>3, <2>4
<1>15. T = Nat
  BY <1>13, <1>14, Induct
<1>16. g[P] = h[P]
  BY <1>6, <1>15
<1>17. h[P] = Written(v, 0, FlattenSeq(A))
  <2>1. Upto(A, P) = FlattenSeq(A)
    BY <1>6, UptoIs
  <2>2. P \in 0..P
    BY <1>6
  <2> QED BY <2>1, <2>2 DEF h
<1>18. Written(v, 0, FlattenSeq(A)) = ValuesIn(state)
  <2>1. Len(FlattenSeq(A)) = N
    BY <1>4, <1>6, FlattenParallel
  <2>2. ASSUME NEW n \in 1..N
        PROVE  Written(v, 0, FlattenSeq(A))[n]
                 = Value(Declared[n].plugin, Declared[n].feature, Declared[n].column, state)
    <3>1. n \in 0 + 1..0 + N /\ n - 0 = n
      BY <1>6
    <3>2. Written(v, 0, FlattenSeq(A))[n] = FlattenSeq(A)[n]
      BY <1>6, <2>1, <3>1 DEF Written
    <3> QED BY <1>1, <1>4, <3>2, AllCellsRight
  <2>3. PICK w : w = Written(v, 0, FlattenSeq(A))
    OBVIOUS
  <2>4. w = [n \in 1..N |-> w[n]]
    BY <1>6, <2>3 DEF Written
  <2> QED BY <1>4, <2>2, <2>3, <2>4 DEF ValuesIn, ValueOf
<1> QED BY <1>12, <1>16, <1>17, <1>18
-----------------------------------------------------------------------------
(* Rows and baselines.                                                     *)

LEMMA StateNone == ASSUME NEW l PROVE StateOf(l, 0) = NewState
<1>1. {j \in 1..0 : l[j] # "clear"} = {} /\ {j \in 1..0 : l[j] = "clear"} = {}
  OBVIOUS
<1> QED BY <1>1, FS_EmptySet DEF StateOf, NewState

\* What a log that goes on leaves as it was.
LEMMA StateKept ==
  ASSUME NEW l, IsSeq(l), NEW action, NEW k \in 0..Len(l)
  PROVE  StateOf(Append(l, action), k) = StateOf(l, k)
<1>1. k \in Nat /\ Len(l) \in Nat /\ k <= Len(l)
  BY SeqShape
<1>2. ASSUME NEW j \in 1..k PROVE Append(l, action)[j] = l[j]
  <2>1. j \in 1..Len(l)
    BY <1>1
  <2> QED BY <2>1, AppendIs
<1>3. /\ {j \in 1..k : Append(l, action)[j] # "clear"} = {j \in 1..k : l[j] # "clear"}
      /\ {j \in 1..k : Append(l, action)[j] = "clear"} = {j \in 1..k : l[j] = "clear"}
  BY <1>2
<1> QED BY <1>3 DEF StateOf

LEMMA StateNext ==
  ASSUME NEW l, IsSeq(l), NEW action
  PROVE  StateOf(Append(l, action), Len(l) + 1)
           = IF action = "clear" THEN [StateOf(l, Len(l)) EXCEPT !.resets = @ + 1]
                                 ELSE [StateOf(l, Len(l)) EXCEPT !.events = @ + 1]
<1>1. PICK L : L = Len(l)
  OBVIOUS
<1>2. PICK t : t = Append(l, action)
  OBVIOUS
<1>3. L \in Nat /\ t[L + 1] = action /\ \A j \in 1..L : t[j] = l[j]
  BY <1>1, <1>2, SeqShape, AppendIs
<1> DEFINE Events == {j \in 1..L : l[j] # "clear"}
           Resets == {j \in 1..L : l[j] = "clear"}
           EventsNow == {j \in 1..L + 1 : t[j] # "clear"}
           ResetsNow == {j \in 1..L + 1 : t[j] = "clear"}
<1>4. IsFiniteSet(Events) /\ IsFiniteSet(Resets) /\ L + 1 \notin Events /\ L + 1 \notin Resets
  <2>1. IsFiniteSet(1..L)
    BY <1>3, FS_Interval
  <2>2. Events \subseteq 1..L /\ Resets \subseteq 1..L
    OBVIOUS
  <2>3. IsFiniteSet(Events) /\ IsFiniteSet(Resets)
    BY <2>1, <2>2, FS_Subset
  <2> QED BY <1>3, <2>3
<1>5. 1..L + 1 = (1..L) \cup {L + 1}
  BY <1>3
<1>6. CASE action = "clear"
  <2>1. EventsNow = Events /\ ResetsNow = Resets \cup {L + 1}
    BY <1>3, <1>5, <1>6
  <2>2. Cardinality(ResetsNow) = Cardinality(Resets) + 1
    BY <1>4, <2>1, FS_AddElement
  <2>3. StateOf(t, L + 1) = [events |-> Cardinality(Events), resets |-> Cardinality(Resets) + 1]
    BY <2>1, <2>2 DEF StateOf
  <2> QED BY <1>1, <1>2, <1>6, <2>3 DEF StateOf
<1>7. CASE action # "clear"
  <2>1. ResetsNow = Resets /\ EventsNow = Events \cup {L + 1}
    BY <1>3, <1>5, <1>7
  <2>2. Cardinality(EventsNow) = Cardinality(Events) + 1
    BY <1>4, <2>1, FS_AddElement
  <2>3. StateOf(t, L + 1) = [events |-> Cardinality(Events) + 1, resets |-> Cardinality(Resets)]
    BY <2>1, <2>2 DEF StateOf
  <2> QED BY <1>1, <1>2, <1>7, <2>3 DEF StateOf
<1> QED BY <1>6, <1>7

LEMMA ClearedKept ==
  ASSUME NEW l, IsSeq(l), NEW action, NEW rows, NEW n, rows[n].at \in 1..Len(l)
  PROVE  /\ \A k \in 0..Len(l) : ClearedAfter(Append(l, action), rows, n, k) <=> ClearedAfter(l, rows, n, k)
         /\ ClearedAfter(Append(l, action), rows, n, Len(l) + 1)
              <=> ClearedAfter(l, rows, n, Len(l)) \/ action = "clear"
<1>1. PICK L : L = Len(l)
  OBVIOUS
<1>2. PICK t : t = Append(l, action)
  OBVIOUS
<1>3. PICK at : at = rows[n].at
  OBVIOUS
<1>4. L \in Nat /\ at \in 1..L /\ t[L + 1] = action /\ \A j \in 1..L : t[j] = l[j]
  BY <1>1, <1>2, <1>3, SeqShape, AppendIs
<1>5. ASSUME NEW k \in 0..L PROVE (\E j \in at + 1..k : t[j] = "clear") <=> (\E j \in at + 1..k : l[j] = "clear")
  <2>1. \A j \in at + 1..k : j \in 1..L
    BY <1>4
  <2> QED BY <1>4, <2>1
<1>6. at + 1..L + 1 = (at + 1..L) \cup {L + 1}
  BY <1>4
<1>7. (\E j \in at + 1..L + 1 : t[j] = "clear") <=> (\E j \in at + 1..L : l[j] = "clear") \/ action = "clear"
  <2>1. L \in 0..L
    BY <1>4
  <2>2. (\E j \in at + 1..L : t[j] = "clear") <=> (\E j \in at + 1..L : l[j] = "clear")
    BY <1>5, <2>1
  <2> QED BY <1>4, <1>6, <2>2
<1> QED BY <1>1, <1>2, <1>3, <1>5, <1>7 DEF ClearedAfter

LEMMA RowKept ==
  ASSUME NEW l, IsSeq(l), NEW action, NEW of, NEW rows, NEW n \in 1..Len(rows), Len(rows) \in Nat,
         \A i \in 1..Len(rows) : RowRight(l, of, rows, i)
  PROVE  RowRight(Append(l, action), of, rows, n)
<1>1. PICK t : t = Append(l, action)
  OBVIOUS
<1>2. Len(l) \in Nat /\ Len(t) = Len(l) + 1
  BY <1>1, SeqShape, AppendIs
<1>3. RowRight(l, of, rows, n) /\ rows[n].at \in 1..Len(l) /\ rows[n].at \in 0..Len(l)
  BY <1>2 DEF RowRight
<1>4. StateOf(t, rows[n].at) = StateOf(l, rows[n].at)
  BY <1>1, <1>3, StateKept
<1>5. ASSUME n # 1
      PROVE  /\ ClearedAfter(t, rows, n - 1, rows[n].at) <=> ClearedAfter(l, rows, n - 1, rows[n].at)
             /\ StateOf(t, rows[n - 1].at) = StateOf(l, rows[n - 1].at)
  <2>1. n - 1 \in 1..Len(rows)
    BY <1>5
  <2>2. rows[n - 1].at \in 1..Len(l) /\ rows[n - 1].at \in 0..Len(l)
    <3>1. RowRight(l, of, rows, n - 1)
      BY <2>1
    <3>2. rows[n - 1].at \in 1..Len(l)
      BY <3>1 DEF RowRight
    <3> QED BY <1>2, <3>2
  <2> QED BY <1>1, <1>3, <2>2, StateKept, ClearedKept
<1>6. \A k \in DOMAIN of : BaselineOf(t, of[k], rows, n) = BaselineOf(l, of[k], rows, n)
  BY <1>5 DEF BaselineOf
<1>7. rows[n].at \in 1..Len(t)
  BY <1>2, <1>3
<1> QED BY <1>1, <1>3, <1>4, <1>6, <1>7 DEF RowRight

\* A sampler that has been shown the event, and may fire next.
SamplerShown(action, m) == IF action = "clear" THEN ResetBaseline(m) ELSE m

LEMMA ShownRight ==
  ASSUME NEW l, IsSeq(l), NEW action, NEW of, NEW m, SamplerRight(l, of, m)
  PROVE  SamplerRight(Append(l, action), of, SamplerShown(action, m))
<1>1. PICK t : t = Append(l, action)
  OBVIOUS
<1>2. PICK w : w = SamplerShown(action, m)
  OBVIOUS
<1>3. /\ m = [count |-> m.count, rows |-> m.rows, last |-> m.last]
      /\ m.last = [k \in DOMAIN of |-> m.last[k]]
      /\ IsSeq(m.rows) /\ Len(m.rows) \in Nat /\ (m.rows = <<>> <=> Len(m.rows) = 0)
      /\ \A n \in 1..Len(m.rows) : RowRight(l, of, m.rows, n)
  BY SeqShape DEF SamplerRight
<1>4. /\ w = [count |-> m.count, rows |-> m.rows,
              last |-> [k \in DOMAIN of |-> IF action = "clear" THEN Zero ELSE m.last[k]]]
  BY <1>2, <1>3 DEF SamplerShown, ResetBaseline
<1>5. /\ w.rows = m.rows /\ w = [count |-> w.count, rows |-> w.rows, last |-> w.last]
      /\ w.last = [k \in DOMAIN of |-> IF action = "clear" THEN Zero ELSE m.last[k]]
  BY <1>4
<1>6. \A n \in 1..Len(m.rows) : RowRight(t, of, m.rows, n)
  BY <1>1, <1>3, RowKept
<1>7. Len(t) = Len(l) + 1 /\ Len(l) \in Nat
  BY <1>1, SeqShape, AppendIs
<1>8. ASSUME NEW k \in DOMAIN of, of[k].cumulative PROVE w.last[k] = NextBaseline(t, of[k], m.rows)
  <2>1. m.last[k] = NextBaseline(l, of[k], m.rows)
    BY <1>8 DEF SamplerRight
  <2>2. w.last[k] = IF action = "clear" THEN Zero ELSE m.last[k]
    BY <1>5
  <2>3. CASE m.rows = <<>>
    BY <2>1, <2>2, <2>3 DEF NextBaseline
  <2>4. CASE m.rows # <<>>
    <3>1. Len(m.rows) \in 1..Len(m.rows)
      BY <1>3, <2>4
    <3>2. m.rows[Len(m.rows)].at \in 1..Len(l)
      BY <1>3, <3>1 DEF RowRight
    <3>3. m.rows[Len(m.rows)].at \in 0..Len(l)
      BY <1>7, <3>2
    <3>4. StateOf(t, m.rows[Len(m.rows)].at) = StateOf(l, m.rows[Len(m.rows)].at)
      BY <1>1, <3>3, StateKept
    <3>5. ClearedAfter(t, m.rows, Len(m.rows), Len(t))
            <=> ClearedAfter(l, m.rows, Len(m.rows), Len(l)) \/ action = "clear"
      <4>1. PICK R : R = m.rows
        OBVIOUS
      <4>2. PICK n : n = Len(R)
        OBVIOUS
      <4>3. R[n].at \in 1..Len(l)
        BY <3>2, <4>1, <4>2
      <4>4. ClearedAfter(t, R, n, Len(l) + 1) <=> ClearedAfter(l, R, n, Len(l)) \/ action = "clear"
        BY <1>1, <4>3, ClearedKept
      <4> QED BY <1>7, <4>1, <4>2, <4>4
    <3> QED BY <2>1, <2>2, <2>4, <3>4, <3>5 DEF NextBaseline
  <2> QED BY <2>3, <2>4
<1>9. w.last = [k \in DOMAIN of |-> w.last[k]]
  BY <1>5
<1>10. SamplerRight(t, of, w)
  BY <1>3, <1>5, <1>6, <1>8, <1>9 DEF SamplerRight
<1> QED BY <1>1, <1>2, <1>10
\* A sampler that does not fire.
LEMMA SilentRight ==
  ASSUME NEW l, NEW of, NEW m, SamplerRight(l, of, m)
  PROVE  SamplerRight(l, of, [m EXCEPT !.count = @ + 1])
<1>1. PICK w : w = [m EXCEPT !.count = @ + 1]
  OBVIOUS
<1>2. m = [count |-> m.count, rows |-> m.rows, last |-> m.last]
  BY DEF SamplerRight
<1>3. w = [count |-> w.count, rows |-> w.rows, last |-> w.last] /\ w.rows = m.rows /\ w.last = m.last
  BY <1>1, <1>2
<1>4. SamplerRight(l, of, w)
  BY <1>3 DEF SamplerRight
<1> QED BY <1>1, <1>4

\* Emit, of values as of the event.
LEMMA EmitRight ==
  ASSUME CatalogRight, IsSeq(log), NEW action, NEW s \in 1..Len(samplers),
         NEW m, SamplerRight(Append(log, action), Of(s), m)
  PROVE  SamplerRight(Append(log, action), Of(s),
                      Emit(s, m, ValuesIn(StateOf(Append(log, action), Len(log) + 1))))
<1>1. PICK t : t = Append(log, action)
  OBVIOUS
<1>2. PICK of : of = Of(s)
  OBVIOUS
<1>3. PICK cols : cols = samplers[s].columns
  OBVIOUS
<1>4. PICK L : L = Len(log) + 1
  OBVIOUS
<1>5. PICK state : state = StateOf(t, L)
  OBVIOUS
<1>6. PICK R : R = m.rows
  OBVIOUS
<1>7. L \in Nat /\ L > 0 /\ Len(t) = L
  BY <1>1, <1>4, SeqShape, AppendIs
<1>8. /\ m = [count |-> m.count, rows |-> R, last |-> m.last] /\ IsSeq(R)
      /\ Len(R) \in Nat /\ (R = <<>> <=> Len(R) = 0)
      /\ \A n \in 1..Len(R) : RowRight(t, of, R, n)
      /\ m.last = [k \in DOMAIN of |-> m.last[k]]
      /\ \A k \in DOMAIN of : of[k].cumulative => m.last[k] = NextBaseline(t, of[k], R)
  BY <1>1, <1>2, <1>6, SeqShape DEF SamplerRight
<1>9. /\ DOMAIN of = DOMAIN cols
      /\ \A k \in DOMAIN cols : /\ of[k] = Declared[cols[k]]
                                /\ columns[cols[k]].cumulative = of[k].cumulative
                                /\ ValuesIn(state)[cols[k]] = ValueOf(of[k], state)
  <2>1. DOMAIN of = DOMAIN cols /\ \A k \in DOMAIN cols : of[k] = Declared[cols[k]]
    BY <1>2, <1>3 DEF Of
  <2>2. ASSUME NEW k \in DOMAIN cols
        PROVE  /\ columns[cols[k]].cumulative = of[k].cumulative
               /\ ValuesIn(state)[cols[k]] = ValueOf(of[k], state)
    <3>1. cols[k] \in 1..Len(columns) /\ Len(columns) = Len(Declared)
      BY <1>3 DEF CatalogRight, SamplersChosen, ColumnsDeclared
    <3>2. columns[cols[k]].cumulative = Declared[cols[k]].cumulative
      BY <3>1 DEF CatalogRight, ColumnsDeclared
    <3>3. ValuesIn(state)[cols[k]] = ValueOf(Declared[cols[k]], state)
      BY <3>1 DEF ValuesIn
    <3> QED BY <2>1, <3>2, <3>3
  <2> QED BY <2>1, <2>2
<1> DEFINE row == [at |-> L, cells |-> [k \in DOMAIN of |->
                      [value |-> ValueOf(of[k], state),
                       since |-> IF of[k].cumulative THEN m.last[k] ELSE Zero]]]
           last == [k \in DOMAIN of |-> IF of[k].cumulative THEN ValueOf(of[k], state) ELSE m.last[k]]
<1>10. Emit(s, m, ValuesIn(state)) = [count |-> 0, rows |-> Append(R, row), last |-> last]
  <2>1. [k \in DOMAIN cols |-> [value |-> ValuesIn(state)[cols[k]],
                                since |-> IF columns[cols[k]].cumulative THEN m.last[k] ELSE Zero]]
          = row.cells
    BY <1>9
  <2>2. [k \in DOMAIN cols |-> IF columns[cols[k]].cumulative THEN ValuesIn(state)[cols[k]]
                               ELSE m.last[k]] = last
    BY <1>9
  <2>3. Emit(s, m, ValuesIn(state))
          = [m EXCEPT !.count = 0,
                      !.rows = Append(@, [at |-> L, cells |-> row.cells]), !.last = last]
    BY <1>3, <1>4, <2>1, <2>2 DEF Emit
  <2>4. [at |-> L, cells |-> row.cells] = row
    OBVIOUS
  <2> HIDE DEF row, last
  <2>5. PICK rows : rows = Append(R, row)
    OBVIOUS
  <2>6. Emit(s, m, ValuesIn(state)) = [m EXCEPT !.count = 0, !.rows = rows, !.last = last]
    BY <1>6, <2>3, <2>4, <2>5
  <2>7. m = [count |-> m.count, rows |-> R, last |-> m.last]
    BY <1>8
  <2>8. Emit(s, m, ValuesIn(state)) = [count |-> 0, rows |-> rows, last |-> last]
    BY <2>6, <2>7
  <2> QED BY <2>5, <2>8
<1> DEFINE w == [count |-> 0, rows |-> Append(R, row), last |-> last]
<1>11. /\ row.at = L /\ row.cells = [k \in DOMAIN of |-> row.cells[k]]
       /\ \A k \in DOMAIN of :
            /\ row.cells[k].value = ValueOf(of[k], state)
            /\ row.cells[k].since = IF of[k].cumulative THEN m.last[k] ELSE Zero
       /\ last = [k \in DOMAIN of |-> last[k]]
       /\ \A k \in DOMAIN of : of[k].cumulative => last[k] = ValueOf(of[k], state)
  <2>1. row.at = L /\ row.cells = [k \in DOMAIN of |-> row.cells[k]]
    OBVIOUS
  <2>2. ASSUME NEW k \in DOMAIN of
        PROVE  /\ row.cells[k].value = ValueOf(of[k], state)
               /\ row.cells[k].since = IF of[k].cumulative THEN m.last[k] ELSE Zero
    OBVIOUS
  <2>3. last = [k \in DOMAIN of |-> last[k]]
    OBVIOUS
  <2>4. ASSUME NEW k \in DOMAIN of, of[k].cumulative PROVE last[k] = ValueOf(of[k], state)
    BY <2>4
  <2> HIDE DEF row, last
  <2> QED BY <2>1, <2>2, <2>3, <2>4
<1> HIDE DEF row, last
<1>12. PICK Q : Q = Append(R, row)
  OBVIOUS
<1>13. /\ IsSeq(Q) /\ Len(Q) = Len(R) + 1 /\ Q[Len(R) + 1] = row
       /\ \A n \in 1..Len(R) : Q[n] = R[n]
  <2>1. IsSeq(R)
    BY <1>8
  <2> QED BY <1>12, <2>1, AppendIs
<1>14. ASSUME NEW n \in 1..Len(R) PROVE RowRight(t, of, Q, n)
  <2>1. Q[n] = R[n] /\ (n # 1 => Q[n - 1] = R[n - 1])
    <3>1. n # 1 => n - 1 \in 1..Len(R)
      BY <1>8
    <3> QED BY <1>13, <3>1
  <2>2. \A k \in DOMAIN of : BaselineOf(t, of[k], Q, n) = BaselineOf(t, of[k], R, n)
    BY <2>1 DEF BaselineOf, ClearedAfter
  <2> QED BY <1>8, <2>1, <2>2 DEF RowRight
<1>15. RowRight(t, of, Q, Len(R) + 1)
  <2>1. PICK n : n = Len(R)
    OBVIOUS
  <2>2. L \in 1..Len(t) /\ n \in Nat /\ (n + 1) - 1 = n
    BY <1>7, <1>8, <2>1
  <2>3. Q[n + 1].at = L
    BY <1>11, <1>13, <2>1
  <2>4. ASSUME NEW k \in DOMAIN of PROVE BaselineOf(t, of[k], Q, n + 1) = NextBaseline(t, of[k], R)
    <3>1. CASE n = 0
      <4>1. R = <<>> /\ n + 1 = 1
        BY <1>8, <2>1, <3>1
      <4> QED BY <4>1 DEF BaselineOf, NextBaseline
    <3>2. CASE n # 0
      <4>1. R # <<>> /\ n + 1 # 1 /\ n \in 1..Len(R)
        BY <1>8, <2>1, <2>2, <3>2
      <4>2. Q[n] = R[n]
        BY <1>13, <4>1
      <4>3. ClearedAfter(t, Q, n, L) <=> ClearedAfter(t, R, n, L)
        BY <4>2 DEF ClearedAfter
      <4>4. BaselineOf(t, of[k], Q, n + 1)
              = IF ClearedAfter(t, Q, n, L) THEN Zero ELSE ValueOf(of[k], StateOf(t, Q[n].at))
        BY <2>2, <2>3, <4>1 DEF BaselineOf
      <4>5. NextBaseline(t, of[k], R)
              = IF ClearedAfter(t, R, n, L) THEN Zero ELSE ValueOf(of[k], StateOf(t, R[n].at))
        BY <1>7, <2>1, <4>1 DEF NextBaseline
      <4> QED BY <4>2, <4>3, <4>4, <4>5
    <3> QED BY <3>1, <3>2
  <2>5. Q[n + 1] = row
    BY <1>13, <2>1
  <2>6. \A k \in DOMAIN of :
          /\ row.cells[k].value = ValueOf(of[k], StateOf(t, L))
          /\ row.cells[k].since = IF of[k].cumulative THEN BaselineOf(t, of[k], Q, n + 1) ELSE Zero
    BY <1>5, <1>8, <1>11, <2>4
  <2>7. L \in 1..Len(t) /\ row.cells = [k \in DOMAIN of |-> row.cells[k]]
    BY <1>11, <2>2
  <2> QED BY <2>1, <2>3, <2>5, <2>6, <2>7 DEF RowRight
<1>16. ASSUME NEW k \in DOMAIN of, of[k].cumulative PROVE last[k] = NextBaseline(t, of[k], Q)
  <2>1. PICK n : n = Len(Q)
    OBVIOUS
  <2>2. n = Len(R) + 1 /\ Q # <<>>
    <3>1. Len(Q) # 0
      BY <1>8, <1>13
    <3> QED BY <1>13, <2>1, <3>1, EmptySeqIs
  <2>3. Q[n].at = L
    BY <1>11, <1>13, <2>2
  <2>4. ~ClearedAfter(t, Q, n, L)
    <3>1. Q[n].at + 1..L = {}
      BY <1>7, <2>3
    <3> QED BY <3>1 DEF ClearedAfter
  <2> QED BY <1>5, <1>7, <1>11, <1>16, <2>1, <2>2, <2>3, <2>4 DEF NextBaseline
<1>17. \A n \in 1..Len(Q) : RowRight(t, of, Q, n)
  <2>1. \A n \in 1..Len(Q) : n \in 1..Len(R) \/ n = Len(R) + 1
    BY <1>8, <1>13
  <2> QED BY <1>14, <1>15, <2>1
<1>18. SamplerRight(t, of, w)
  <2>1. w.rows = Q /\ w.last = last /\ w = [count |-> w.count, rows |-> w.rows, last |-> w.last]
    BY <1>12
  <2> HIDE DEF w
  <2> QED BY <1>11, <1>13, <1>16, <1>17, <2>1 DEF SamplerRight
<1> QED BY <1>1, <1>2, <1>4, <1>5, <1>10, <1>18
-----------------------------------------------------------------------------
(* The engine.                                                             *)

LEMMA NewEngineRight == ASSUME CatalogRight, EngineInv, NewEngine PROVE EngineInv'
<1> DEFINE e == [instances |-> [p \in DOMAIN plugins |-> NewInstance(plugins[p].stem)],
                 offsets   |-> Offsets,
                 values    |-> [c \in DOMAIN columns |-> Zero],
                 fresh     |-> FALSE,
                 samplers  |-> [s \in DOMAIN samplers |->
                                  [count |-> 0, rows |-> <<>>,
                                   last |-> [k \in DOMAIN samplers[s].columns |-> Zero]]]]
<1>1. /\ engine = <<>> /\ engine' = <<e>> /\ log' = log
      /\ plugins' = plugins /\ columns' = columns /\ samplers' = samplers
  BY DEF NewEngine, catalog
<1>2. log = <<>> /\ Len(log) = 0
  BY <1>1, EmptySeqIs DEF EngineInv
<1>3. DOMAIN columns = 1..Len(columns) /\ DOMAIN samplers = 1..Len(samplers)
  BY SeqShape DEF CatalogRight, ColumnsDeclared, SamplersChosen
<1>4. engine'[1] = e /\ engine' = <<engine'[1]>> /\ engine' # <<>>
  BY <1>1
<1>5. /\ e.instances = [p \in DOMAIN plugins |-> [f \in DOMAIN Bundles[plugins[p].stem] |-> StateOf(log, Len(log))]]
      /\ e.offsets = Offsets
      /\ e.values = [x \in 1..Len(columns) |-> e.values[x]]
      /\ e.fresh = FALSE
      /\ e.samplers = [s \in 1..Len(samplers) |-> e.samplers[s]]
      /\ e = [instances |-> e.instances, offsets |-> e.offsets, values |-> e.values,
              fresh |-> e.fresh, samplers |-> e.samplers]
  <2>1. StateOf(log, Len(log)) = NewState
    BY <1>2, StateNone
  <2>2. [p \in DOMAIN plugins |-> NewInstance(plugins[p].stem)]
          = [p \in DOMAIN plugins |-> [f \in DOMAIN Bundles[plugins[p].stem] |-> StateOf(log, Len(log))]]
    BY <2>1 DEF NewInstance
  <2> QED BY <1>3, <2>2
<1>6. ASSUME NEW s \in 1..Len(samplers) PROVE SamplerRight(log, Of(s), e.samplers[s])
  <2>1. PICK of : of = Of(s)
    OBVIOUS
  <2>2. DOMAIN of = DOMAIN samplers[s].columns
    BY <2>1 DEF Of
  <2>3. PICK m : m = [count |-> 0, rows |-> <<>>, last |-> [k \in DOMAIN of |-> Zero]]
    OBVIOUS
  <2>4. e.samplers[s] = m
    BY <1>3, <2>2, <2>3
  <2>5. /\ m = [count |-> m.count, rows |-> m.rows, last |-> m.last]
        /\ m.rows = <<>> /\ m.last = [k \in DOMAIN of |-> Zero]
    BY <2>3
  <2>6. \A k \in DOMAIN of : m.last[k] = NextBaseline(log, of[k], m.rows)
    BY <2>5 DEF NextBaseline
  <2>7. 1..Len(m.rows) = {} /\ IsSeq(m.rows)
    BY <2>5, EmptySeqIs
  <2> HIDE DEF e
  <2>8. SamplerRight(log, of, m)
    BY <2>5, <2>6, <2>7 DEF SamplerRight
  <2> QED BY <2>1, <2>4, <2>8
<1> HIDE DEF e
<1>7. EngineRight(e)
  BY <1>5, <1>6 DEF EngineRight
<1>8. EngineRight(engine[1])'
  <2>1. Offsets' = Offsets /\ \A s : Of(s)' = Of(s)
    BY <1>1 DEF Offsets, Of, Declared
  <2> QED BY <1>1, <1>4, <1>7, <2>1 DEF EngineRight
<1> QED BY <1>1, <1>2, <1>4, <1>8 DEF EngineInv
LEMMA OnEventRight == ASSUME CatalogRight, EngineInv, NEW action, OnEvent(action) PROVE EngineInv'
<1> DEFINE e == engine[1]
           shown == [e EXCEPT
                       !.fresh = FALSE,
                       !.instances = [p \in DOMAIN @ |-> Shown(@[p], action)],
                       !.samplers = IF action = "clear" THEN [s \in DOMAIN @ |-> ResetBaseline(@[s])] ELSE @]
           read == ReadAll(shown)
           base == IF \E s \in DOMAIN samplers : Fires(s, shown.samplers[s]) THEN read ELSE shown
           next == [s \in DOMAIN samplers |->
                      LET m == shown.samplers[s]
                      IN  IF Fires(s, m) THEN Emit(s, m, read.values) ELSE [m EXCEPT !.count = @ + 1]]
<1>2. /\ engine # <<>> /\ engine' = <<[base EXCEPT !.samplers = next]>> /\ log' = Append(log, action)
      /\ plugins' = plugins /\ columns' = columns /\ samplers' = samplers
  <2>1. engine' = <<[base EXCEPT !.samplers = next]>>
    BY Zenon DEF OnEvent
  <2> QED BY <2>1, Zenon DEF OnEvent, catalog
<1>1. e = engine[1]
  OBVIOUS
<1> HIDE DEF e
<1>3. EngineRight(e) /\ IsSeq(log)
  BY <1>1, <1>2, Zenon DEF EngineInv
<1>4. PICK t : t = Append(log, action)
  OBVIOUS
<1>5. PICK state : state = StateOf(t, Len(log) + 1)
  OBVIOUS
<1>6. IsSeq(t) /\ Len(t) = Len(log) + 1 /\ t # <<>>
  <2>1. IsSeq(t) /\ Len(t) = Len(log) + 1 /\ Len(log) \in Nat
    BY <1>3, <1>4, AppendIs, SeqShape
  <2> QED BY <2>1, EmptySeqIs
<1>7. /\ FromBundles(plugins) /\ DOMAIN plugins = 1..Len(plugins) /\ DOMAIN samplers = 1..Len(samplers)
      /\ Len(columns) = Len(Declared)
  BY SeqShape DEF CatalogRight, FromBundles, SamplersChosen, ColumnsDeclared
<1>8. /\ e = [instances |-> e.instances, offsets |-> e.offsets, values |-> e.values,
              fresh |-> e.fresh, samplers |-> e.samplers]
      /\ e.instances = [p \in DOMAIN plugins |-> [f \in DOMAIN Bundles[plugins[p].stem] |-> StateOf(log, Len(log))]]
      /\ e.offsets = Offsets
      /\ e.values = [x \in 1..Len(columns) |-> e.values[x]]
      /\ e.samplers = [s \in 1..Len(samplers) |-> e.samplers[s]]
      /\ \A s \in 1..Len(samplers) : SamplerRight(log, Of(s), e.samplers[s])
  BY <1>3 DEF EngineRight
<1>9. [p \in DOMAIN e.instances |-> Shown(e.instances[p], action)]
        = [p \in DOMAIN plugins |-> [f \in DOMAIN Bundles[plugins[p].stem] |-> state]]
  <2>1. PICK was : was = StateOf(log, Len(log))
    OBVIOUS
  <2>2. state = IF action = "clear" THEN [was EXCEPT !.resets = @ + 1] ELSE [was EXCEPT !.events = @ + 1]
    BY <1>3, <1>4, <1>5, <2>1, StateNext
  <2>3. PICK I : I = e.instances
    OBVIOUS
  <2>4. I = [p \in DOMAIN plugins |-> [f \in DOMAIN Bundles[plugins[p].stem] |-> was]]
    BY <1>8, <2>1, <2>3
  <2>5. ASSUME NEW p \in DOMAIN plugins
        PROVE  Shown(I[p], action) = [f \in DOMAIN Bundles[plugins[p].stem] |-> state]
    <3>1. I[p] = [f \in DOMAIN Bundles[plugins[p].stem] |-> was]
      BY <2>4
    <3> QED BY <2>2, <3>1 DEF Shown
  <2>6. DOMAIN I = DOMAIN plugins
    BY <2>4
  <2> QED BY <2>3, <2>5, <2>6
<1>10. (IF action = "clear" THEN [s \in DOMAIN e.samplers |-> ResetBaseline(e.samplers[s])] ELSE e.samplers)
         = [s \in 1..Len(samplers) |-> SamplerShown(action, e.samplers[s])]
  BY <1>8 DEF SamplerShown
<1>11. PICK inst : inst = [p \in DOMAIN plugins |-> [f \in DOMAIN Bundles[plugins[p].stem] |-> state]]
  OBVIOUS
<1>12. PICK sam : sam = [s \in 1..Len(samplers) |-> SamplerShown(action, e.samplers[s])]
  OBVIOUS
<1>13. shown = [instances |-> inst, offsets |-> e.offsets, values |-> e.values,
                fresh |-> FALSE, samplers |-> sam]
  <2>1. shown = [e EXCEPT !.fresh = FALSE, !.instances = inst, !.samplers = sam]
    BY <1>9, <1>10, <1>11, <1>12
  <2>2. e = [instances |-> e.instances, offsets |-> e.offsets, values |-> e.values,
             fresh |-> e.fresh, samplers |-> e.samplers]
    BY <1>8
  <2> HIDE DEF shown
  <2> QED BY <2>1, <2>2
<1> HIDE DEF shown
<1>14. /\ shown.instances = inst /\ shown.offsets = Offsets /\ shown.values = e.values
       /\ shown.fresh = FALSE /\ shown.samplers = sam
  BY <1>8, <1>13
<1>15. read = [shown EXCEPT !.fresh = TRUE, !.values = ValuesIn(state)]
  <2>1. \A p \in 1..Len(plugins) : shown.instances[p] = [f \in DOMAIN Bundles[plugins[p].stem] |-> state]
    BY <1>7, <1>11, <1>14
  <2>2. shown.values = [n \in 1..Len(Declared) |-> shown.values[n]]
    BY <1>7, <1>8, <1>14
  <2>3. FromBundles(plugins) /\ shown.fresh = FALSE /\ shown.offsets = Offsets
    BY <1>7, <1>14
  <2>4. PICK x : x = shown
    OBVIOUS
  <2>5. ReadAll(x) = [x EXCEPT !.fresh = TRUE, !.values = ValuesIn(state)]
    BY <2>1, <2>2, <2>3, <2>4, ReadAllIs, Zenon
  <2> QED BY <2>4, <2>5
<1> HIDE DEF read
<1>16. /\ read = [instances |-> inst, offsets |-> e.offsets, values |-> ValuesIn(state),
                  fresh |-> TRUE, samplers |-> sam]
       /\ read.values = ValuesIn(state)
  BY <1>13, <1>15
<1>17. ASSUME NEW s \in 1..Len(samplers) PROVE SamplerRight(t, Of(s), next[s])
  <2>1. PICK m : m = sam[s]
    OBVIOUS
  <2>2. m = SamplerShown(action, e.samplers[s])
    BY <1>12, <2>1
  <2>3. SamplerRight(log, Of(s), e.samplers[s])
    BY <1>8
  <2>4. SamplerRight(t, Of(s), m)
    BY <1>3, <1>4, <2>2, <2>3, ShownRight
  <2>5. next[s] = IF Fires(s, m) THEN Emit(s, m, ValuesIn(state)) ELSE [m EXCEPT !.count = @ + 1]
    BY <1>7, <1>14, <1>16, <2>1
  <2>6. SamplerRight(t, Of(s), Emit(s, m, ValuesIn(state)))
    BY <1>3, <1>4, <1>5, <2>4, EmitRight
  <2>7. SamplerRight(t, Of(s), [m EXCEPT !.count = @ + 1])
    BY <2>4, SilentRight
  <2> QED BY <2>5, <2>6, <2>7
<1>18. next = [s \in 1..Len(samplers) |-> next[s]]
  BY <1>7
<1> HIDE DEF next
<1>19. PICK n : n = [base EXCEPT !.samplers = next]
  OBVIOUS
<1>20. \E values, fresh : /\ n = [instances |-> inst, offsets |-> e.offsets, values |-> values,
                                  fresh |-> fresh, samplers |-> next]
                          /\ values = [x \in 1..Len(columns) |-> values[x]]
  <2>1. base = read \/ base = shown
    OBVIOUS
  <2> HIDE DEF base
  <2>2. CASE base = read
    <3>1. n = [instances |-> inst, offsets |-> e.offsets, values |-> ValuesIn(state),
               fresh |-> TRUE, samplers |-> next]
      BY <1>16, <1>19, <2>2
    <3>2. ValuesIn(state) = [x \in 1..Len(columns) |-> ValuesIn(state)[x]]
      BY <1>7 DEF ValuesIn
    <3> QED BY <3>1, <3>2
  <2>3. CASE base = shown
    <3>1. n = [instances |-> inst, offsets |-> e.offsets, values |-> e.values,
               fresh |-> FALSE, samplers |-> next]
      BY <1>13, <1>19, <2>3
    <3>2. e.values = [x \in 1..Len(columns) |-> e.values[x]]
      BY <1>8
    <3> QED BY <3>1, <3>2
  <2> QED BY <2>1, <2>2, <2>3
<1>21. /\ n = [instances |-> n.instances, offsets |-> n.offsets, values |-> n.values,
               fresh |-> n.fresh, samplers |-> n.samplers]
       /\ n.instances = inst /\ n.offsets = Offsets /\ n.samplers = next
       /\ n.values = [x \in 1..Len(columns) |-> n.values[x]]
  <2>1. PICK values, fresh : /\ n = [instances |-> inst, offsets |-> e.offsets, values |-> values,
                                     fresh |-> fresh, samplers |-> next]
                             /\ values = [x \in 1..Len(columns) |-> values[x]]
    BY <1>20
  <2>2. /\ n.instances = inst /\ n.offsets = e.offsets /\ n.values = values
        /\ n.fresh = fresh /\ n.samplers = next
    BY <2>1
  <2>3. e.offsets = Offsets
    BY <1>8
  <2> QED BY <2>1, <2>2, <2>3
<1>22. engine' = <<n>> /\ engine'[1] = n /\ engine' # <<>> /\ engine' = <<engine'[1]>>
  <2>1. engine' = <<n>>
    BY <1>2, <1>19
  <2> QED BY <2>1
<1>23. EngineRight(engine[1])'
  <2>1. Offsets' = Offsets /\ \A s : Of(s)' = Of(s)
    BY <1>2 DEF Offsets, Of, Declared
  <2>2. log' = t /\ Len(t) = Len(log) + 1
    BY <1>2, <1>4, <1>6
  <2>3. \A s \in 1..Len(samplers) : SamplerRight(t, Of(s), n.samplers[s])
    BY <1>17, <1>21
  <2>4. n.samplers = [s \in 1..Len(samplers) |-> n.samplers[s]]
    BY <1>18, <1>21
  <2>5. n.instances
          = [p \in DOMAIN plugins |-> [f \in DOMAIN Bundles[plugins[p].stem] |-> StateOf(t, Len(t))]]
    BY <1>5, <1>11, <1>21, <2>2
  <2> QED BY <1>2, <1>21, <1>22, <2>1, <2>2, <2>3, <2>4, <2>5 DEF EngineRight
<1> QED BY <1>2, <1>4, <1>6, <1>22, <1>23 DEF EngineInv

LEMMA RowInductive == RowInv /\ [Next]_vars => RowInv'
<1> SUFFICES ASSUME RowInv, [Next]_vars PROVE RowInv'
  OBVIOUS
<1>1. CatalogRight /\ EngineInv
  BY DEF RowInv
<1>2. CatalogRight'
  BY <1>1, NextKeepsCatalog
<1>3. EngineInv'
  <2>1. ASSUME NEW stem \in DOMAIN Bundles, NEW name \in Names, LoadPlugin(stem, name) PROVE EngineInv'
    BY <1>1, <2>1 DEF LoadPlugin, EngineInv
  <2>2. ASSUME NEW name \in SamplerNames, NEW names \in Selections, NEW every \in Periods,
               AddSampler(name, names, every)
        PROVE  EngineInv'
    BY <1>1, <2>2 DEF AddSampler, EngineInv
  <2>3. CASE NewEngine
    BY <1>1, <2>3, NewEngineRight
  <2>4. ASSUME NEW action \in {"add", "clear"}, OnEvent(action) PROVE EngineInv'
    BY <1>1, <2>4, OnEventRight
  <2>5. CASE UNCHANGED vars
    <3>1. /\ plugins' = plugins /\ columns' = columns /\ samplers' = samplers
          /\ engine' = engine /\ log' = log
      BY <2>5 DEF vars, catalog
    <3>2. Offsets' = Offsets /\ \A s : Of(s)' = Of(s)
      BY <3>1 DEF Offsets, Of, Declared
    <3> QED BY <1>1, <3>1, <3>2 DEF EngineInv, EngineRight
  <2> QED BY <2>1, <2>2, <2>3, <2>4, <2>5 DEF Next
<1> QED BY <1>2, <1>3 DEF RowInv

LEMMA RowInit == Init => RowInv
<1> SUFFICES ASSUME Init PROVE RowInv
  OBVIOUS
<1>1. CatalogRight
  BY CatalogInit
<1>2. EngineInv
  BY EmptySeqIs DEF Init, EngineInv
<1> QED BY <1>1, <1>2 DEF RowInv

\* What the invariant says of a cell is what the property says.
LEMMA RowInvCells == RowInv => CellsUnderTheirNames
<1> SUFFICES ASSUME RowInv, engine # <<>>,
                    NEW s \in DOMAIN samplers, NEW n \in DOMAIN engine[1].samplers[s].rows,
                    NEW k \in DOMAIN samplers[s].names
             PROVE  \E d \in ToSet(Declared) :
                      /\ d.name = samplers[s].names[k]
                      /\ engine[1].samplers[s].rows[n].cells[k].value
                           = ValueAt(d, engine[1].samplers[s].rows[n].at)
                      /\ engine[1].samplers[s].rows[n].cells[k].since
                           = IF d.cumulative THEN Baseline(d, engine[1].samplers[s].rows, n) ELSE Zero
  BY DEF CellsUnderTheirNames
<1>1. PICK rows : rows = engine[1].samplers[s].rows
  OBVIOUS
<1>2. CatalogRight /\ EngineRight(engine[1])
  BY DEF RowInv, EngineInv
<1>3. DOMAIN samplers = 1..Len(samplers)
  BY <1>2, SeqShape DEF CatalogRight, SamplersChosen
<1>4. s \in 1..Len(samplers) /\ SamplerRight(log, Of(s), engine[1].samplers[s])
  BY <1>2, <1>3 DEF EngineRight
<1>5. /\ IsSeq(rows) /\ DOMAIN rows = 1..Len(rows)
      /\ \A i \in 1..Len(rows) : RowRight(log, Of(s), rows, i)
  BY <1>1, <1>4, SeqShape DEF SamplerRight
<1>6. n \in 1..Len(rows) /\ RowRight(log, Of(s), rows, n)
  BY <1>1, <1>5
<1>7. /\ k \in DOMAIN samplers[s].columns
      /\ samplers[s].columns[k] \in 1..Len(columns)
      /\ samplers[s].names[k] = columns[samplers[s].columns[k]].name
  BY <1>2, <1>4 DEF CatalogRight, SamplersChosen
<1>8. PICK d : d = Of(s)[k]
  OBVIOUS
<1>9. d = Declared[samplers[s].columns[k]] /\ k \in DOMAIN Of(s)
  BY <1>7, <1>8 DEF Of
<1>10. d \in ToSet(Declared) /\ d.name = samplers[s].names[k]
  <2>1. /\ samplers[s].columns[k] \in 1..Len(Declared)
        /\ columns[samplers[s].columns[k]].name = Declared[samplers[s].columns[k]].name
    BY <1>2, <1>7 DEF CatalogRight, ColumnsDeclared
  <2>2. DOMAIN Declared = 1..Len(Declared)
    BY <1>2, DeclaredIs, DeclaredNow, SeqShape DEF CatalogRight
  <2> QED BY <1>7, <1>9, <2>1, <2>2 DEF ToSet
<1>11. /\ rows[n].cells[k].value = ValueOf(d, StateOf(log, rows[n].at))
       /\ rows[n].cells[k].since = IF d.cumulative THEN BaselineOf(log, d, rows, n) ELSE Zero
  BY <1>6, <1>8, <1>9 DEF RowRight
<1>12. /\ ValueOf(d, StateOf(log, rows[n].at)) = ValueAt(d, rows[n].at)
       /\ BaselineOf(log, d, rows, n) = Baseline(d, rows, n)
  BY DEF ValueOf, StateOf, ValueAt, StateAt, BaselineOf, Baseline, ClearedAfter
<1> QED BY <1>1, <1>10, <1>11, <1>12, Zenon

LEMMA RowInvHolds == Spec => []RowInv
BY RowInit, RowInductive, PTL DEF Spec

\* The cell under a name holds what the column of that name had at the row's event, and a
\* cumulative one its difference from the row before or the last Clear (FeatureRow).
THEOREM CellsRight == Spec => []CellsUnderTheirNames
BY RowInvHolds, RowInvCells, PTL
-----------------------------------------------------------------------------
(* What a reader has taken of a text.                                      *)

Steps(f, r, t, N, g) == g = [n \in 0..N |-> IF n = 0 THEN r ELSE Char(f, g[n - 1], t[n])]
Taken(f, r, t) == (CHOOSE g : Steps(f, r, t, Len(t), g))[Len(t)]

LEMMA StepsExist ==
  ASSUME NEW f, NEW r, NEW t, NEW N \in Nat
  PROVE  \E g : Steps(f, r, t, N, g)
<1> DEFINE T == {m \in Nat : \E g : Steps(f, r, t, m, g)}
<1>1. 0 \in T
  <2>1. Steps(f, r, t, 0, [n \in 0..0 |-> r])
    BY DEF Steps
  <2> QED BY <2>1
<1>2. ASSUME NEW m \in T PROVE m + 1 \in T
  <2>1. PICK g : Steps(f, r, t, m, g)
    OBVIOUS
  <2> DEFINE last == Char(f, g[m], t[m + 1])
             h == [n \in 0..m + 1 |-> IF n = m + 1 THEN last ELSE g[n]]
  <2>2. ASSUME NEW n \in 0..m + 1
        PROVE  h[n] = IF n = 0 THEN r ELSE Char(f, h[n - 1], t[n])
    <3>1. CASE n = m + 1
      <4>1. n - 1 = m /\ m \in 0..m + 1 /\ m # m + 1 /\ n # 0
        BY <3>1
      <4> QED BY <3>1, <4>1
    <3>2. CASE n # m + 1
      <4>1. n \in 0..m /\ (n # 0 => n - 1 \in 0..m /\ n - 1 \in 0..m + 1 /\ n - 1 # m + 1)
        BY <3>2
      <4>2. g[n] = IF n = 0 THEN r ELSE Char(f, g[n - 1], t[n])
        BY <2>1, <4>1 DEF Steps
      <4> QED BY <3>2, <4>1, <4>2
    <3> QED BY <3>1, <3>2
  <2>3. h = [n \in 0..m + 1 |-> h[n]]
    OBVIOUS
  <2> HIDE DEF h
  <2>4. Steps(f, r, t, m + 1, h)
    BY <2>2, <2>3 DEF Steps
  <2> QED BY <2>4
<1> QED BY <1>1, <1>2, Induct

LEMMA StepsSame ==
  ASSUME NEW f, NEW r, NEW s, NEW t, NEW N \in Nat, NEW M \in Nat, N <= M, \A n \in 1..N : s[n] = t[n],
         NEW g, Steps(f, r, s, N, g), NEW h, Steps(f, r, t, M, h)
  PROVE  \A n \in 0..N : g[n] = h[n]
<1> DEFINE T == {m \in Nat : \A n \in 0..N : n <= m => g[n] = h[n]}
<1>1. 0 \in T
  <2>1. 0 \in 0..N /\ 0 \in 0..M
    OBVIOUS
  <2>2. g[0] = r /\ h[0] = r
    BY <2>1 DEF Steps
  <2>3. \A n \in 0..N : n <= 0 => n = 0
    OBVIOUS
  <2> QED BY <2>2, <2>3
<1>2. ASSUME NEW m \in T PROVE m + 1 \in T
  <2> SUFFICES ASSUME NEW n \in 0..N, n <= m + 1 PROVE g[n] = h[n]
    OBVIOUS
  <2>1. CASE n <= m
    BY <2>1
  <2>2. CASE n = m + 1
    <3>1. n \in 0..M /\ n # 0 /\ n \in 1..N /\ n - 1 \in 0..N /\ n - 1 <= m
      BY <2>2
    <3>2. g[n] = Char(f, g[n - 1], s[n])
      BY <3>1 DEF Steps
    <3>3. h[n] = Char(f, h[n - 1], t[n])
      BY <3>1 DEF Steps
    <3>4. g[n - 1] = h[n - 1] /\ s[n] = t[n]
      BY <3>1
    <3> QED BY <3>2, <3>3, <3>4
  <2> QED BY <2>1, <2>2
<1>3. T = Nat
  BY <1>1, <1>2, Induct
<1> QED BY <1>3

LEMMA TakenLast ==
  ASSUME NEW f, NEW r, NEW t, IsSeq(t)
  PROVE  \E g : Steps(f, r, t, Len(t), g) /\ Taken(f, r, t) = g[Len(t)]
<1> DEFINE g == CHOOSE g : Steps(f, r, t, Len(t), g)
<1>1. Steps(f, r, t, Len(t), g)
  BY StepsExist, SeqShape
<1>2. Taken(f, r, t) = g[Len(t)]
  BY DEF Taken
<1> QED BY <1>1, <1>2

LEMMA TakenNone == ASSUME NEW f, NEW r PROVE Taken(f, r, <<>>) = r
<1>1. PICK g : Steps(f, r, <<>>, 0, g) /\ Taken(f, r, <<>>) = g[0]
  BY TakenLast, EmptySeqIs
<1> QED BY <1>1 DEF Steps

LEMMA TakenAppend ==
  ASSUME NEW f, NEW r, NEW t, IsSeq(t), NEW c
  PROVE  Taken(f, r, Append(t, c)) = Char(f, Taken(f, r, t), c)
<1>1. PICK N : N = Len(t)
  OBVIOUS
<1>2. PICK u : u = Append(t, c)
  OBVIOUS
<1>3. N \in Nat /\ IsSeq(u) /\ Len(u) = N + 1 /\ u[N + 1] = c /\ \A n \in 1..N : t[n] = u[n]
  <2>1. IsSeq(u) /\ Len(u) = Len(t) + 1
    BY <1>2, AppendIs
  <2>2. u[Len(t) + 1] = c
    BY <1>2, AppendIs
  <2>3. \A n \in 1..Len(t) : u[n] = t[n]
    BY <1>2, AppendIs
  <2>4. Len(t) \in Nat
    BY SeqShape
  <2> QED BY <1>1, <2>1, <2>2, <2>3, <2>4
<1>4. PICK g : Steps(f, r, t, N, g) /\ Taken(f, r, t) = g[N]
  BY <1>1, TakenLast
<1>5. PICK h : Steps(f, r, u, N + 1, h) /\ Taken(f, r, u) = h[N + 1]
  BY <1>3, TakenLast
<1>6. h[N + 1] = Char(f, h[N], u[N + 1])
  <2>1. N + 1 \in 0..N + 1 /\ N + 1 # 0 /\ (N + 1) - 1 = N
    BY <1>3
  <2>2. h[N + 1] = Char(f, h[(N + 1) - 1], u[N + 1])
    BY <1>5, <2>1 DEF Steps
  <2> QED BY <2>1, <2>2
<1>7. g[N] = h[N]
  <2>1. N <= N + 1 /\ N + 1 \in Nat /\ N \in 0..N
    BY <1>3
  <2>2. \A n \in 1..N : t[n] = u[n]
    BY <1>3
  <2>3. \A n \in 0..N : g[n] = h[n]
    BY <1>3, <1>4, <1>5, <2>1, <2>2, StepsSame
  <2> QED BY <2>1, <2>3
<1> QED BY <1>2, <1>3, <1>4, <1>5, <1>6, <1>7

LEMMA TakenOne == ASSUME NEW f, NEW r, NEW c PROVE Taken(f, r, <<c>>) = Char(f, r, c)
<1>1. PICK e : e = <<>>
  OBVIOUS
<1>2. <<c>> = Append(e, c) /\ IsSeq(e)
  BY <1>1, EmptySeqIs
<1>3. Taken(f, r, Append(e, c)) = Char(f, Taken(f, r, e), c)
  BY <1>2, TakenAppend
<1>4. Taken(f, r, e) = r
  BY <1>1, TakenNone
<1> QED BY <1>2, <1>3, <1>4

LEMMA TakenConcat ==
  ASSUME NEW f, NEW r, NEW s, IsSeq(s), NEW t, IsSeq(t)
  PROVE  Taken(f, r, s \o t) = Taken(f, Taken(f, r, s), t)
<1> DEFINE u(k) == SubSeq(t, 1, k)
           T == {m \in Nat : m <= Len(t) => Taken(f, r, s \o u(m)) = Taken(f, Taken(f, r, s), u(m))}
<1>1. Len(t) \in Nat
  BY SeqShape
<1>2. 0 \in T
  <2>1. IsSeq(u(0)) /\ Len(u(0)) = 0
    BY <1>1, FirstIs
  <2>2. u(0) = <<>>
    BY <2>1, SeqShape
  <2>3. s \o u(0) = s
    BY <2>2, ConcatEmpty
  <2> HIDE DEF u
  <2> QED BY <2>2, <2>3, TakenNone
<1>3. ASSUME NEW m \in T PROVE m + 1 \in T
  <2> SUFFICES ASSUME m + 1 <= Len(t)
               PROVE  Taken(f, r, s \o u(m + 1)) = Taken(f, Taken(f, r, s), u(m + 1))
    OBVIOUS
  <2>1. m \in 0..Len(t) /\ m + 1 \in 0..Len(t) /\ (m + 1) - 1 = m /\ m + 1 > 0 /\ m <= Len(t)
    BY <1>1
  <2>2. Taken(f, r, s \o u(m)) = Taken(f, Taken(f, r, s), u(m))
    BY <2>1
  <2>3. IsSeq(u(m)) /\ u(m + 1) = Append(u(m), t[m + 1])
    BY <2>1, FirstIs
  <2> HIDE DEF u
  <2>4. PICK v : v = u(m)
    OBVIOUS
  <2>5. PICK w : w = s \o v
    OBVIOUS
  <2>6. PICK c : c = t[m + 1]
    OBVIOUS
  <2>7. IsSeq(v) /\ IsSeq(w) /\ u(m + 1) = Append(v, c)
    BY <2>3, <2>4, <2>5, <2>6, ConcatIs
  <2>8. s \o u(m + 1) = Append(w, c)
    <3>1. s \o Append(v, c) = Append(s \o v, c)
      BY <2>7, ConcatAppend
    <3> QED BY <2>5, <2>7, <3>1
  <2>9. Taken(f, r, Append(w, c)) = Char(f, Taken(f, r, w), c)
    BY <2>7, TakenAppend
  <2>10. Taken(f, Taken(f, r, s), Append(v, c)) = Char(f, Taken(f, Taken(f, r, s), v), c)
    BY <2>7, TakenAppend
  <2> QED BY <2>2, <2>4, <2>5, <2>7, <2>8, <2>9, <2>10
<1>4. T = Nat
  BY <1>2, <1>3, Induct
<1>5. Taken(f, r, s \o u(Len(t))) = Taken(f, Taken(f, r, s), u(Len(t)))
  <2> HIDE DEF u
  <2> QED BY <1>1, <1>4
<1>6. u(Len(t)) = t
  BY <1>1, FirstIs
<1> HIDE DEF u
<1> QED BY <1>5, <1>6

LEMMA TakenBad ==
  ASSUME NEW f, NEW r, r.mode = "bad", NEW t, IsSeq(t)
  PROVE  Taken(f, r, t) = r
<1>1. PICK g : Steps(f, r, t, Len(t), g) /\ Taken(f, r, t) = g[Len(t)]
  BY TakenLast
<1> DEFINE T == {m \in Nat : m <= Len(t) => g[m] = r}
<1>2. Len(t) \in Nat
  BY SeqShape
<1>3. 0 \in T
  BY <1>1, <1>2 DEF Steps
<1>4. ASSUME NEW m \in T PROVE m + 1 \in T
  <2> SUFFICES ASSUME m + 1 <= Len(t) PROVE g[m + 1] = r
    OBVIOUS
  <2>1. m + 1 \in 0..Len(t) /\ m + 1 # 0 /\ (m + 1) - 1 = m /\ m <= Len(t)
    BY <1>2
  <2>2. g[m] = r
    BY <2>1
  <2>3. g[m + 1] = Char(f, g[m], t[m + 1])
    BY <1>1, <2>1 DEF Steps
  <2> QED BY <2>2, <2>3 DEF Char
<1>5. T = Nat
  BY <1>3, <1>4, Induct
<1> QED BY <1>1, <1>2, <1>5
\* The reader of After goes line by line.
Lines(t) == (Len(t) + Width - 1) \div Width
LineOf(t, k) == SubSeq(t, Width * (k - 1) + 1, IF k < Lines(t) THEN Width * k ELSE Len(t))
LineSteps(f, r, t, N, g) ==
  g = [k \in 0..N |-> IF k = 0 THEN r
                      ELSE IF g[k - 1].mode = "bad" THEN g[k - 1] ELSE Taken(f, g[k - 1], LineOf(t, k))]
Until(t, k) == IF k < Lines(t) THEN Width * k ELSE Len(t)

\* The elements from a + 1 to b.
LEMMA MidIs ==
  ASSUME NEW t, IsSeq(t), NEW a \in 0..Len(t), NEW b \in a..Len(t)
  PROVE  /\ IsSeq(SubSeq(t, a + 1, b)) /\ Len(SubSeq(t, a + 1, b)) = b - a
         /\ \A n \in 1..b - a : SubSeq(t, a + 1, b)[n] = t[a + n]
<1>1. PICK S : t \in Seq(S)
  BY DEF IsSeq
<1>2. PICK N : N = Len(t)
  OBVIOUS
<1>3. N \in Nat /\ a \in Nat /\ b \in Nat /\ a <= b /\ b <= N
  BY <1>1, <1>2
<1>4. PICK v : v = SubSeq(t, a + 1, b)
  OBVIOUS
<1>5. v \in Seq(S)
  BY <1>1, <1>2, <1>3, <1>4
<1>6. Len(v) = b - a
  BY <1>1, <1>2, <1>3, <1>4
<1>7. ASSUME NEW n \in 1..b - a PROVE v[n] = t[a + n]
  BY <1>1, <1>2, <1>3, <1>4
<1> QED BY <1>4, <1>5, <1>6, <1>7 DEF IsSeq

LEMMA SubSeqJoin ==
  ASSUME NEW t, IsSeq(t), NEW a \in 0..Len(t), NEW b \in a..Len(t)
  PROVE  IsSeq(SubSeq(t, a + 1, b)) /\ SubSeq(t, 1, a) \o SubSeq(t, a + 1, b) = SubSeq(t, 1, b)
<1>1. PICK S : t \in Seq(S)
  BY DEF IsSeq
<1>2. PICK N : N = Len(t)
  OBVIOUS
<1>3. N \in Nat /\ a \in Nat /\ b \in Nat /\ a <= b /\ b <= N
  BY <1>1, <1>2
<1>4. PICK u : u = SubSeq(t, 1, a)
  OBVIOUS
<1>5. PICK v : v = SubSeq(t, a + 1, b)
  OBVIOUS
<1>6. PICK w : w = SubSeq(t, 1, b)
  OBVIOUS
<1>7. u \in Seq(S) /\ Len(u) = a /\ \A n \in 1..a : u[n] = t[n]
  BY <1>1, <1>2, <1>3, <1>4
<1>8. IsSeq(v) /\ Len(v) = b - a /\ \A n \in 1..b - a : v[n] = t[a + n]
  BY <1>5, MidIs
<1>9. w \in Seq(S) /\ Len(w) = b /\ \A n \in 1..b : w[n] = t[n]
  BY <1>1, <1>2, <1>3, <1>6
<1>10. IsSeq(u) /\ IsSeq(v) /\ IsSeq(w)
  BY <1>7, <1>8, <1>9 DEF IsSeq
<1>11. PICK x : x = u \o v
  OBVIOUS
<1>12. IsSeq(x) /\ Len(x) = Len(u) + Len(v)
  BY <1>10, <1>11, ConcatIs
<1>13. Len(x) = b
  BY <1>3, <1>7, <1>8, <1>12
<1>14. ASSUME NEW n \in 1..b PROVE x[n] = w[n]
  <2>1. CASE n \in 1..a
    <3>1. n \in 1..Len(u)
      BY <2>1, <1>7
    <3>2. (u \o v)[n] = u[n]
      BY <3>1, <1>10, ConcatIs
    <3> QED BY <2>1, <3>2, <1>7, <1>9, <1>11
  <2>2. CASE n > a
    <3>1. n - a \in 1..b - a /\ a + (n - a) = n
      BY <2>2, <1>3
    <3>2. n - a \in 1..Len(v)
      BY <3>1, <1>8
    <3>3. (u \o v)[Len(u) + (n - a)] = v[n - a]
      BY <3>2, <1>10, ConcatIs
    <3>4. v[n - a] = t[n]
      BY <3>1, <1>8
    <3>5. x[n] = t[n]
      BY <3>1, <3>3, <3>4, <1>7, <1>11
    <3> QED BY <3>5, <1>9
  <2> QED BY <2>1, <2>2, <1>3
<1>15. x = w
  BY <1>9, <1>10, <1>12, <1>13, <1>14, SeqSame
<1> QED BY <1>4, <1>5, <1>6, <1>10, <1>11, <1>15

LEMMA LinesAre ==
  ASSUME NEW t, IsSeq(t)
  PROVE  /\ Lines(t) \in Nat /\ Until(t, 0) = 0 /\ Until(t, Lines(t)) = Len(t)
         /\ \A k \in 1..Lines(t) :
              /\ Until(t, k - 1) \in 0..Len(t) /\ Until(t, k) \in Until(t, k - 1)..Len(t)
              /\ LineOf(t, k) = SubSeq(t, Until(t, k - 1) + 1, Until(t, k))
<1>1. PICK N : N = Len(t)
  OBVIOUS
<1>2. PICK L : L = Lines(t)
  OBVIOUS
<1>3. N \in Nat
  BY <1>1, SeqShape
<1>4. L = (N + 15) \div 16
  <2>1. N + Width - 1 = N + 15
    BY <1>3 DEF Width
  <2> QED BY <1>1, <1>2, <2>1 DEF Lines, Width
<1>5. L \in Nat /\ N <= 16 * L /\ 16 * L <= N + 15
  BY <1>3, <1>4
<1>6. Until(t, 0) = 0
  BY <1>1, <1>2, <1>3, <1>5 DEF Until, Width
<1>7. Until(t, L) = N
  BY <1>1, <1>2, <1>5 DEF Until
<1>8. ASSUME NEW k \in 1..L
      PROVE  /\ Until(t, k - 1) \in 0..N /\ Until(t, k) \in Until(t, k - 1)..N
             /\ LineOf(t, k) = SubSeq(t, Until(t, k - 1) + 1, Until(t, k))
  <2>1. Until(t, k - 1) = 16 * (k - 1)
    BY <1>2, <1>5 DEF Until, Width
  <2>2. k < L => Until(t, k) = 16 * k
    BY <1>2 DEF Until, Width
  <2>3. ~(k < L) => Until(t, k) = N
    BY <1>1, <1>2 DEF Until
  <2>4. LineOf(t, k) = SubSeq(t, Until(t, k - 1) + 1, Until(t, k))
    BY <2>1 DEF LineOf, Until, Width
  <2> QED BY <1>3, <1>5, <2>1, <2>2, <2>3, <2>4
<1> QED BY <1>1, <1>2, <1>5, <1>6, <1>7, <1>8

LEMMA AfterIs ==
  ASSUME NEW f, NEW r, NEW t, IsSeq(t)
  PROVE  After(f, r, t) = Taken(f, r, t)
<1>1. PICK L : L = Lines(t)
  OBVIOUS
<1>2. L \in Nat
  BY <1>1, LinesAre
<1> DEFINE h == [k \in 0..L |-> Taken(f, r, SubSeq(t, 1, Until(t, k)))]
           g == CHOOSE g : LineSteps(f, r, t, L, g)
<1>3. After(f, r, t) = g[L]
  BY <1>1 DEF After, LineSteps, Lines, LineOf, Taken, Steps
<1>4. h[0] = r
  <2>1. Until(t, 0) = 0 /\ 0 \in 0..Len(t)
    BY LinesAre, SeqShape
  <2>2. IsSeq(SubSeq(t, 1, 0)) /\ Len(SubSeq(t, 1, 0)) = 0
    BY <2>1, FirstIs
  <2>3. SubSeq(t, 1, 0) = <<>>
    BY <2>2, SeqShape
  <2>4. 0 \in 0..L
    BY <1>2
  <2> QED BY <2>1, <2>3, <2>4, TakenNone
<1>5. ASSUME NEW k \in 1..L
      PROVE  h[k] = IF h[k - 1].mode = "bad" THEN h[k - 1] ELSE Taken(f, h[k - 1], LineOf(t, k))
  <2>1. PICK a : a = Until(t, k - 1)
    OBVIOUS
  <2>2. PICK b : b = Until(t, k)
    OBVIOUS
  <2>3. a \in 0..Len(t) /\ b \in a..Len(t) /\ LineOf(t, k) = SubSeq(t, a + 1, b)
    BY <1>1, <2>1, <2>2, LinesAre
  <2>4. PICK u : u = SubSeq(t, 1, a)
    OBVIOUS
  <2>5. PICK v : v = LineOf(t, k)
    OBVIOUS
  <2>6. IsSeq(u) /\ IsSeq(v) /\ u \o v = SubSeq(t, 1, b)
    <3>1. IsSeq(SubSeq(t, a + 1, b)) /\ SubSeq(t, 1, a) \o SubSeq(t, a + 1, b) = SubSeq(t, 1, b)
      BY <2>3, SubSeqJoin
    <3>2. IsSeq(SubSeq(t, 1, a))
      BY <2>3, FirstIs
    <3> QED BY <2>3, <2>4, <2>5, <3>1, <3>2
  <2>7. k \in 0..L /\ k - 1 \in 0..L
    BY <1>2
  <2>8. h[k - 1] = Taken(f, r, u) /\ h[k] = Taken(f, r, u \o v)
    BY <2>1, <2>2, <2>4, <2>6, <2>7
  <2> HIDE DEF h
  <2>9. h[k] = Taken(f, h[k - 1], v)
    <3>1. IsSeq(u) /\ IsSeq(v)
      BY <2>6
    <3>2. Taken(f, r, u \o v) = Taken(f, Taken(f, r, u), v)
      BY <3>1, TakenConcat
    <3> QED BY <2>8, <3>2
  <2>10. h[k - 1].mode = "bad" => Taken(f, h[k - 1], v) = h[k - 1]
    BY <2>6, TakenBad
  <2> QED BY <2>5, <2>9, <2>10
<1>6. LineSteps(f, r, t, L, h)
  <2>1. h = [k \in 0..L |-> h[k]]
    OBVIOUS
  <2>2. ASSUME NEW k \in 0..L
        PROVE  h[k] = IF k = 0 THEN r
                      ELSE IF h[k - 1].mode = "bad" THEN h[k - 1] ELSE Taken(f, h[k - 1], LineOf(t, k))
    <3> HIDE DEF h
    <3>1. CASE k = 0
      BY <3>1, <1>4
    <3>2. CASE k # 0
      <4>1. k \in 1..L
        BY <1>2, <3>2
      <4> QED BY <3>2, <4>1, <1>5
    <3> QED BY <3>1, <3>2
  <2> HIDE DEF h
  <2> QED BY <2>1, <2>2 DEF LineSteps
<1>7. LineSteps(f, r, t, L, g)
  <2> HIDE DEF h
  <2> QED BY <1>6
<1>8. h[L] = Taken(f, r, t)
  <2>1. Until(t, L) = Len(t) /\ L \in 0..L /\ Len(t) \in 0..Len(t)
    BY <1>1, <1>2, LinesAre, SeqShape
  <2>2. SubSeq(t, 1, Len(t)) = t
    BY <2>1, FirstIs
  <2> QED BY <2>1, <2>2
<1> HIDE DEF g, h
<1> DEFINE T == {m \in Nat : m <= L => g[m] = h[m]}
<1>9. 0 \in T
  <2>1. 0 \in 0..L
    BY <1>2
  <2> QED BY <2>1, <1>4, <1>7 DEF LineSteps
<1>10. ASSUME NEW m \in T PROVE m + 1 \in T
  <2> SUFFICES ASSUME m + 1 <= L PROVE g[m + 1] = h[m + 1]
    OBVIOUS
  <2>1. m + 1 \in 0..L /\ m + 1 \in 1..L /\ m + 1 # 0 /\ (m + 1) - 1 = m /\ m <= L
    BY <1>2
  <2>2. g[m] = h[m]
    BY <2>1
  <2>3. g[m + 1] = IF g[m].mode = "bad" THEN g[m] ELSE Taken(f, g[m], LineOf(t, m + 1))
    BY <1>7, <2>1 DEF LineSteps
  <2>4. h[m + 1] = IF h[m].mode = "bad" THEN h[m] ELSE Taken(f, h[m], LineOf(t, m + 1))
    BY <1>5, <2>1
  <2> QED BY <2>2, <2>3, <2>4
<1>11. T = Nat
  BY <1>9, <1>10, Induct
<1>12. g[L] = h[L]
  BY <1>2, <1>11
<1> QED BY <1>3, <1>8, <1>12
-----------------------------------------------------------------------------
(* Reading CSV.                                                            *)

Special == {Quote, Comma, Newline}
Csv(lines, cells, cell, mode) == [lines |-> lines, cells |-> cells, cell |-> cell, mode |-> mode]
Unquoted == {"start", "bare", "closing"}

LEMMA CsvTakes ==
  ASSUME NEW L, NEW C, NEW x, NEW c
  PROVE  /\ \A m \in {"start", "bare"} :
              c \notin Special => Char("csv", Csv(L, C, x, m), c) = Csv(L, C, Append(x, c), "bare")
         /\ Char("csv", Csv(L, C, x, "start"), Quote) = Csv(L, C, x, "quoted")
         /\ c # Quote => Char("csv", Csv(L, C, x, "quoted"), c) = Csv(L, C, Append(x, c), "quoted")
         /\ Char("csv", Csv(L, C, x, "quoted"), Quote) = Csv(L, C, x, "closing")
         /\ Char("csv", Csv(L, C, x, "closing"), Quote) = Csv(L, C, Append(x, Quote), "quoted")
<1>1. Quote # Comma /\ Quote # Newline /\ Comma # Newline
  BY DEF Quote, Comma, Newline
<1>2. ASSUME NEW m \in {"start", "bare"}, c \notin Special
      PROVE  Char("csv", Csv(L, C, x, m), c) = Csv(L, C, Append(x, c), "bare")
  BY <1>2 DEF Char, CsvChar, Csv, Special
<1>3. Char("csv", Csv(L, C, x, "start"), Quote) = Csv(L, C, x, "quoted")
  BY <1>1 DEF Char, CsvChar, Csv
<1>4. ASSUME c # Quote PROVE Char("csv", Csv(L, C, x, "quoted"), c) = Csv(L, C, Append(x, c), "quoted")
  BY <1>4 DEF Char, CsvChar, Csv
<1>5. Char("csv", Csv(L, C, x, "quoted"), Quote) = Csv(L, C, x, "closing")
  BY DEF Char, CsvChar, Csv
<1>6. Char("csv", Csv(L, C, x, "closing"), Quote) = Csv(L, C, Append(x, Quote), "quoted")
  BY <1>1 DEF Char, CsvChar, Csv
<1> QED BY <1>2, <1>3, <1>4, <1>5, <1>6

LEMMA CsvEnds ==
  ASSUME NEW L, NEW C, NEW x, NEW m \in Unquoted
  PROVE  /\ Char("csv", Csv(L, C, x, m), Comma) = Csv(L, Append(C, x), <<>>, "start")
         /\ Char("csv", Csv(L, C, x, m), Newline) = Csv(Append(L, Append(C, x)), <<>>, <<>>, "start")
<1>1. Quote # Comma /\ Quote # Newline /\ Comma # Newline
  BY DEF Quote, Comma, Newline
<1>2. Char("csv", Csv(L, C, x, m), Comma) = Csv(L, Append(C, x), <<>>, "start")
  BY <1>1 DEF Char, CsvChar, Csv, EndCell, Unquoted
<1>3. Char("csv", Csv(L, C, x, m), Newline) = Csv(Append(L, Append(C, x)), <<>>, <<>>, "start")
  BY <1>1 DEF Char, CsvChar, Csv, EndCell, EndLine, Unquoted
<1> QED BY <1>2, <1>3

\* A text that stands for a cell.
CsvCell(text, value) ==
  /\ IsSeq(text)
  /\ \A L, C : \E m \in Unquoted :
       Taken("csv", Csv(L, C, <<>>, "start"), text) = Csv(L, C, value, m)
Plain(s) == \A n \in 1..Len(s) : s[n] \notin Special

LEMMA PlainCell ==
  ASSUME NEW s, IsSeq(s), Plain(s)
  PROVE  CsvCell(s, s)
<1> SUFFICES ASSUME NEW L, NEW C
             PROVE  \E m \in Unquoted :
                      Taken("csv", Csv(L, C, <<>>, "start"), s) = Csv(L, C, s, m)
  BY DEF CsvCell
<1>1. PICK r : r = Csv(L, C, <<>>, "start")
  OBVIOUS
<1> DEFINE u(k) == SubSeq(s, 1, k)
           T == {k \in Nat : k <= Len(s) =>
                   \E m \in {"start", "bare"} : Taken("csv", r, u(k)) = Csv(L, C, u(k), m)}
<1>2. Len(s) \in Nat
  BY SeqShape
<1>3. 0 \in T
  <2>1. IsSeq(u(0)) /\ Len(u(0)) = 0
    BY <1>2, FirstIs
  <2>2. u(0) = <<>>
    BY <2>1, SeqShape
  <2> HIDE DEF u
  <2>3. Taken("csv", r, u(0)) = Csv(L, C, u(0), "start")
    BY <1>1, <2>2, TakenNone
  <2> QED BY <2>3
<1>4. ASSUME NEW k \in T PROVE k + 1 \in T
  <2> SUFFICES ASSUME k + 1 <= Len(s)
               PROVE  \E m \in {"start", "bare"} : Taken("csv", r, u(k + 1)) = Csv(L, C, u(k + 1), m)
    OBVIOUS
  <2>1. k + 1 \in 0..Len(s) /\ k \in 0..Len(s) /\ k + 1 > 0 /\ (k + 1) - 1 = k /\ k + 1 \in 1..Len(s)
        /\ k <= Len(s)
    BY <1>2
  <2>2. PICK c : c = s[k + 1]
    OBVIOUS
  <2>3. IsSeq(u(k)) /\ u(k + 1) = Append(u(k), c)
    BY <2>1, <2>2, FirstIs
  <2>4. c \notin Special
    BY <2>1, <2>2 DEF Plain
  <2>5. PICK m \in {"start", "bare"} : Taken("csv", r, u(k)) = Csv(L, C, u(k), m)
    BY <2>1
  <2> HIDE DEF u
  <2>6. Taken("csv", r, Append(u(k), c)) = Char("csv", Csv(L, C, u(k), m), c)
    BY <2>3, <2>5, TakenAppend
  <2>7. Char("csv", Csv(L, C, u(k), m), c) = Csv(L, C, Append(u(k), c), "bare")
    BY <2>4, CsvTakes
  <2> QED BY <2>3, <2>6, <2>7
<1>5. T = Nat
  BY <1>3, <1>4, Induct
<1>6. u(Len(s)) = s
  BY <1>2, FirstIs
<1>7. \E m \in {"start", "bare"} : Taken("csv", r, u(Len(s))) = Csv(L, C, u(Len(s)), m)
  BY <1>2, <1>5
<1> HIDE DEF u
<1> QED BY <1>1, <1>6, <1>7 DEF Unquoted

\* CsvString's loop over the characters.
Doubled(s) == [n \in 1..Len(s) |-> IF s[n] = Quote THEN <<Quote, s[n]>> ELSE <<s[n]>>]

LEMMA DoubledIs ==
  ASSUME NEW s, IsSeq(s)
  PROVE  /\ IsSeqs(Doubled(s)) /\ Len(Doubled(s)) = Len(s)
         /\ CsvString(s) = IF Plain(s) THEN s ELSE <<Quote>> \o FlattenSeq(Doubled(s)) \o <<Quote>>
<1>1. Len(s) \in Nat /\ DOMAIN s = 1..Len(s)
  BY SeqShape
<1>2. IsSeq(Doubled(s)) /\ Len(Doubled(s)) = Len(s)
  <2>1. PICK f : f = Doubled(s)
    OBVIOUS
  <2>2. DOMAIN f = 1..Len(s) /\ f = [n \in 1..Len(s) |-> f[n]]
    BY <2>1 DEF Doubled
  <2> QED BY <1>1, <2>1, <2>2, SeqMade
<1>3. ASSUME NEW n \in 1..Len(s) PROVE IsSeq(Doubled(s)[n])
  <2>1. IsSeq(<<Quote, s[n]>>)
    <3>1. <<Quote, s[n]>> \in Seq({Quote, s[n]})
      OBVIOUS
    <3> QED BY <3>1 DEF IsSeq
  <2>2. IsSeq(<<s[n]>>)
    BY OneSeqIs
  <2> QED BY <2>1, <2>2 DEF Doubled
<1>4. Chars(s) \cap {Comma, Quote, Newline} = {} <=> Plain(s)
  BY <1>1 DEF Chars, Plain, Special
<1>5. FlattenSeq(Doubled(s)) = Each(s, LAMBDA c : IF c = Quote THEN <<Quote, c>> ELSE <<c>>)
  BY <1>1 DEF Each, Doubled
<1>6. CsvString(s) = IF Plain(s) THEN s ELSE <<Quote>> \o FlattenSeq(Doubled(s)) \o <<Quote>>
  BY <1>4, <1>5 DEF CsvString
<1> QED BY <1>2, <1>3, <1>6 DEF IsSeqs

LEMMA QuotedTaken ==
  ASSUME NEW s, IsSeq(s), NEW L, NEW C
  PROVE  Taken("csv", Csv(L, C, <<>>, "quoted"), FlattenSeq(Doubled(s))) = Csv(L, C, s, "quoted")
<1>1. PICK d : d = Doubled(s)
  OBVIOUS
<1>2. IsSeqs(d) /\ Len(d) = Len(s) /\ Len(s) \in Nat
  BY <1>1, DoubledIs, SeqShape
<1>3. PICK r : r = Csv(L, C, <<>>, "quoted")
  OBVIOUS
<1> DEFINE u(k) == SubSeq(s, 1, k)
           T == {k \in Nat : k <= Len(s) => Taken("csv", r, Upto(d, k)) = Csv(L, C, u(k), "quoted")}
<1>4. 0 \in T
  <2>1. IsSeq(u(0)) /\ Len(u(0)) = 0
    BY <1>2, FirstIs
  <2>2. u(0) = <<>>
    BY <2>1, SeqShape
  <2>3. Upto(d, 0) = <<>>
    BY <1>2, UptoIs
  <2> HIDE DEF u
  <2> QED BY <1>3, <2>2, <2>3, TakenNone
<1>5. ASSUME NEW k \in T PROVE k + 1 \in T
  <2> SUFFICES ASSUME k + 1 <= Len(s)
               PROVE  Taken("csv", r, Upto(d, k + 1)) = Csv(L, C, u(k + 1), "quoted")
    OBVIOUS
  <2>1. k + 1 \in 0..Len(s) /\ k \in 0..Len(s) /\ k + 1 > 0 /\ (k + 1) - 1 = k /\ k + 1 \in 1..Len(s)
        /\ k <= Len(s)
    BY <1>2
  <2>2. PICK c : c = s[k + 1]
    OBVIOUS
  <2>3. IsSeq(u(k)) /\ u(k + 1) = Append(u(k), c)
    BY <2>1, <2>2, FirstIs
  <2>4. Taken("csv", r, Upto(d, k)) = Csv(L, C, u(k), "quoted")
    BY <2>1
  <2> HIDE DEF u
  <2>5. d[k + 1] = IF c = Quote THEN <<Quote, c>> ELSE <<c>>
    BY <1>1, <2>1, <2>2 DEF Doubled
  <2>6. PICK e : e = d[k + 1]
    OBVIOUS
  <2>7. IsSeq(e) /\ IsSeq(Upto(d, k)) /\ Upto(d, k + 1) = Upto(d, k) \o e
    BY <1>2, <2>1, <2>6, UptoIs DEF IsSeqs
  <2>8. Taken("csv", r, Upto(d, k) \o e) = Taken("csv", Csv(L, C, u(k), "quoted"), e)
    BY <2>4, <2>7, TakenConcat
  <2>9. Taken("csv", Csv(L, C, u(k), "quoted"), e) = Csv(L, C, Append(u(k), c), "quoted")
    <3>1. CASE c = Quote
      <4>1. PICK o : o = <<Quote>>
        OBVIOUS
      <4>2. e = Append(o, Quote) /\ IsSeq(o)
        BY <2>5, <2>6, <3>1, <4>1, OneSeqIs
      <4>3. Taken("csv", Csv(L, C, u(k), "quoted"), Append(o, Quote))
              = Char("csv", Taken("csv", Csv(L, C, u(k), "quoted"), o), Quote)
        BY <4>2, TakenAppend
      <4>4. Taken("csv", Csv(L, C, u(k), "quoted"), o) = Csv(L, C, u(k), "closing")
        BY <4>1, TakenOne, CsvTakes
      <4> QED BY <3>1, <4>2, <4>3, <4>4, CsvTakes
    <3>2. CASE c # Quote
      <4>1. e = <<c>>
        BY <2>5, <2>6, <3>2
      <4> QED BY <3>2, <4>1, TakenOne, CsvTakes
    <3> QED BY <3>1, <3>2
  <2> QED BY <2>3, <2>6, <2>7, <2>8, <2>9
<1>6. T = Nat
  BY <1>4, <1>5, Induct
<1>7. u(Len(s)) = s
  BY <1>2, FirstIs
<1>8. Upto(d, Len(s)) = FlattenSeq(d)
  BY <1>2, UptoIs
<1>9. Taken("csv", r, Upto(d, Len(s))) = Csv(L, C, u(Len(s)), "quoted")
  BY <1>2, <1>6
<1> HIDE DEF u
<1> QED BY <1>1, <1>3, <1>7, <1>8, <1>9

\* What CsvString writes reads back as what it was given.
LEMMA CsvStringCell ==
  ASSUME NEW s, IsSeq(s)
  PROVE  CsvCell(CsvString(s), s)
<1>1. CASE Plain(s)
  BY <1>1, PlainCell, DoubledIs
<1>2. CASE ~Plain(s)
  <2>1. PICK d : d = FlattenSeq(Doubled(s))
    OBVIOUS
  <2>2. PICK q : q = <<Quote>>
    OBVIOUS
  <2>3. IsSeq(d) /\ IsSeq(q)
    <3>1. IsSeq(q)
      BY <2>2, OneSeqIs
    <3>2. IsSeqs(Doubled(s)) /\ Len(Doubled(s)) \in Nat
      BY DoubledIs, SeqShape
    <3>3. Len(Doubled(s)) \in 0..Len(Doubled(s))
      BY <3>2
    <3>4. IsSeq(Upto(Doubled(s), Len(Doubled(s)))) /\ Upto(Doubled(s), Len(Doubled(s))) = FlattenSeq(Doubled(s))
      BY <3>2, <3>3, UptoIs
    <3> QED BY <2>1, <3>1, <3>4
  <2>4. CsvString(s) = (q \o d) \o q
    BY <1>2, <2>1, <2>2, DoubledIs
  <2>5. IsSeq(q \o d) /\ IsSeq((q \o d) \o q)
    BY <2>3, ConcatIs
  <2>6. ASSUME NEW L, NEW C
        PROVE  Taken("csv", Csv(L, C, <<>>, "start"), (q \o d) \o q) = Csv(L, C, s, "closing")
    <3>1. Taken("csv", Csv(L, C, <<>>, "start"), q) = Csv(L, C, <<>>, "quoted")
      BY <2>2, TakenOne, CsvTakes
    <3>2. Taken("csv", Csv(L, C, <<>>, "start"), q \o d) = Taken("csv", Csv(L, C, <<>>, "quoted"), d)
      BY <2>3, <3>1, TakenConcat
    <3>3. Taken("csv", Csv(L, C, <<>>, "quoted"), d) = Csv(L, C, s, "quoted")
      BY <2>1, QuotedTaken
    <3>4. Taken("csv", Csv(L, C, <<>>, "start"), (q \o d) \o q) = Taken("csv", Csv(L, C, s, "quoted"), q)
      BY <2>3, <2>5, <3>2, <3>3, TakenConcat
    <3>5. Taken("csv", Csv(L, C, s, "quoted"), q) = Csv(L, C, s, "closing")
      BY <2>2, TakenOne, CsvTakes
    <3> QED BY <3>4, <3>5
  <2> QED BY <2>4, <2>5, <2>6 DEF CsvCell, Unquoted
<1> QED BY <1>1, <1>2
\* Sequences with commas between them.
Separated(texts) == [n \in 1..Len(texts) |-> IF n = 1 THEN texts[n] ELSE <<Comma>> \o texts[n]]

LEMMA JoinedIs ==
  ASSUME NEW texts, IsSeqs(texts)
  PROVE  /\ IsSeqs(Separated(texts)) /\ Len(Separated(texts)) = Len(texts)
         /\ Joined(texts, <<Comma>>) = FlattenSeq(Separated(texts))
<1>1. Len(texts) \in Nat /\ DOMAIN texts = 1..Len(texts)
  BY SeqShape DEF IsSeqs
<1>2. PICK f : f = Separated(texts)
  OBVIOUS
<1>3. DOMAIN f = 1..Len(texts) /\ f = [n \in 1..Len(texts) |-> f[n]]
  BY <1>2 DEF Separated
<1>4. IsSeq(f) /\ Len(f) = Len(texts)
  BY <1>1, <1>3, SeqMade
<1>5. ASSUME NEW n \in 1..Len(texts) PROVE IsSeq(f[n])
  <2>1. PICK c : c = <<Comma>>
    OBVIOUS
  <2>2. PICK t : t = texts[n]
    OBVIOUS
  <2>3. IsSeq(c) /\ IsSeq(t)
    BY <2>1, <2>2, OneSeqIs DEF IsSeqs
  <2>4. f[n] = IF n = 1 THEN t ELSE c \o t
    BY <1>2, <2>1, <2>2 DEF Separated
  <2> QED BY <2>3, <2>4, ConcatIs
<1>6. Joined(texts, <<Comma>>) = FlattenSeq(f)
  BY <1>1, <1>2 DEF Joined, Separated
<1> QED BY <1>2, <1>4, <1>5, <1>6 DEF IsSeqs

CsvCells(texts, values) ==
  /\ IsSeq(texts) /\ IsSeq(values) /\ Len(texts) = Len(values)
  /\ \A n \in 1..Len(texts) : CsvCell(texts[n], values[n])

\* After the first k texts, a reader waits for the end of the k-th cell.
CellsRead(texts, values, L, k) ==
  \E m \in Unquoted : Taken("csv", Csv(L, <<>>, <<>>, "start"), Upto(Separated(texts), k))
                        = Csv(L, SubSeq(values, 1, k - 1), values[k], m)

LEMMA CellsTaken ==
  ASSUME NEW texts, NEW values, CsvCells(texts, values), NEW L, NEW k \in 1..Len(texts)
  PROVE  CellsRead(texts, values, L, k)
<1>1. /\ IsSeq(texts) /\ IsSeq(values) /\ Len(texts) = Len(values) /\ Len(texts) \in Nat
      /\ \A n \in 1..Len(texts) : CsvCell(texts[n], values[n])
  BY SeqShape DEF CsvCells
<1>2. PICK r : r = Csv(L, <<>>, <<>>, "start")
  OBVIOUS
<1>3. PICK d : d = Separated(texts)
  OBVIOUS
<1>4. IsSeqs(texts)
  BY <1>1 DEF CsvCell, IsSeqs
<1>5. IsSeqs(d) /\ Len(d) = Len(texts)
  BY <1>3, <1>4, JoinedIs
<1> DEFINE u(j) == SubSeq(values, 1, j)
           T == {j \in Nat : j + 1 <= Len(texts) =>
                   \E m \in Unquoted : Taken("csv", r, Upto(d, j + 1)) = Csv(L, u(j), values[j + 1], m)}
<1>6. 0 \in T
  <2> SUFFICES ASSUME 1 <= Len(texts)
               PROVE  \E m \in Unquoted : Taken("csv", r, Upto(d, 1)) = Csv(L, u(0), values[1], m)
    OBVIOUS
  <2>1. 0 \in 0..Len(values) /\ 1 \in 1..Len(texts) /\ 1 \in 1..Len(d) /\ 1 - 1 = 0
    BY <1>1, <1>5
  <2>2. IsSeq(u(0)) /\ Len(u(0)) = 0
    BY <1>1, <2>1, FirstIs
  <2>3. u(0) = <<>>
    BY <2>2, SeqShape
  <2> HIDE DEF u
  <2>4. Upto(d, 1) = d[1]
    <3>1. Upto(d, 1) = IF 1 = 1 THEN d[1] ELSE Upto(d, 0) \o d[1]
      BY <1>5, <2>1, UptoStep
    <3> QED BY <3>1
  <2>5. d[1] = texts[1]
    BY <1>3, <2>1 DEF Separated
  <2>6. CsvCell(texts[1], values[1])
    BY <1>1, <2>1
  <2> QED BY <1>2, <2>3, <2>4, <2>5, <2>6 DEF CsvCell
<1>7. ASSUME NEW j \in T PROVE j + 1 \in T
  <2> SUFFICES ASSUME (j + 1) + 1 <= Len(texts)
               PROVE  \E m \in Unquoted :
                        Taken("csv", r, Upto(d, (j + 1) + 1)) = Csv(L, u(j + 1), values[(j + 1) + 1], m)
    OBVIOUS
  <2>1. PICK i : i = j + 1
    OBVIOUS
  <2>2. /\ i \in 0..Len(values) /\ i > 0 /\ i - 1 = j /\ i + 1 \in 1..Len(d) /\ (i + 1) - 1 = i /\ i <= Len(texts)
        /\ i \in 0..Len(d) /\ i + 1 # 1 /\ i + 1 \in 1..Len(texts) /\ i \in Nat /\ j + 1 <= Len(texts)
    BY <1>1, <1>5, <2>1
  <2>3. IsSeq(u(i)) /\ u(i) = Append(u(j), values[i])
    BY <1>1, <2>2, FirstIs
  <2>4. PICK m \in Unquoted : Taken("csv", r, Upto(d, i)) = Csv(L, u(j), values[i], m)
    BY <2>1, <2>2
  <2> HIDE DEF u
  <2>5. PICK t : t = texts[i + 1]
    OBVIOUS
  <2>6. PICK c : c = <<Comma>>
    OBVIOUS
  <2>7. CsvCell(t, values[i + 1]) /\ IsSeq(t) /\ IsSeq(c)
    BY <1>1, <2>2, <2>5, <2>6, OneSeqIs DEF CsvCell
  <2>8. d[i + 1] = c \o t
    BY <1>3, <2>2, <2>5, <2>6 DEF Separated
  <2>9. PICK p : p = Upto(d, i)
    OBVIOUS
  <2>10. IsSeq(p) /\ Upto(d, i + 1) = p \o (c \o t)
    <3>1. IsSeq(Upto(d, i))
      BY <1>5, <2>2, UptoIs
    <3>2. Upto(d, i + 1) = Upto(d, i) \o d[i + 1]
      BY <1>5, <2>2, UptoIs
    <3> QED BY <2>8, <2>9, <3>1, <3>2
  <2>11. Taken("csv", r, p \o (c \o t)) = Taken("csv", Csv(L, u(j), values[i], m), c \o t)
    <3>1. IsSeq(c \o t)
      BY <2>7, ConcatIs
    <3>2. Taken("csv", r, p \o (c \o t)) = Taken("csv", Taken("csv", r, p), c \o t)
      BY <2>10, <3>1, TakenConcat
    <3> QED BY <2>4, <2>9, <3>2
  <2>12. Taken("csv", Csv(L, u(j), values[i], m), c \o t) = Taken("csv", Csv(L, u(i), <<>>, "start"), t)
    <3>1. Taken("csv", Csv(L, u(j), values[i], m), c \o t)
            = Taken("csv", Taken("csv", Csv(L, u(j), values[i], m), c), t)
      BY <2>7, TakenConcat
    <3>2. Taken("csv", Csv(L, u(j), values[i], m), c) = Char("csv", Csv(L, u(j), values[i], m), Comma)
      BY <2>6, TakenOne
    <3>3. Char("csv", Csv(L, u(j), values[i], m), Comma) = Csv(L, Append(u(j), values[i]), <<>>, "start")
      BY CsvEnds
    <3> QED BY <2>3, <3>1, <3>2, <3>3
  <2>13. PICK o \in Unquoted : Taken("csv", Csv(L, u(i), <<>>, "start"), t) = Csv(L, u(i), values[i + 1], o)
    BY <2>7 DEF CsvCell
  <2>14. Taken("csv", r, Upto(d, i + 1)) = Csv(L, u(i), values[i + 1], o)
    BY <2>10, <2>11, <2>12, <2>13
  <2> QED BY <2>1, <2>14
<1>8. T = Nat
  BY <1>6, <1>7, Induct
<1>9. k - 1 \in Nat /\ (k - 1) + 1 = k /\ (k - 1) + 1 <= Len(texts)
  BY <1>1
<1>10. k - 1 \in T
  BY <1>8, <1>9
<1>11. \E m \in Unquoted : Taken("csv", r, Upto(d, k)) = Csv(L, u(k - 1), values[k], m)
  <2> HIDE DEF u
  <2>1. \E m \in Unquoted :
          Taken("csv", r, Upto(d, (k - 1) + 1)) = Csv(L, u(k - 1), values[(k - 1) + 1], m)
    BY <1>9, <1>10
  <2> QED BY <1>9, <2>1
<1> QED BY <1>2, <1>3, <1>11 DEF CellsRead

\* A text that stands for rows.
CsvRows(text, rows) ==
  /\ IsSeq(text) /\ IsSeq(rows)
  /\ \A L : IsSeq(L) => Taken("csv", Csv(L, <<>>, <<>>, "start"), text) = Csv(L \o rows, <<>>, <<>>, "start")

LEMMA LineRow ==
  ASSUME NEW texts, NEW values, CsvCells(texts, values), Len(texts) > 0
  PROVE  CsvRows(Line(texts), <<values>>)
<1>1. /\ IsSeq(texts) /\ IsSeq(values) /\ Len(texts) = Len(values) /\ Len(texts) \in Nat
      /\ \A n \in 1..Len(texts) : CsvCell(texts[n], values[n])
  BY SeqShape DEF CsvCells
<1>2. IsSeqs(texts)
  BY <1>1 DEF CsvCell, IsSeqs
<1>3. PICK N : N = Len(texts)
  OBVIOUS
<1>4. N \in 1..Len(texts) /\ N \in 0..Len(values) /\ N > 0
  BY <1>1, <1>3
<1>5. PICK d : d = Separated(texts)
  OBVIOUS
<1>6. PICK j : j = FlattenSeq(d)
  OBVIOUS
<1>7. PICK e : e = <<Newline>>
  OBVIOUS
<1>8. IsSeq(j) /\ IsSeq(e) /\ j = Upto(d, N) /\ Line(texts) = j \o e
  <2>1. IsSeqs(d) /\ Len(d) = Len(texts) /\ Joined(texts, <<Comma>>) = FlattenSeq(d)
    BY <1>2, <1>5, JoinedIs
  <2>2. Upto(d, Len(d)) = FlattenSeq(d) /\ IsSeq(FlattenSeq(d))
    BY <2>1, UptoIs
  <2>3. IsSeq(e)
    BY <1>7, OneSeqIs
  <2> QED BY <1>3, <1>6, <1>7, <2>1, <2>2, <2>3 DEF Line
<1>9. IsSeq(Line(texts))
  BY <1>8, ConcatIs
<1>10. PICK o : o = <<values>>
  OBVIOUS
<1>11. IsSeq(o)
  BY <1>10, OneSeqIs
<1>12. ASSUME NEW L, IsSeq(L)
       PROVE  Taken("csv", Csv(L, <<>>, <<>>, "start"), Line(texts)) = Csv(L \o o, <<>>, <<>>, "start")
  <2>1. PICK r : r = Csv(L, <<>>, <<>>, "start")
    OBVIOUS
  <2>2. PICK v : v = SubSeq(values, 1, N - 1)
    OBVIOUS
  <2>3. PICK m \in Unquoted : Taken("csv", r, j) = Csv(L, v, values[N], m)
    <3>1. N \in 1..Len(texts)
      BY <1>4
    <3>2. CellsRead(texts, values, L, N)
      BY <3>1, CellsTaken
    <3> QED BY <1>5, <1>8, <2>1, <2>2, <3>2 DEF CellsRead
  <2>4. Taken("csv", r, j \o e) = Taken("csv", Csv(L, v, values[N], m), e)
    BY <1>8, <2>3, TakenConcat
  <2>5. Taken("csv", Csv(L, v, values[N], m), e) = Char("csv", Csv(L, v, values[N], m), Newline)
    BY <1>7, TakenOne
  <2>6. Char("csv", Csv(L, v, values[N], m), Newline) = Csv(Append(L, Append(v, values[N])), <<>>, <<>>, "start")
    BY CsvEnds
  <2>7. Append(v, values[N]) = values
    <3>1. N = Len(values)
      BY <1>1, <1>3
    <3>2. SubSeq(values, 1, N) = values
      BY <1>1, <1>4, <3>1, FirstIs
    <3>3. SubSeq(values, 1, N) = Append(SubSeq(values, 1, N - 1), values[N])
      BY <1>1, <1>4, FirstIs
    <3> QED BY <2>2, <3>2, <3>3
  <2>8. Append(L, values) = L \o o
    BY <1>10, <1>12, AppendIs
  <2> QED BY <1>8, <2>1, <2>4, <2>5, <2>6, <2>7, <2>8
<1> QED BY <1>9, <1>10, <1>11, <1>12 DEF CsvRows

LEMMA NoRows == CsvRows(<<>>, <<>>)
<1>1. PICK e : e = <<>>
  OBVIOUS
<1>2. ASSUME NEW L, IsSeq(L)
      PROVE  Taken("csv", Csv(L, <<>>, <<>>, "start"), e) = Csv(L \o e, <<>>, <<>>, "start")
  <2>1. Taken("csv", Csv(L, <<>>, <<>>, "start"), e) = Csv(L, <<>>, <<>>, "start")
    BY <1>1, TakenNone
  <2>2. L \o e = L
    BY <1>1, <1>2, ConcatEmpty
  <2> QED BY <2>1, <2>2
<1> QED BY <1>1, <1>2, EmptySeqIs DEF CsvRows

LEMMA RowsConcat ==
  ASSUME NEW s, NEW t, NEW a, NEW b, CsvRows(s, a), CsvRows(t, b)
  PROVE  CsvRows(s \o t, a \o b)
<1>1. IsSeq(s) /\ IsSeq(t) /\ IsSeq(a) /\ IsSeq(b)
  BY DEF CsvRows
<1>2. IsSeq(s \o t) /\ IsSeq(a \o b)
  BY <1>1, ConcatIs
<1>3. ASSUME NEW L, IsSeq(L)
      PROVE  Taken("csv", Csv(L, <<>>, <<>>, "start"), s \o t) = Csv(L \o (a \o b), <<>>, <<>>, "start")
  <2>1. PICK r : r = Csv(L, <<>>, <<>>, "start")
    OBVIOUS
  <2>2. Taken("csv", r, s) = Csv(L \o a, <<>>, <<>>, "start")
    BY <1>3, <2>1 DEF CsvRows
  <2>3. IsSeq(L \o a)
    BY <1>1, <1>3, ConcatIs
  <2>4. Taken("csv", r, s \o t) = Taken("csv", Csv(L \o a, <<>>, <<>>, "start"), t)
    BY <1>1, <2>2, TakenConcat
  <2>5. Taken("csv", Csv(L \o a, <<>>, <<>>, "start"), t) = Csv((L \o a) \o b, <<>>, <<>>, "start")
    BY <2>3 DEF CsvRows
  <2>6. (L \o a) \o b = L \o (a \o b)
    BY <1>1, <1>3, ConcatAssoc
  <2> QED BY <2>1, <2>4, <2>5, <2>6
<1> QED BY <1>2, <1>3 DEF CsvRows

LEMMA RowsFlatten ==
  ASSUME NEW lines, NEW rows, IsSeq(lines), IsSeq(rows), Len(lines) = Len(rows),
         \A n \in 1..Len(lines) : CsvRows(lines[n], <<rows[n]>>)
  PROVE  CsvRows(FlattenSeq(lines), rows)
<1>1. IsSeqs(lines) /\ Len(lines) \in Nat
  BY SeqShape DEF CsvRows, IsSeqs
<1> DEFINE u(k) == SubSeq(rows, 1, k)
           T == {k \in Nat : k <= Len(lines) => CsvRows(Upto(lines, k), u(k))}
<1>2. 0 \in T
  <2>1. IsSeq(u(0)) /\ Len(u(0)) = 0
    BY <1>1, FirstIs
  <2>2. u(0) = <<>>
    BY <2>1, SeqShape
  <2>3. Upto(lines, 0) = <<>>
    BY <1>1, UptoIs
  <2> HIDE DEF u
  <2> QED BY <2>2, <2>3, NoRows
<1>3. ASSUME NEW k \in T PROVE k + 1 \in T
  <2> SUFFICES ASSUME k + 1 <= Len(lines) PROVE CsvRows(Upto(lines, k + 1), u(k + 1))
    OBVIOUS
  <2>1. k + 1 \in 0..Len(rows) /\ k + 1 \in 1..Len(lines) /\ (k + 1) - 1 = k /\ k + 1 > 0 /\ k <= Len(lines)
        /\ k \in 0..Len(rows)
    BY <1>1
  <2>2. CsvRows(Upto(lines, k), u(k))
    BY <2>1
  <2>3. u(k + 1) = Append(u(k), rows[k + 1]) /\ IsSeq(u(k))
    BY <2>1, FirstIs
  <2> HIDE DEF u
  <2>4. PICK o : o = <<rows[k + 1]>>
    OBVIOUS
  <2>5. u(k + 1) = u(k) \o o
    BY <2>3, <2>4, AppendIs
  <2>6. CsvRows(lines[k + 1], o)
    BY <2>1, <2>4
  <2>7. Upto(lines, k + 1) = Upto(lines, k) \o lines[k + 1]
    BY <1>1, <2>1, UptoIs
  <2> QED BY <2>2, <2>5, <2>6, <2>7, RowsConcat
<1>4. T = Nat
  BY <1>2, <1>3, Induct
<1>5. u(Len(lines)) = rows
  BY <1>1, FirstIs
<1>6. Upto(lines, Len(lines)) = FlattenSeq(lines)
  BY <1>1, UptoIs
<1>7. CsvRows(Upto(lines, Len(lines)), u(Len(lines)))
  BY <1>1, <1>4
<1> HIDE DEF u
<1> QED BY <1>5, <1>6, <1>7

\* All but one are empty.
LEMMA FlattenOne ==
  ASSUME NEW s, IsSeqs(s), NEW i \in 1..Len(s), \A n \in 1..Len(s) : n # i => s[n] = <<>>
  PROVE  FlattenSeq(s) = s[i]
<1>1. Len(s) \in Nat /\ IsSeq(s[i]) /\ i \in Nat /\ i <= Len(s) /\ i # 0
  BY SeqShape DEF IsSeqs
<1> DEFINE Now(k) == IF k < i THEN <<>> ELSE s[i]
           T == {k \in Nat : k <= Len(s) => Upto(s, k) = Now(k)}
<1>2. 0 \in T
  <2>1. Upto(s, 0) = <<>>
    BY UptoIs
  <2> QED BY <1>1, <2>1
<1>3. ASSUME NEW k \in T PROVE k + 1 \in T
  <2> SUFFICES ASSUME k + 1 <= Len(s) PROVE Upto(s, k + 1) = Now(k + 1)
    OBVIOUS
  <2>1. k + 1 \in 1..Len(s) /\ (k + 1) - 1 = k /\ k <= Len(s)
    BY <1>1
  <2>2. Upto(s, k + 1) = Now(k) \o s[k + 1]
    <3>1. Upto(s, k) = Now(k)
      BY <2>1
    <3>2. Upto(s, k + 1) = Upto(s, k) \o s[k + 1]
      BY <2>1, UptoIs
    <3> QED BY <3>1, <3>2
  <2>3. CASE k + 1 = i
    <3>1. Now(k) = <<>> /\ Now(k + 1) = s[i]
      BY <1>1, <2>3
    <3> HIDE DEF Now
    <3> QED BY <1>1, <2>2, <2>3, <3>1, ConcatEmpty
  <2>4. CASE k + 1 # i
    <3>1. Now(k + 1) = Now(k)
      BY <1>1, <2>4
    <3>2. s[k + 1] = <<>>
      BY <2>1, <2>4
    <3>3. IsSeq(Now(k))
      BY <1>1, EmptySeqIs
    <3> HIDE DEF Now
    <3> QED BY <2>2, <3>1, <3>2, <3>3, ConcatEmpty
  <2> QED BY <2>3, <2>4
<1>4. T = Nat
  BY <1>2, <1>3, Induct
<1>5. Now(Len(s)) = s[i]
  BY <1>1
<1>6. Upto(s, Len(s)) = FlattenSeq(s)
  BY UptoIs
<1>7. Upto(s, Len(s)) = Now(Len(s))
  BY <1>1, <1>4
<1> HIDE DEF Now
<1> QED BY <1>5, <1>6, <1>7
-----------------------------------------------------------------------------
(* The catalog's texts.                                                    *)

\* Sequences without any of the characters in Z.
Avoids(t, Z) == IsSeq(t) /\ \A n \in 1..Len(t) : t[n] \notin Z

\* The names and docs that plugins and parameters give are such.
TextsAvoid(Z) ==
  /\ Avoids(Dot, Z)
  /\ \A name \in DOMAIN Bundles \cup Names \cup SamplerNames : Avoids(name, Z)
  /\ \A b \in DOMAIN Bundles : \A f \in 1..Len(Bundles[b]) : \A c \in 1..Len(Bundles[b][f]) :
       Avoids(Bundles[b][f][c].name, Z) /\ Avoids(Bundles[b][f][c].doc, Z)

\* And so are those that the catalog makes of them.
TextsRight(Z) ==
  /\ \A p \in 1..Len(plugins) : Avoids(plugins[p].name, Z)
  /\ \A x \in 1..Len(columns) : /\ Avoids(columns[x].name, Z) /\ Avoids(columns[x].doc, Z)
                                /\ columns[x].plugin \in 1..Len(plugins)
  /\ \A s \in 1..Len(samplers) : Avoids(samplers[s].name, Z)

\* Nothing is asked of texts when there is nothing to avoid.
LEMMA TextsAvoidNothing == TextsAvoid({})
<1>1. IsSeq(Dot)
  BY OneSeqIs DEF Dot
<1>2. ASSUME NEW name \in DOMAIN Bundles \cup Names \cup SamplerNames PROVE IsSeq(name)
  <2>1. name \in Seq(STRING)
    BY BundlesAssumption, SamplersAssumption
  <2> QED BY <2>1 DEF IsSeq
<1>3. ASSUME NEW b \in DOMAIN Bundles, NEW f \in 1..Len(Bundles[b]), NEW c \in 1..Len(Bundles[b][f])
      PROVE  IsSeq(Bundles[b][f][c].name) /\ IsSeq(Bundles[b][f][c].doc)
  <2> DEFINE R == [name : Seq(STRING), cumulative : BOOLEAN, doc : Seq(STRING)]
  <2>1. Bundles[b] \in Seq(Seq(R))
    BY BundlesAssumption
  <2> HIDE DEF R
  <2>2. Bundles[b][f] \in Seq(R)
    BY <2>1
  <2>3. Bundles[b][f][c] \in R
    BY <2>2
  <2>4. Bundles[b][f][c].name \in Seq(STRING) /\ Bundles[b][f][c].doc \in Seq(STRING)
    BY <2>3 DEF R
  <2> QED BY <2>4 DEF IsSeq
<1> QED BY <1>1, <1>2, <1>3 DEF TextsAvoid, Avoids

LEMMA AvoidsConcat ==
  ASSUME NEW Z, NEW s, NEW t, Avoids(s, Z), Avoids(t, Z)
  PROVE  Avoids(s \o t, Z)
<1>1. IsSeq(s) /\ IsSeq(t) /\ Len(s) \in Nat /\ Len(t) \in Nat
  BY SeqShape DEF Avoids
<1>2. PICK u : u = s \o t
  OBVIOUS
<1>3. IsSeq(u) /\ Len(u) = Len(s) + Len(t)
  BY <1>1, <1>2, ConcatIs
<1>4. ASSUME NEW n \in 1..Len(u) PROVE u[n] \notin Z
  <2>1. CASE n \in 1..Len(s)
    BY <1>1, <1>2, <2>1, ConcatIs DEF Avoids
  <2>2. CASE n > Len(s)
    <3>1. PICK i : i = n - Len(s)
      OBVIOUS
    <3>2. i \in 1..Len(t) /\ n = Len(s) + i
      BY <1>1, <1>3, <2>2, <3>1
    <3>3. u[Len(s) + i] = t[i]
      BY <1>1, <1>2, <3>2, ConcatIs
    <3> QED BY <3>2, <3>3 DEF Avoids
  <2> QED BY <1>1, <1>3, <2>1, <2>2
<1> QED BY <1>2, <1>3, <1>4 DEF Avoids

\* A column of the concatenation is one of a feature's.
LEMMA ConcatColumn ==
  ASSUME NEW b \in DOMAIN Bundles, NEW i \in 1..Ncol(b)
  PROVE  \E f \in 1..Len(Bundles[b]) : \E c \in 1..Len(Bundles[b][f]) : Concat(b)[i] = Bundles[b][f][c]
<1>1. PICK B : B = Bundles[b]
  OBVIOUS
<1>2. IsSeqs(B) /\ Concat(b) = FlattenSeq(B) /\ Ncol(b) = Len(FlattenSeq(B))
  BY <1>1, BundleIs DEF Concat, Ncol
<1>3. Parallel(B, B)
  BY <1>2 DEF Parallel
<1>4. Alike(B, B, i)
  BY <1>2, <1>3, FlattenParallel
<1> QED BY <1>1, <1>2, <1>4 DEF Alike

LEMMA LoadPluginKeepsTexts ==
  ASSUME NEW Z, TextsAvoid(Z), CatalogRight, TextsRight(Z),
         NEW stem \in DOMAIN Bundles, NEW given \in Names, LoadPlugin(stem, given)
  PROVE  TextsRight(Z)'
<1>1. PICK name : name = PluginName(stem, given)
  OBVIOUS
<1>2. PICK q : q = [name |-> name, stem |-> stem]
  OBVIOUS
<1>3. PICK P : P = Len(plugins)
  OBVIOUS
<1>4. PICK new : new = ColumnInfos(P + 1, stem, name)
  OBVIOUS
<1>5. /\ samplers' = samplers /\ columns' = columns \o new /\ plugins' = Append(plugins, q)
  BY <1>1, <1>2, <1>3, <1>4 DEF LoadPlugin
<1>6. IsSeq(plugins) /\ P \in Nat /\ IsSeq(columns) /\ Len(columns) \in Nat
  BY <1>3, SeqShape DEF CatalogRight, FromBundles, ColumnsDeclared
<1>7. Avoids(name, Z)
  BY <1>1 DEF PluginName, TextsAvoid
<1>8. Len(plugins') = P + 1 /\ plugins'[P + 1] = q /\ \A p \in 1..P : plugins'[p] = plugins[p]
  BY <1>3, <1>5, <1>6, AppendIs
<1>9. ASSUME NEW p \in 1..Len(plugins') PROVE Avoids(plugins'[p].name, Z)
  <2>1. p = P + 1 \/ p \in 1..P
    BY <1>6, <1>8
  <2>2. q.name = name
    BY <1>2
  <2>3. \A i \in 1..P : Avoids(plugins[i].name, Z)
    BY <1>3 DEF TextsRight
  <2> QED BY <1>7, <1>8, <2>1, <2>2, <2>3
<1>10. IsSeq(new) /\ Len(new) = Ncol(stem) /\ Ncol(stem) \in Nat
  <2>1. DOMAIN new = 1..Ncol(stem) /\ new = [c \in 1..Ncol(stem) |-> new[c]]
    BY <1>4 DEF ColumnInfos
  <2>2. Ncol(stem) \in Nat
    BY BundleIs
  <2> QED BY <2>1, <2>2, SeqMade
<1>11. ASSUME NEW c \in 1..Ncol(stem)
       PROVE  Avoids(new[c].name, Z) /\ Avoids(new[c].doc, Z) /\ new[c].plugin = P + 1
  <2>1. /\ new[c].name = name \o Dot \o Concat(stem)[c].name
        /\ new[c].doc = Concat(stem)[c].doc /\ new[c].plugin = P + 1
    BY <1>4 DEF ColumnInfos
  <2>2. Avoids(Concat(stem)[c].name, Z) /\ Avoids(Concat(stem)[c].doc, Z)
    <3>1. PICK f \in 1..Len(Bundles[stem]) : \E j \in 1..Len(Bundles[stem][f]) :
                 Concat(stem)[c] = Bundles[stem][f][j]
      BY ConcatColumn
    <3> QED BY <3>1 DEF TextsAvoid
  <2>3. Avoids(Dot, Z)
    BY DEF TextsAvoid
  <2>4. Avoids(name \o Dot, Z)
    BY <1>7, <2>3, AvoidsConcat
  <2>5. Avoids((name \o Dot) \o Concat(stem)[c].name, Z)
    BY <2>2, <2>4, AvoidsConcat
  <2> QED BY <2>1, <2>2, <2>5
<1>12. /\ Len(columns') = Len(columns) + Ncol(stem)
       /\ \A x \in 1..Len(columns) : columns'[x] = columns[x]
       /\ \A c \in 1..Ncol(stem) : columns'[Len(columns) + c] = new[c]
  <2>1. PICK u : u = columns \o new
    OBVIOUS
  <2>2. Len(u) = Len(columns) + Len(new)
    BY <1>6, <1>10, <2>1, ConcatIs
  <2>3. \A x \in 1..Len(columns) : u[x] = columns[x]
    BY <1>6, <1>10, <2>1, ConcatIs
  <2>4. \A c \in 1..Len(new) : u[Len(columns) + c] = new[c]
    BY <1>6, <1>10, <2>1, ConcatIs
  <2>5. u = columns' /\ Len(new) = Ncol(stem)
    BY <1>5, <1>10, <2>1
  <2> QED BY <2>2, <2>3, <2>4, <2>5
<1>13. ASSUME NEW x \in 1..Len(columns')
       PROVE  /\ Avoids(columns'[x].name, Z) /\ Avoids(columns'[x].doc, Z)
              /\ columns'[x].plugin \in 1..Len(plugins')
  <2>1. CASE x \in 1..Len(columns)
    <3>1. /\ Avoids(columns[x].name, Z) /\ Avoids(columns[x].doc, Z)
          /\ columns[x].plugin \in 1..P
      BY <1>3, <2>1 DEF TextsRight
    <3>2. columns'[x] = columns[x]
      BY <1>12, <2>1
    <3>3. 1..P \subseteq 1..Len(plugins')
      BY <1>6, <1>8
    <3> QED BY <3>1, <3>2, <3>3
  <2>2. CASE x > Len(columns)
    <3>1. PICK c : c = x - Len(columns)
      OBVIOUS
    <3>2. c \in 1..Ncol(stem) /\ x = Len(columns) + c
      BY <1>6, <1>10, <1>12, <2>2, <3>1
    <3>3. columns'[x] = new[c]
      BY <1>12, <3>2
    <3>4. P + 1 \in 1..Len(plugins')
      BY <1>6, <1>8
    <3> QED BY <1>11, <3>2, <3>3, <3>4
  <2> QED BY <1>6, <1>10, <1>12, <2>1, <2>2
<1>14. ASSUME NEW s \in 1..Len(samplers') PROVE Avoids(samplers'[s].name, Z)
  BY <1>5 DEF TextsRight
<1> QED BY <1>9, <1>13, <1>14 DEF TextsRight

LEMMA AddSamplerKeepsTexts ==
  ASSUME NEW Z, TextsAvoid(Z), CatalogRight, TextsRight(Z),
         NEW name \in SamplerNames, NEW names, NEW every, AddSampler(name, names, every)
  PROVE  TextsRight(Z)'
<1>1. PICK t : t = Template(name, names, every)
  OBVIOUS
<1>2. plugins' = plugins /\ columns' = columns /\ samplers' = Append(samplers, t)
  BY <1>1 DEF AddSampler
<1>3. IsSeq(samplers) /\ Len(samplers) \in Nat
  BY SeqShape DEF CatalogRight, SamplersChosen
<1>4. t.name = name /\ Avoids(name, Z)
  BY <1>1 DEF Template, TextsAvoid
<1>5. /\ Len(samplers') = Len(samplers) + 1 /\ samplers'[Len(samplers) + 1] = t
      /\ \A s \in 1..Len(samplers) : samplers'[s] = samplers[s]
  BY <1>2, <1>3, AppendIs
<1>6. ASSUME NEW s \in 1..Len(samplers') PROVE Avoids(samplers'[s].name, Z)
  <2>1. s = Len(samplers) + 1 \/ s \in 1..Len(samplers)
    BY <1>3, <1>5
  <2>2. \A i \in 1..Len(samplers) : Avoids(samplers[i].name, Z)
    BY DEF TextsRight
  <2> QED BY <1>4, <1>5, <2>1, <2>2
<1> QED BY <1>2, <1>6 DEF TextsRight

LEMMA NextKeepsTexts ==
  ASSUME NEW Z, TextsAvoid(Z), CatalogRight, TextsRight(Z), [Next]_vars
  PROVE  TextsRight(Z)'
<1>1. ASSUME NEW stem \in DOMAIN Bundles, NEW name \in Names, LoadPlugin(stem, name)
      PROVE  TextsRight(Z)'
  BY <1>1, LoadPluginKeepsTexts
<1>2. ASSUME NEW name \in SamplerNames, NEW names \in Selections, NEW every \in Periods,
             AddSampler(name, names, every)
      PROVE  TextsRight(Z)'
  BY <1>2, AddSamplerKeepsTexts
<1>3. CASE UNCHANGED catalog
  BY <1>3 DEF TextsRight, catalog
<1>4. NewEngine => UNCHANGED catalog
  BY DEF NewEngine
<1>5. ASSUME NEW action, OnEvent(action) PROVE UNCHANGED catalog
  BY <1>5, Zenon DEF OnEvent
<1> QED BY <1>1, <1>2, <1>3, <1>4, <1>5 DEF Next, vars

LEMMA TextsInit == ASSUME NEW Z, Init PROVE TextsRight(Z)
BY EmptySeqIs DEF Init, TextsRight
-----------------------------------------------------------------------------
(* The file of a sampler.                                                  *)

LEMMA CellsConcat ==
  ASSUME NEW a, NEW x, CsvCells(a, x), NEW b, NEW y, CsvCells(b, y)
  PROVE  CsvCells(a \o b, x \o y)
<1>1. /\ IsSeq(a) /\ IsSeq(x) /\ IsSeq(b) /\ IsSeq(y) /\ Len(a) = Len(x) /\ Len(b) = Len(y)
      /\ Len(a) \in Nat /\ Len(b) \in Nat
  BY SeqShape DEF CsvCells
<1>2. PICK c : c = a \o b
  OBVIOUS
<1>3. PICK z : z = x \o y
  OBVIOUS
<1>4. IsSeq(c) /\ Len(c) = Len(a) + Len(b)
  BY <1>1, <1>2, ConcatIs
<1>5. IsSeq(z) /\ Len(z) = Len(x) + Len(y)
  BY <1>1, <1>3, ConcatIs
<1>6. ASSUME NEW n \in 1..Len(c) PROVE CsvCell(c[n], z[n])
  <2>1. CASE n \in 1..Len(a)
    <3>1. c[n] = a[n]
      BY <1>1, <1>2, <2>1, ConcatIs
    <3>2. n \in 1..Len(x)
      BY <1>1, <2>1
    <3>3. z[n] = x[n]
      BY <1>1, <1>3, <3>2, ConcatIs
    <3> QED BY <2>1, <3>1, <3>3 DEF CsvCells
  <2>2. CASE n > Len(a)
    <3>1. PICK i : i = n - Len(a)
      OBVIOUS
    <3>2. i \in 1..Len(b) /\ n = Len(a) + i
      BY <1>1, <1>4, <2>2, <3>1
    <3>3. c[Len(a) + i] = b[i]
      BY <1>1, <1>2, <3>2, ConcatIs
    <3>4. i \in 1..Len(y)
      BY <1>1, <3>2
    <3>5. z[Len(x) + i] = y[i]
      BY <1>1, <1>3, <3>4, ConcatIs
    <3> QED BY <1>1, <3>2, <3>3, <3>5 DEF CsvCells
  <2> QED BY <1>1, <1>4, <2>1, <2>2
<1> QED BY <1>1, <1>2, <1>3, <1>4, <1>5, <1>6 DEF CsvCells

LEMMA ThreeCells ==
  ASSUME NEW a, NEW b, NEW c, NEW x, NEW y, NEW z, CsvCell(a, x), CsvCell(b, y), CsvCell(c, z)
  PROVE  CsvCells(<<a, b, c>>, <<x, y, z>>)
<1>1. PICK s : s = <<a, b, c>>
  OBVIOUS
<1>2. PICK t : t = <<x, y, z>>
  OBVIOUS
<1>3. s \in Seq({a, b, c}) /\ Len(s) = 3 /\ s[1] = a /\ s[2] = b /\ s[3] = c
  BY <1>1
<1>4. t \in Seq({x, y, z}) /\ Len(t) = 3 /\ t[1] = x /\ t[2] = y /\ t[3] = z
  BY <1>2
<1>5. \A n \in 1..3 : n = 1 \/ n = 2 \/ n = 3
  OBVIOUS
<1>6. \A n \in 1..3 : CsvCell(s[n], t[n])
  BY <1>3, <1>4, <1>5
<1> QED BY <1>1, <1>2, <1>3, <1>4, <1>6 DEF CsvCells, IsSeq

\* Cells given one by one.
LEMMA EachCell ==
  ASSUME NEW n \in Nat, NEW a, a = [k \in 1..n |-> a[k]], NEW x, x = [k \in 1..n |-> x[k]],
         \A k \in 1..n : CsvCell(a[k], x[k])
  PROVE  CsvCells(a, x)
<1>1. IsSeq(a) /\ Len(a) = n
  BY SeqMade
<1>2. IsSeq(x) /\ Len(x) = n
  BY SeqMade
<1> QED BY <1>1, <1>2 DEF CsvCells

\* printf writes a number without any of the characters that readers look at.
NumbersPlain == \A v : ToString(v) \notin Special \cup Punctuation

LEMMA OneCell ==
  ASSUME NEW c, c \notin Special
  PROVE  CsvCell(<<c>>, <<c>>)
<1>1. PICK s : s = <<c>>
  OBVIOUS
<1>2. IsSeq(s) /\ Len(s) = 1 /\ s[1] = c
  BY <1>1, OneSeqIs
<1>3. Plain(s)
  BY <1>2 DEF Plain
<1> QED BY <1>1, <1>2, <1>3, PlainCell

LEMMA PrintedCell == ASSUME NumbersPlain, NEW v PROVE CsvCell(Printed(v), Printed(v))
<1>1. ToString(v) \notin Special
  BY DEF NumbersPlain
<1> QED BY <1>1, OneCell DEF Printed

LEMMA FixedCells == CsvCells(Fixed, Fixed)
<1>1. "instrument" \notin Special /\ "symbol" \notin Special /\ "ts" \notin Special
  BY DEF Special, Quote, Comma, Newline
<1>2. /\ CsvCell(<<"instrument">>, <<"instrument">>) /\ CsvCell(<<"symbol">>, <<"symbol">>)
      /\ CsvCell(<<"ts">>, <<"ts">>)
  BY <1>1, OneCell
<1> QED BY <1>2, ThreeCells DEF Fixed

\* The buffer holds the cells of the rows side by side.
Fills(rows, N, g) == g = [n \in 0..N |-> IF n = 0 THEN NewBuffer ELSE Push(g[n - 1], rows[n])]
CellsOf(rows) == [n \in 1..Len(rows) |-> rows[n].cells]
RowsWide(rows, ncol) ==
  IsSeq(rows) /\ \A n \in 1..Len(rows) : rows[n].cells = [k \in 1..ncol |-> rows[n].cells[k]]

LEMMA CellsOfIs ==
  ASSUME NEW rows, NEW ncol \in Nat, RowsWide(rows, ncol)
  PROVE  /\ IsSeqs(CellsOf(rows)) /\ Len(CellsOf(rows)) = Len(rows)
         /\ \A n \in 1..Len(rows) : CellsOf(rows)[n] = rows[n].cells /\ Len(rows[n].cells) = ncol
         /\ \A n \in 0..Len(rows) : Len(Upto(CellsOf(rows), n)) = n * ncol
<1>1. PICK C : C = CellsOf(rows)
  OBVIOUS
<1>2. Len(rows) \in Nat
  BY SeqShape DEF RowsWide
<1>3. IsSeq(C) /\ Len(C) = Len(rows)
  <2>1. DOMAIN C = 1..Len(rows) /\ C = [n \in 1..Len(rows) |-> C[n]]
    BY <1>1 DEF CellsOf
  <2> QED BY <1>2, <2>1, SeqMade
<1>4. ASSUME NEW n \in 1..Len(rows)
      PROVE  C[n] = rows[n].cells /\ IsSeq(C[n]) /\ Len(C[n]) = ncol
  <2>1. C[n] = rows[n].cells
    BY <1>1 DEF CellsOf
  <2>2. PICK c : c = rows[n].cells
    OBVIOUS
  <2>3. c = [k \in 1..ncol |-> c[k]]
    BY <2>2 DEF RowsWide
  <2>4. IsSeq(c) /\ Len(c) = ncol
    BY <2>3, SeqMade
  <2> QED BY <2>1, <2>2, <2>4
<1>5. IsSeqs(C)
  BY <1>3, <1>4 DEF IsSeqs
<1> DEFINE T == {n \in Nat : n <= Len(rows) => Len(Upto(C, n)) = n * ncol}
<1>6. 0 \in T
  <2>1. Upto(C, 0) = <<>>
    BY <1>5, UptoIs
  <2>2. 0 * ncol = 0
    OBVIOUS
  <2> QED BY <2>1, <2>2, EmptySeqIs
<1>7. ASSUME NEW n \in T PROVE n + 1 \in T
  <2> SUFFICES ASSUME n + 1 <= Len(rows) PROVE Len(Upto(C, n + 1)) = (n + 1) * ncol
    OBVIOUS
  <2>1. n + 1 \in 1..Len(C) /\ n + 1 \in 1..Len(rows) /\ (n + 1) - 1 = n /\ n <= Len(rows)
    BY <1>2, <1>3
  <2>2. Len(Upto(C, n)) = n * ncol
    BY <2>1
  <2>3. Len(Upto(C, n + 1)) = Len(Upto(C, n)) + Len(C[n + 1])
    BY <1>5, <2>1, UptoIs
  <2>4. Len(C[n + 1]) = ncol
    BY <1>4, <2>1
  <2>5. (n + 1) * ncol = n * ncol + ncol
    OBVIOUS
  <2> QED BY <2>2, <2>3, <2>4, <2>5
<1>8. T = Nat
  BY <1>6, <1>7, Induct
<1>9. ASSUME NEW n \in 0..Len(rows) PROVE Len(Upto(C, n)) = n * ncol
  <2>1. n \in Nat /\ n <= Len(rows)
    BY <1>2
  <2>2. n \in T
    BY <1>8, <2>1
  <2> QED BY <2>1, <2>2
<1> HIDE DEF T
<1> QED BY <1>1, <1>3, <1>4, <1>5, <1>9

LEMMA BufferIs ==
  ASSUME NEW s, NEW rows, rows = engine[1].samplers[s].rows, NEW ncol \in Nat, RowsWide(rows, ncol)
  PROVE  /\ Buffer(s).ts = [n \in 1..Len(rows) |-> rows[n].at]
         /\ Buffer(s).data = FlattenSeq(CellsOf(rows))
<1>1. PICK N : N = Len(rows)
  OBVIOUS
<1>2. PICK C : C = CellsOf(rows)
  OBVIOUS
<1>3. N \in Nat /\ IsSeqs(C) /\ Len(C) = N /\ \A n \in 1..N : C[n] = rows[n].cells
  BY <1>1, <1>2, CellsOfIs, SeqShape DEF RowsWide
<1> DEFINE At(n) == [i \in 1..n |-> rows[i].at]
           h == [n \in 0..N |-> [ts |-> At(n), data |-> Upto(C, n)]]
           g == CHOOSE g : Fills(rows, N, g)
<1>4. Buffer(s) = g[N]
  BY <1>1 DEF Buffer, Fills
<1>5. ASSUME NEW n \in Nat PROVE IsSeq(At(n)) /\ Len(At(n)) = n
  <2>1. DOMAIN At(n) = 1..n /\ At(n) = [i \in 1..n |-> At(n)[i]]
    OBVIOUS
  <2> HIDE DEF At
  <2> QED BY <2>1, SeqMade
<1>6. ASSUME NEW n \in Nat PROVE Append(At(n), rows[n + 1].at) = At(n + 1)
  <2>1. PICK a : a = At(n)
    OBVIOUS
  <2>2. PICK b : b = At(n + 1)
    OBVIOUS
  <2>3. PICK x : x = rows[n + 1].at
    OBVIOUS
  <2>4. IsSeq(a) /\ Len(a) = n /\ IsSeq(b) /\ Len(b) = n + 1
    BY <1>5, <2>1, <2>2
  <2>5. \A i \in 1..n : a[i] = b[i]
    BY <2>1, <2>2
  <2>6. b[n + 1] = x
    BY <2>2, <2>3
  <2>7. IsSeq(Append(a, x)) /\ Len(Append(a, x)) = n + 1
    <3>1. IsSeq(Append(a, x)) /\ Len(Append(a, x)) = Len(a) + 1
      BY <2>4, AppendIs
    <3> QED BY <2>4, <3>1
  <2>8. ASSUME NEW i \in 1..n + 1 PROVE Append(a, x)[i] = b[i]
    <3>1. i = n + 1 \/ i \in 1..n
      OBVIOUS
    <3>2. Append(a, x)[Len(a) + 1] = x
      BY <2>4, AppendIs
    <3>3. \A k \in 1..Len(a) : Append(a, x)[k] = a[k]
      BY <2>4, AppendIs
    <3> QED BY <2>4, <2>5, <2>6, <3>1, <3>2, <3>3
  <2> HIDE DEF At
  <2>9. Append(a, x) = b
    BY <2>4, <2>7, <2>8, SeqSame
  <2> QED BY <2>1, <2>2, <2>3, <2>9
<1>7. h[0] = NewBuffer
  <2>1. IsSeq(At(0)) /\ Len(At(0)) = 0
    BY <1>5
  <2> HIDE DEF At
  <2>2. At(0) = <<>>
    BY <2>1, SeqShape
  <2>3. Upto(C, 0) = <<>> /\ 0 \in 0..N
    <3> HIDE DEF h
    <3>1. Upto(C, 0) = <<>>
      BY <1>3, UptoIs
    <3> QED BY <1>3, <3>1
  <2> QED BY <2>2, <2>3 DEF NewBuffer
<1>8. ASSUME NEW n \in Nat, n + 1 <= N PROVE h[n + 1] = Push(h[n], rows[n + 1])
  <2>1. n \in 0..N /\ n + 1 \in 0..N /\ n + 1 \in 1..N /\ n + 1 \in 1..Len(C) /\ (n + 1) - 1 = n
    BY <1>3, <1>8
  <2>2. Upto(C, n + 1) = Upto(C, n) \o rows[n + 1].cells
    <3>1. Upto(C, n + 1) = Upto(C, n) \o C[n + 1]
      BY <1>3, <2>1, UptoIs
    <3> QED BY <1>3, <2>1, <3>1
  <2>3. At(n + 1) = Append(At(n), rows[n + 1].at)
    BY <1>6
  <2> HIDE DEF At
  <2>4. h[n] = [ts |-> At(n), data |-> Upto(C, n)] /\ h[n + 1] = [ts |-> At(n + 1), data |-> Upto(C, n + 1)]
    BY <2>1
  <2> HIDE DEF h
  <2>5. h[n].ts = At(n) /\ h[n].data = Upto(C, n)
    BY <2>4
  <2>6. Push(h[n], rows[n + 1])
          = [ts |-> Append(At(n), rows[n + 1].at), data |-> Upto(C, n) \o rows[n + 1].cells]
    BY <2>5, Zenon DEF Push
  <2> QED BY <2>2, <2>3, <2>4, <2>6, Zenon
<1>9. Fills(rows, N, h)
  <2>1. h = [n \in 0..N |-> h[n]]
    OBVIOUS
  <2> HIDE DEF h
  <2>2. ASSUME NEW n \in 0..N PROVE h[n] = IF n = 0 THEN NewBuffer ELSE Push(h[n - 1], rows[n])
    <3>1. CASE n = 0
      BY <3>1, <1>7
    <3>2. CASE n # 0
      <4>1. n - 1 \in Nat /\ (n - 1) + 1 = n /\ (n - 1) + 1 <= N
        BY <1>3, <3>2
      <4>2. h[(n - 1) + 1] = Push(h[n - 1], rows[(n - 1) + 1])
        BY <1>8, <4>1
      <4> QED BY <3>2, <4>1, <4>2
    <3> QED BY <3>1, <3>2
  <2> QED BY <2>1, <2>2 DEF Fills
<1>10. Fills(rows, N, g)
  <2> HIDE DEF h
  <2> QED BY <1>9
<1>11. h[N] = [ts |-> At(N), data |-> FlattenSeq(C)]
  <2>1. N \in 0..N
    BY <1>3
  <2>2. Upto(C, Len(C)) = FlattenSeq(C)
    BY <1>3, UptoIs
  <2>3. h[N] = [ts |-> At(N), data |-> Upto(C, N)]
    BY <2>1
  <2> HIDE DEF h
  <2> QED BY <1>3, <2>2, <2>3
<1> HIDE DEF g, h
<1> DEFINE T == {n \in Nat : n <= N => g[n] = h[n]}
<1>12. 0 \in T
  <2>1. 0 \in 0..N
    BY <1>3
  <2> QED BY <2>1, <1>7, <1>10 DEF Fills
<1>13. ASSUME NEW n \in T PROVE n + 1 \in T
  <2> SUFFICES ASSUME n + 1 <= N PROVE g[n + 1] = h[n + 1]
    OBVIOUS
  <2>1. n + 1 \in 0..N /\ n + 1 # 0 /\ (n + 1) - 1 = n /\ n <= N
    BY <1>3
  <2>2. g[n] = h[n]
    BY <2>1
  <2>3. g[n + 1] = Push(g[n], rows[n + 1])
    BY <1>10, <2>1 DEF Fills
  <2> QED BY <1>8, <2>2, <2>3
<1>14. T = Nat
  BY <1>12, <1>13, Induct
<1>15. g[N] = h[N]
  BY <1>3, <1>14
<1>16. Buffer(s).ts = At(N) /\ Buffer(s).data = FlattenSeq(C)
  <2> HIDE DEF At
  <2> QED BY <1>4, <1>11, <1>15
<1> QED BY <1>1, <1>2, <1>16

LEMMA RowReadBack ==
  ASSUME NEW s, NEW rows, rows = engine[1].samplers[s].rows, NEW ncol \in Nat, RowsWide(rows, ncol),
         NEW n \in 1..Len(rows)
  PROVE  Row(Buffer(s), n, ncol) = rows[n].cells
<1>1. PICK C : C = CellsOf(rows)
  OBVIOUS
<1>2. PICK t : t = FlattenSeq(C)
  OBVIOUS
<1>3. Buffer(s).data = t
  BY <1>1, <1>2, BufferIs
<1>4. PICK N : N = Len(rows)
  OBVIOUS
<1>5. /\ N \in Nat /\ IsSeqs(C) /\ Len(C) = N /\ n \in 1..Len(C) /\ C[n] = rows[n].cells /\ Len(C[n]) = ncol
      /\ n \in 0..N /\ n - 1 \in 0..N /\ n - 1 \in 0..Len(C) /\ N \in n..Len(C) /\ N \in 0..Len(C)
      /\ n \in 0..Len(C) /\ n <= N
  <2>1. N \in Nat
    BY <1>4, SeqShape DEF RowsWide
  <2>2. IsSeqs(C) /\ Len(C) = N /\ C[n] = rows[n].cells /\ Len(rows[n].cells) = ncol
    BY <1>1, <1>4, CellsOfIs
  <2> QED BY <1>4, <2>1, <2>2
<1>6. PICK a : a = (n - 1) * ncol
  OBVIOUS
<1>7. PICK b : b = n * ncol
  OBVIOUS
<1>8. a \in Nat /\ b = a + ncol
  <2>1. n - 1 \in Nat
    BY <1>5
  <2>2. (n - 1) * ncol \in Nat
    BY <2>1
  <2>3. n * ncol = (n - 1) * ncol + ncol
    OBVIOUS
  <2> QED BY <1>6, <1>7, <2>2, <2>3
<1>9. Len(Upto(C, n - 1)) = a /\ Len(Upto(C, n)) = b
  BY <1>1, <1>4, <1>5, <1>6, <1>7, CellsOfIs
<1>10. IsSeq(t) /\ t = Upto(C, N) /\ b <= Len(t) /\ Len(t) \in Nat
  <2>1. Len(Upto(C, n)) <= Len(Upto(C, N))
    BY <1>5, UptoGrows
  <2>2. Upto(C, N) = t /\ IsSeq(t)
    BY <1>2, <1>5, UptoIs
  <2> QED BY <1>9, <2>1, <2>2, SeqShape
<1>11. PICK c : c = SubSeq(t, a + 1, b)
  OBVIOUS
<1>12. a \in 0..Len(t) /\ b \in a..Len(t) /\ b - a = ncol
  BY <1>8, <1>10
<1>13. IsSeq(c) /\ Len(c) = ncol /\ \A i \in 1..ncol : c[i] = t[a + i]
  BY <1>10, <1>11, <1>12, MidIs
<1>14. ASSUME NEW i \in 1..ncol PROVE c[i] = C[n][i]
  <2>1. Upto(C, N)[Len(Upto(C, n - 1)) + i] = C[n][i]
    BY <1>5, UptoAt
  <2> QED BY <1>9, <1>10, <1>13, <2>1
<1>15. IsSeq(C[n])
  BY <1>5 DEF IsSeqs
<1>16. c = C[n]
  BY <1>5, <1>13, <1>14, <1>15, SeqSame
<1> QED BY <1>3, <1>5, <1>6, <1>7, <1>11, <1>16 DEF Row
RowsOf(s) == engine[1].samplers[s].rows
NcolOf(s) == Len(samplers[s].names)

LEMMA SamplerIs ==
  ASSUME RowInv, TextsRight({}), engine # <<>>, NEW s \in 1..Len(samplers)
  PROVE  /\ NcolOf(s) \in Nat /\ samplers[s].names = [k \in 1..NcolOf(s) |-> samplers[s].names[k]]
         /\ DOMAIN samplers[s].names = 1..NcolOf(s)
         /\ \A k \in 1..NcolOf(s) : IsSeq(samplers[s].names[k])
         /\ samplers[s].names = WantedNames(s)
         /\ RowsWide(RowsOf(s), NcolOf(s))
<1>1. PICK cols : cols = samplers[s].columns
  OBVIOUS
<1>2. PICK names : names = samplers[s].names
  OBVIOUS
<1>3. CatalogRight /\ EngineRight(engine[1])
  BY DEF RowInv, EngineInv
<1>4. /\ IsSeq(cols) /\ names = [k \in DOMAIN cols |-> columns[cols[k]].name] /\ names = WantedNames(s)
      /\ \A k \in DOMAIN cols : cols[k] \in 1..Len(columns)
  BY <1>1, <1>2, <1>3 DEF CatalogRight, SamplersChosen
<1>5. Len(cols) \in Nat /\ DOMAIN cols = 1..Len(cols)
  BY <1>4, SeqShape
<1>6. names = [k \in 1..Len(cols) |-> names[k]] /\ DOMAIN names = 1..Len(cols)
  BY <1>4, <1>5
<1>7. Len(names) = Len(cols)
  BY <1>5, <1>6, SeqMade
<1>8. ASSUME NEW k \in 1..Len(cols) PROVE IsSeq(names[k])
  <2>1. names[k] = columns[cols[k]].name /\ cols[k] \in 1..Len(columns)
    BY <1>4, <1>5
  <2> QED BY <2>1 DEF TextsRight, Avoids
<1>9. RowsWide(RowsOf(s), Len(cols))
  <2>1. PICK rows : rows = RowsOf(s)
    OBVIOUS
  <2>2. SamplerRight(log, Of(s), engine[1].samplers[s])
    BY <1>3 DEF EngineRight
  <2>3. IsSeq(rows) /\ \A n \in 1..Len(rows) : RowRight(log, Of(s), rows, n)
    BY <2>1, <2>2 DEF SamplerRight, RowsOf
  <2>4. DOMAIN Of(s) = 1..Len(cols)
    BY <1>1, <1>5 DEF Of
  <2>5. ASSUME NEW n \in 1..Len(rows) PROVE rows[n].cells = [k \in 1..Len(cols) |-> rows[n].cells[k]]
    <3>1. RowRight(log, Of(s), rows, n)
      BY <2>3
    <3> QED BY <2>4, <3>1 DEF RowRight
  <2> QED BY <2>1, <2>3, <2>5 DEF RowsWide
<1> QED BY <1>2, <1>4, <1>5, <1>6, <1>7, <1>8, <1>9 DEF NcolOf

LEMMA HeaderRow ==
  ASSUME RowInv, TextsRight({}), engine # <<>>, NEW s \in 1..Len(samplers)
  PROVE  CsvRows(Header(s), <<Fixed \o WantedNames(s)>>)
<1>1. PICK names : names = samplers[s].names
  OBVIOUS
<1>2. PICK n : n = NcolOf(s)
  OBVIOUS
<1>3. /\ n \in Nat /\ names = [k \in 1..n |-> names[k]] /\ DOMAIN names = 1..n
      /\ \A k \in 1..n : IsSeq(names[k])
  BY <1>1, <1>2, SamplerIs
<1>4. PICK a : a = [k \in DOMAIN names |-> CsvString(names[k])]
  OBVIOUS
<1>5. a = [k \in 1..n |-> a[k]] /\ \A k \in 1..n : a[k] = CsvString(names[k])
  BY <1>3, <1>4
<1>6. \A k \in 1..n : CsvCell(a[k], names[k])
  BY <1>3, <1>5, CsvStringCell
<1>7. CsvCells(a, names)
  BY <1>3, <1>5, <1>6, EachCell
<1>8. CsvCells(Fixed \o a, Fixed \o names)
  BY <1>7, FixedCells, CellsConcat
<1>9. Len(Fixed \o a) > 0
  <2>1. IsSeq(Fixed) /\ IsSeq(a) /\ Len(a) \in Nat
    BY <1>7, FixedCells, SeqShape DEF CsvCells
  <2>2. Len(Fixed \o a) = Len(Fixed) + Len(a)
    BY <2>1, ConcatIs
  <2>3. Len(Fixed) = 3
    BY DEF Fixed
  <2> QED BY <2>1, <2>2, <2>3
<1>10. CsvRows(Line(Fixed \o a), <<Fixed \o names>>)
  BY <1>8, <1>9, LineRow
<1>11. names = WantedNames(s)
  BY <1>1, SamplerIs
<1> QED BY <1>1, <1>4, <1>10, <1>11 DEF Header

WantedRow(s, n) ==
  <<<<Entries[Mine].id>>, Entries[Mine].symbol, Printed(RowsOf(s)[n].at)>>
    \o [k \in DOMAIN RowsOf(s)[n].cells |-> Printed(RowsOf(s)[n].cells[k])]

LEMMA RowLineRow ==
  ASSUME NumbersPlain, RowInv, TextsRight({}), engine # <<>>, NEW s \in 1..Len(samplers),
         NEW n \in 1..Len(RowsOf(s))
  PROVE  CsvRows(RowLine(Entries[Mine], Buffer(s), n, NcolOf(s)), <<WantedRow(s, n)>>)
<1>1. PICK rows : rows = RowsOf(s)
  OBVIOUS
<1>2. PICK ncol : ncol = NcolOf(s)
  OBVIOUS
<1>3. ncol \in Nat /\ RowsWide(rows, ncol) /\ rows = engine[1].samplers[s].rows /\ n \in 1..Len(rows)
  BY <1>1, <1>2, SamplerIs DEF RowsOf
<1>4. PICK c : c = rows[n].cells
  OBVIOUS
<1>5. PICK b : b = Buffer(s)
  OBVIOUS
<1>6. c = [k \in 1..ncol |-> c[k]] /\ DOMAIN c = 1..ncol
  BY <1>3, <1>4 DEF RowsWide
<1>7. Row(b, n, ncol) = c
  BY <1>3, <1>4, <1>5, RowReadBack
<1>8. b.ts[n] = rows[n].at
  <2>1. b.ts = [i \in 1..Len(rows) |-> rows[i].at]
    BY <1>3, <1>5, BufferIs
  <2> QED BY <1>3, <2>1
<1>9. PICK e : e = Entries[Mine]
  OBVIOUS
<1>10. e.id \notin Special /\ IsSeq(e.symbol)
  <2> DEFINE S == [id : STRING, symbol : Seq(STRING)]
  <2>1. Entries \in Seq(S) /\ Mine \in DOMAIN Entries /\ e.id \notin {Quote, Comma, Newline}
    BY <1>9, EntriesAssumption
  <2>2. e.symbol \in Seq(STRING)
    <3> HIDE DEF S
    <3>1. e \in S
      BY <1>9, <2>1
    <3> QED BY <3>1 DEF S
  <2> QED BY <2>1, <2>2 DEF IsSeq, Special
<1>11. PICK t : t = Printed(rows[n].at)
  OBVIOUS
<1>12. CsvCells(<<<<e.id>>, CsvString(e.symbol), t>>, <<<<e.id>>, e.symbol, t>>)
  <2>1. CsvCell(<<e.id>>, <<e.id>>)
    BY <1>10, OneCell
  <2>2. CsvCell(CsvString(e.symbol), e.symbol)
    BY <1>10, CsvStringCell
  <2>3. CsvCell(t, t)
    BY <1>11, PrintedCell
  <2> QED BY <2>1, <2>2, <2>3, ThreeCells
<1>13. PICK p : p = [k \in 1..ncol |-> Printed(c[k])]
  OBVIOUS
<1>14. CsvCells(p, p)
  <2>1. p = [k \in 1..ncol |-> p[k]] /\ \A k \in 1..ncol : p[k] = Printed(c[k])
    BY <1>13
  <2>2. \A k \in 1..ncol : CsvCell(p[k], p[k])
    BY <2>1, PrintedCell
  <2> QED BY <1>3, <2>1, <2>2, EachCell
<1>15. PICK f : f = <<<<e.id>>, CsvString(e.symbol), t>>
  OBVIOUS
<1>16. PICK v : v = <<<<e.id>>, e.symbol, t>>
  OBVIOUS
<1>17. CsvCells(f \o p, v \o p)
  BY <1>12, <1>14, <1>15, <1>16, CellsConcat
<1>18. Len(f \o p) > 0
  <2>1. IsSeq(f) /\ IsSeq(p) /\ Len(p) \in Nat
    BY <1>12, <1>14, <1>15, SeqShape DEF CsvCells
  <2>2. Len(f \o p) = Len(f) + Len(p)
    BY <2>1, ConcatIs
  <2>3. Len(f) = 3
    BY <1>15
  <2> QED BY <2>1, <2>2, <2>3
<1>19. CsvRows(Line(f \o p), <<v \o p>>)
  BY <1>17, <1>18, LineRow
<1>20. RowLine(e, b, n, ncol) = Line(f \o p)
  BY <1>7, <1>8, <1>11, <1>13, <1>15 DEF RowLine
<1>21. WantedRow(s, n) = v \o p
  BY <1>1, <1>4, <1>6, <1>9, <1>11, <1>13, <1>16 DEF WantedRow
<1> QED BY <1>2, <1>5, <1>9, <1>19, <1>20, <1>21

LEMMA EntriesRows ==
  ASSUME NumbersPlain, RowInv, TextsRight({}), engine # <<>>, NEW s \in 1..Len(samplers)
  PROVE  CsvRows(FlattenSeq([i \in DOMAIN Entries |-> EntryLines(i, s)]),
                 [n \in DOMAIN RowsOf(s) |-> WantedRow(s, n)])
<1>1. PICK rows : rows = RowsOf(s)
  OBVIOUS
<1>2. PICK N : N = Len(rows)
  OBVIOUS
<1>3. NcolOf(s) \in Nat /\ RowsWide(rows, NcolOf(s)) /\ rows = engine[1].samplers[s].rows
  BY <1>1, SamplerIs DEF RowsOf
<1>4. N \in Nat /\ DOMAIN rows = 1..N
  BY <1>2, <1>3, SeqShape DEF RowsWide
<1>5. DOMAIN Buffer(s).ts = 1..N
  <2>1. Buffer(s).ts = [n \in 1..Len(rows) |-> rows[n].at]
    BY <1>3, BufferIs
  <2> QED BY <1>2, <2>1
<1>6. PICK lines : lines = [n \in 1..N |-> RowLine(Entries[Mine], Buffer(s), n, NcolOf(s))]
  OBVIOUS
<1>7. PICK values : values = [n \in 1..N |-> WantedRow(s, n)]
  OBVIOUS
<1>8. IsSeq(lines) /\ Len(lines) = N
  <2>1. DOMAIN lines = 1..N /\ lines = [n \in 1..N |-> lines[n]]
    BY <1>6
  <2> QED BY <1>4, <2>1, SeqMade
<1>9. IsSeq(values) /\ Len(values) = N
  <2>1. DOMAIN values = 1..N /\ values = [n \in 1..N |-> values[n]]
    BY <1>7
  <2> QED BY <1>4, <2>1, SeqMade
<1>10. ASSUME NEW n \in 1..Len(lines) PROVE CsvRows(lines[n], <<values[n]>>)
  <2>1. n \in 1..N /\ n \in 1..Len(RowsOf(s))
    BY <1>1, <1>2, <1>8
  <2>2. lines[n] = RowLine(Entries[Mine], Buffer(s), n, NcolOf(s)) /\ values[n] = WantedRow(s, n)
    BY <1>6, <1>7, <2>1
  <2> QED BY <2>1, <2>2, RowLineRow
<1>11. CsvRows(FlattenSeq(lines), values)
  BY <1>8, <1>9, <1>10, RowsFlatten
<1>12. PICK d : d = [i \in DOMAIN Entries |-> EntryLines(i, s)]
  OBVIOUS
<1>13. IsSeq(Entries) /\ Mine \in DOMAIN Entries
  BY EntriesAssumption DEF IsSeq
<1>14. Len(Entries) \in Nat /\ DOMAIN Entries = 1..Len(Entries)
  BY <1>13, SeqShape
<1>15. IsSeq(d) /\ Len(d) = Len(Entries)
  <2>1. DOMAIN d = 1..Len(Entries) /\ d = [i \in 1..Len(Entries) |-> d[i]]
    BY <1>12, <1>14
  <2> QED BY <1>14, <2>1, SeqMade
<1>16. \A i \in 1..Len(d) : i # Mine => d[i] = <<>>
  BY <1>12, <1>14, <1>15 DEF EntryLines
<1>17. Mine \in 1..Len(d) /\ d[Mine] = FlattenSeq(lines)
  <2>1. Mine \in 1..Len(d)
    BY <1>13, <1>14, <1>15
  <2>2. d[Mine] = EntryLines(Mine, s)
    BY <1>12, <1>13
  <2>3. EntryLines(Mine, s) = FlattenSeq(lines)
    BY <1>5, <1>6 DEF EntryLines, NcolOf
  <2> QED BY <2>1, <2>2, <2>3
<1>18. IsSeqs(d)
  <2>1. ASSUME NEW i \in 1..Len(d) PROVE IsSeq(d[i])
    <3>1. IsSeq(FlattenSeq(lines))
      BY <1>11 DEF CsvRows
    <3> QED BY <1>16, <1>17, <3>1, EmptySeqIs
  <2> QED BY <1>15, <2>1 DEF IsSeqs
<1>19. FlattenSeq(d) = FlattenSeq(lines)
  <2>1. FlattenSeq(d) = d[Mine]
    BY <1>16, <1>17, <1>18, FlattenOne
  <2> QED BY <1>17, <2>1
<1>20. values = [n \in DOMAIN RowsOf(s) |-> WantedRow(s, n)]
  BY <1>1, <1>4, <1>7
<1> QED BY <1>11, <1>12, <1>19, <1>20

LEMMA FileReadsBack ==
  ASSUME NumbersPlain, RowInv, TextsRight({}), engine # <<>>, NEW s \in 1..Len(samplers)
  PROVE  IsCsv(SamplerCsv(s)) /\ CsvTable(SamplerCsv(s)) = WantedTable(s)
<1>1. PICK text : text = SamplerCsv(s)
  OBVIOUS
<1>2. PICK h : h = <<Fixed \o WantedNames(s)>>
  OBVIOUS
<1>3. PICK w : w = [n \in DOMAIN RowsOf(s) |-> WantedRow(s, n)]
  OBVIOUS
<1>4. CsvRows(text, h \o w)
  <2>1. CsvRows(Header(s), h)
    BY <1>2, HeaderRow
  <2>2. PICK l : l = FlattenSeq([i \in DOMAIN Entries |-> EntryLines(i, s)])
    OBVIOUS
  <2>3. CsvRows(l, w)
    BY <1>3, <2>2, EntriesRows
  <2>4. text = Header(s) \o l
    BY <1>1, <2>2 DEF SamplerCsv
  <2> QED BY <2>1, <2>3, <2>4, RowsConcat
<1>5. PICK e : e = <<>>
  OBVIOUS
<1>6. After("csv", CsvReader, text) = Csv(h \o w, <<>>, <<>>, "start")
  <2>1. IsSeq(text) /\ IsSeq(h \o w)
    BY <1>4 DEF CsvRows
  <2>2. After("csv", CsvReader, text) = Taken("csv", CsvReader, text)
    BY <2>1, AfterIs
  <2>3. CsvReader = Csv(e, <<>>, <<>>, "start") /\ IsSeq(e)
    BY <1>5, EmptySeqIs DEF CsvReader, Csv
  <2>4. Taken("csv", Csv(e, <<>>, <<>>, "start"), text) = Csv(e \o (h \o w), <<>>, <<>>, "start")
    BY <1>4, <2>3 DEF CsvRows
  <2>5. e \o (h \o w) = h \o w
    BY <1>5, <2>1, ConcatEmpty
  <2> QED BY <2>2, <2>3, <2>4, <2>5
<1>7. WantedTable(s) = h \o w
  BY <1>2, <1>3, Zenon DEF WantedTable, WantedRow, RowsOf
<1>8. IsCsv(text) /\ CsvTable(text) = h \o w
  BY <1>6 DEF IsCsv, CsvTable, Csv
<1> QED BY <1>1, <1>7, <1>8

LEMMA FilesReadBack ==
  ASSUME NumbersPlain
  PROVE  RowInv /\ TextsRight({}) => CsvReadsBack
<1> SUFFICES ASSUME RowInv, TextsRight({}), engine # <<>>, NEW s \in DOMAIN samplers
             PROVE  IsCsv(SamplerCsv(s)) /\ CsvTable(SamplerCsv(s)) = WantedTable(s)
  BY DEF CsvReadsBack
<1>1. s \in 1..Len(samplers)
  BY SeqShape DEF RowInv, CatalogRight, SamplersChosen
<1> QED BY <1>1, FileReadsBack

\* Read as CSV, a sampler's file is the table of its rows under the names asked for
\* (WriteSamplerCsv and RowBuffer), given that printf writes numbers without punctuation.
THEOREM CsvRight == ASSUME NumbersPlain PROVE Spec => []CsvReadsBack
<1>1. Init => RowInv /\ TextsRight({})
  BY RowInit, TextsInit
<1>2. (RowInv /\ TextsRight({})) /\ [Next]_vars => (RowInv /\ TextsRight({}))'
  <2> SUFFICES ASSUME RowInv, TextsRight({}), [Next]_vars PROVE (RowInv /\ TextsRight({}))'
    OBVIOUS
  <2>1. RowInv'
    BY RowInductive
  <2>2. TextsRight({})'
    BY NextKeepsTexts, TextsAvoidNothing DEF RowInv
  <2> QED BY <2>1, <2>2
<1>3. RowInv /\ TextsRight({}) => CsvReadsBack
  BY FilesReadBack
<1> QED BY <1>1, <1>2, <1>3, PTL DEF Spec
-----------------------------------------------------------------------------
(* Reading JSON.                                                           *)

J(open, mode, text) == [open |-> open, mode |-> mode, text |-> text]
Frame(kind, name, items) == [kind |-> kind, name |-> name, items |-> items]

StringMode(of) == IF of = "name" THEN "name string" ELSE "value string"
EscapeMode(of) == IF of = "name" THEN "name escape" ELSE "value escape"
StartModes(of) == IF of = "name" THEN {"name", "name or end"} ELSE {"value", "value or end"}

LEMMA CharsDiffer ==
  /\ Quote \notin {Backslash, Comma, ":", "[", "]", "{", "}", "n", "t", Newline, Tab, Return}
  /\ Backslash \notin {Comma, ":", "[", "]", "{", "}", "n", "t", Newline, Tab, Return}
  /\ Comma \notin {":", "[", "]", "{", "}"}
BY DEF Quote, Backslash, Comma, Newline, Tab, Return

LEMMA InString ==
  ASSUME NEW open, NEW x, NEW c, NEW of \in {"name", "value"}
  PROVE  /\ c \notin Controls \cup {Quote, Backslash} =>
              Char("json", J(open, StringMode(of), x), c) = J(open, StringMode(of), Append(x, c))
         /\ Char("json", J(open, StringMode(of), x), Backslash) = J(open, EscapeMode(of), x)
         /\ c \in DOMAIN Escaped =>
              Char("json", J(open, EscapeMode(of), x), c) = J(open, StringMode(of), Append(x, Escaped[c]))
         /\ Char("json", J(open, StringMode(of), x), Quote) = EndString(J(open, StringMode(of), x))
<1>1. ASSUME c \notin Controls \cup {Quote, Backslash}
      PROVE  Char("json", J(open, StringMode(of), x), c) = J(open, StringMode(of), Append(x, c))
  BY <1>1, CharsDiffer DEF Char, JsonChar, J, StringMode, Strings, Escapes, Closes
<1>2. Char("json", J(open, StringMode(of), x), Backslash) = J(open, EscapeMode(of), x)
  BY CharsDiffer DEF Char, JsonChar, J, StringMode, EscapeMode, Strings, Escapes, Closes
<1>3. ASSUME c \in DOMAIN Escaped
      PROVE  Char("json", J(open, EscapeMode(of), x), c) = J(open, StringMode(of), Append(x, Escaped[c]))
  BY <1>3, CharsDiffer DEF Char, JsonChar, J, StringMode, EscapeMode, Strings, Escapes, Closes
<1>4. Char("json", J(open, StringMode(of), x), Quote) = EndString(J(open, StringMode(of), x))
  BY CharsDiffer DEF Char, JsonChar, J, StringMode, Strings, Escapes, Closes
<1> QED BY <1>1, <1>2, <1>3, <1>4

LEMMA AtStart ==
  ASSUME NEW open, NEW x, NEW of \in {"name", "value"}, NEW m \in StartModes(of)
  PROVE  Char("json", J(open, m, x), Quote) = J(open, StringMode(of), <<>>)
<1>1. CASE of = "name"
  <2>1. m \in {"name", "name or end"} /\ StringMode(of) = "name string"
    BY <1>1 DEF StartModes, StringMode
  <2>2. Char("json", J(open, m, x), Quote) = J(open, "name string", <<>>)
    BY <2>1, CharsDiffer DEF Char, JsonChar, J, Strings, Escapes, Closes, Punctuation
  <2> QED BY <2>1, <2>2
<1>2. CASE of = "value"
  <2>1. m \in {"value", "value or end"} /\ StringMode(of) = "value string"
    BY <1>2 DEF StartModes, StringMode
  <2>2. Char("json", J(open, m, x), Quote) = J(open, "value string", <<>>)
    BY <2>1, CharsDiffer DEF Char, JsonChar, J, Strings, Escapes, Closes, Punctuation
  <2> QED BY <2>1, <2>2
<1> QED BY <1>1, <1>2

LEMMA AtArray ==
  ASSUME NEW open, NEW x, NEW m \in StartModes("value")
  PROVE  Char("json", J(open, m, x), "[") = J(Append(open, Frame("array", <<>>, <<>>)), "value or end", x)
BY CharsDiffer DEF Char, JsonChar, J, Frame, Enter, StartModes, Strings, Escapes, Closes, Punctuation

LEMMA AtObject ==
  ASSUME NEW open, NEW x, NEW m \in StartModes("value")
  PROVE  Char("json", J(open, m, x), "{") = J(Append(open, Frame("object", <<>>, <<>>)), "name or end", x)
BY CharsDiffer DEF Char, JsonChar, J, Frame, Enter, StartModes, Strings, Escapes, Closes, Punctuation

LEMMA AtWord ==
  ASSUME NEW open, NEW x, NEW m \in StartModes("value"), NEW c, c \notin Punctuation
  PROVE  Char("json", J(open, m, x), c) = Put(J(open, m, x), Word(c))
BY CharsDiffer DEF Char, JsonChar, J, StartModes, Strings, Escapes, Closes, Punctuation

LEMMA AtColon ==
  ASSUME NEW open, NEW x
  PROVE  Char("json", J(open, "colon", x), ":") = J(open, "value", x)
BY CharsDiffer DEF Char, JsonChar, J, Strings, Escapes, Closes

\* The innermost array or object, and what it holds when it ends.
LEMMA InnermostIs ==
  ASSUME NEW s, IsSeq(s), NEW F
  PROVE  /\ IsSeq(Append(s, F)) /\ Len(Append(s, F)) = Len(s) + 1
         /\ Last(Append(s, F)) = F /\ Front(Append(s, F)) = s
         /\ \A G : [Append(s, F) EXCEPT ![Len(Append(s, F))] = G] = Append(s, G)
<1>1. PICK o : o = Append(s, F)
  OBVIOUS
<1>2. IsSeq(o) /\ Len(o) = Len(s) + 1
  BY <1>1, AppendIs
<1>3. o[Len(s) + 1] = F
  BY <1>1, AppendIs
<1>4. \A n \in 1..Len(s) : o[n] = s[n]
  BY <1>1, AppendIs
<1>5. Len(s) \in Nat
  BY SeqShape
<1>6. Last(o) = F
  BY <1>2, <1>3 DEF Last
<1>7. Front(o) = s
  <2>1. PICK f : f = SubSeq(o, 1, Len(o) - 1)
    OBVIOUS
  <2>2. Len(o) - 1 \in 0..Len(o) /\ Len(o) - 1 = Len(s)
    BY <1>2, <1>5
  <2>3. IsSeq(f) /\ Len(f) = Len(s) /\ \A n \in 1..Len(s) : f[n] = o[n]
    BY <1>2, <2>1, <2>2, FirstIs
  <2>4. f = s
    BY <1>4, <2>3, SeqSame
  <2> QED BY <2>1, <2>4 DEF Front
<1>8. ASSUME NEW G PROVE [o EXCEPT ![Len(o)] = G] = Append(s, G)
  <2>1. PICK p : p = [o EXCEPT ![Len(o)] = G]
    OBVIOUS
  <2>2. PICK q : q = Append(s, G)
    OBVIOUS
  <2>3. PICK N : N = Len(o)
    OBVIOUS
  <2>4. N \in Nat /\ DOMAIN o = 1..N /\ N = Len(s) + 1
    BY <1>2, <1>5, <2>3, SeqShape
  <2>5. DOMAIN p = 1..N /\ p = [n \in 1..N |-> p[n]] /\ p[N] = G /\ \A n \in 1..N : n # N => p[n] = o[n]
    <3>1. p = [o EXCEPT ![N] = G] /\ N \in DOMAIN o
      BY <1>5, <2>1, <2>3, <2>4
    <3>2. p = [n \in 1..N |-> IF n = N THEN G ELSE o[n]]
      BY <2>4, <3>1
    <3> QED BY <2>4, <3>1, <3>2
  <2>6. IsSeq(p) /\ Len(p) = N
    BY <2>4, <2>5, SeqMade
  <2>7. IsSeq(q) /\ Len(q) = Len(s) + 1
    BY <2>2, AppendIs
  <2>8. q[Len(s) + 1] = G
    BY <2>2, AppendIs
  <2>9. \A n \in 1..Len(s) : q[n] = s[n]
    BY <2>2, AppendIs
  <2>10. ASSUME NEW n \in 1..N PROVE p[n] = q[n]
    <3>1. n = N \/ n \in 1..Len(s)
      BY <1>5, <2>4
    <3>2. n \in 1..Len(s) => n # N
      BY <1>5, <2>4
    <3> QED BY <1>4, <2>4, <2>5, <2>8, <2>9, <3>1, <3>2
  <2> QED BY <2>1, <2>2, <2>4, <2>6, <2>7, <2>10, SeqSame
<1> QED BY <1>1, <1>2, <1>6, <1>7, <1>8

\* What a value becomes in an array or object.
Item(kind, name, value) == IF kind = "object" THEN Member(name, value) ELSE value

LEMMA PutIs ==
  ASSUME NEW s, IsSeq(s), NEW kind, NEW name, NEW items, NEW m, NEW x, NEW value
  PROVE  Put(J(Append(s, Frame(kind, name, items)), m, x), value)
           = J(Append(s, Frame(kind, name, Append(items, Item(kind, name, value)))), "after", x)
<1>1. PICK F : F = Frame(kind, name, items)
  OBVIOUS
<1>2. PICK o : o = Append(s, F)
  OBVIOUS
<1>3. PICK N : N = Len(o)
  OBVIOUS
<1>4. PICK i : i = Item(kind, name, value)
  OBVIOUS
<1>5. PICK G : G = Frame(kind, name, Append(items, i))
  OBVIOUS
<1>6. /\ IsSeq(o) /\ Last(o) = F /\ [o EXCEPT ![N] = G] = Append(s, G)
      /\ N = Len(s) + 1 /\ Len(s) \in Nat
  <2>1. IsSeq(Append(s, F)) /\ Len(Append(s, F)) = Len(s) + 1 /\ Last(Append(s, F)) = F
    BY InnermostIs
  <2>2. [Append(s, F) EXCEPT ![Len(Append(s, F))] = G] = Append(s, G)
    BY InnermostIs
  <2> QED BY <1>2, <1>3, <2>1, <2>2, SeqShape
<1>7. o[N] = F
  BY <1>3, <1>6 DEF Last
<1>8. Put(J(o, m, x), value) = J([o EXCEPT ![N].items = Append(@, i)], "after", x)
  <2>1. Last(o).kind = kind /\ Last(o).name = name
    BY <1>1, <1>6 DEF Frame
  <2>2. J(o, m, x).open = o
    BY DEF J
  <2>3. Put(J(o, m, x), value) = [J(o, m, x) EXCEPT !.open[N].items = Append(@, i), !.mode = "after"]
    BY <1>3, <1>4, <2>1, <2>2, Zenon DEF Put, Innermost, Item
  <2> QED BY <2>3 DEF J
<1>9. [o EXCEPT ![N].items = Append(@, i)] = [o EXCEPT ![N] = G]
  <2>1. PICK a : a = Append(items, i)
    OBVIOUS
  <2>2. F.items = items
    BY <1>1 DEF Frame
  <2>3. [F EXCEPT !.items = a] = G
    <3>1. F = [kind |-> kind, name |-> name, items |-> items]
      BY <1>1 DEF Frame
    <3>2. G = [kind |-> kind, name |-> name, items |-> a]
      BY <1>5, <2>1 DEF Frame
    <3> QED BY <3>1, <3>2
  <2> QED BY <1>7, <2>1, <2>2, <2>3
<1> QED BY <1>1, <1>2, <1>4, <1>5, <1>6, <1>8, <1>9

\* A text that stands for a value, wherever one may come.
JsonIs(text, value) ==
  /\ IsSeq(text)
  /\ \A s, kind, name, items, x : \A m \in StartModes("value") :
       IsSeq(s) => \E y : Taken("json", J(Append(s, Frame(kind, name, items)), m, x), text)
                            = J(Append(s, Frame(kind, name, Append(items, Item(kind, name, value)))), "after", y)

\* A text that stands for an element of an array, or a member of an object.
What(kind) == IF kind = "object" THEN "name" ELSE "value"
PieceIs(kind, text, item) ==
  /\ IsSeq(text)
  /\ \A s, name, items, x : \A m \in StartModes(What(kind)) :
       IsSeq(s) => \E n, y : Taken("json", J(Append(s, Frame(kind, name, items)), m, x), text)
                               = J(Append(s, Frame(kind, n, Append(items, item))), "after", y)

LEMMA WordIs ==
  ASSUME NEW c, c \notin Punctuation
  PROVE  JsonIs(<<c>>, Word(c))
<1>1. PICK t : t = <<c>>
  OBVIOUS
<1>2. ASSUME NEW s, NEW kind, NEW name, NEW items, NEW x, NEW m \in StartModes("value"), IsSeq(s)
      PROVE  Taken("json", J(Append(s, Frame(kind, name, items)), m, x), t)
               = J(Append(s, Frame(kind, name, Append(items, Item(kind, name, Word(c))))), "after", x)
  <2>1. PICK o : o = Append(s, Frame(kind, name, items))
    OBVIOUS
  <2>2. Taken("json", J(o, m, x), t) = Char("json", J(o, m, x), c)
    BY <1>1, TakenOne
  <2>3. Char("json", J(o, m, x), c) = Put(J(o, m, x), Word(c))
    BY <1>2, AtWord
  <2>4. Put(J(o, m, x), Word(c)) = J(Append(s, Frame(kind, name, Append(items, Item(kind, name, Word(c))))), "after", x)
    BY <1>2, <2>1, PutIs
  <2> QED BY <2>1, <2>2, <2>3, <2>4
<1> QED BY <1>1, <1>2, OneSeqIs DEF JsonIs

LEMMA ElementIs ==
  ASSUME NEW text, NEW value, JsonIs(text, value)
  PROVE  PieceIs("array", text, value)
<1>1. \A name : Item("array", name, value) = value
  BY DEF Item
<1>2. What("array") = "value"
  BY DEF What
<1> QED BY <1>1, <1>2 DEF JsonIs, PieceIs
\* A text that stands for a string, as a value or as the name of a member.
StringIs(text, s) ==
  /\ IsSeq(text)
  /\ \A open, x : \A of \in {"name", "value"} : \A m \in StartModes(of) :
       Taken("json", J(open, m, x), text) = EndString(J(open, StringMode(of), s))

LEMMA BetweenQuotes ==
  ASSUME NEW body, IsSeq(body), NEW s,
         \A open : \A of \in {"name", "value"} :
           Taken("json", J(open, StringMode(of), <<>>), body) = J(open, StringMode(of), s)
  PROVE  StringIs((<<Quote>> \o body) \o <<Quote>>, s)
<1>1. PICK q : q = <<Quote>>
  OBVIOUS
<1>2. IsSeq(q)
  BY <1>1, OneSeqIs
<1>3. IsSeq(q \o body)
  BY <1>2, ConcatIs
<1>4. IsSeq((q \o body) \o q)
  BY <1>2, <1>3, ConcatIs
<1>5. ASSUME NEW open, NEW x, NEW of \in {"name", "value"}, NEW m \in StartModes(of)
      PROVE  Taken("json", J(open, m, x), (q \o body) \o q) = EndString(J(open, StringMode(of), s))
  <2>1. Taken("json", J(open, m, x), q) = J(open, StringMode(of), <<>>)
    <3>1. Taken("json", J(open, m, x), q) = Char("json", J(open, m, x), Quote)
      BY <1>1, TakenOne
    <3> QED BY <3>1, AtStart
  <2>2. Taken("json", J(open, m, x), q \o body) = J(open, StringMode(of), s)
    <3>1. Taken("json", J(open, m, x), q \o body) = Taken("json", Taken("json", J(open, m, x), q), body)
      BY <1>2, TakenConcat
    <3>2. Taken("json", J(open, StringMode(of), <<>>), body) = J(open, StringMode(of), s)
      OBVIOUS
    <3> QED BY <2>1, <3>1, <3>2
  <2>3. Taken("json", J(open, m, x), (q \o body) \o q)
          = Taken("json", Taken("json", J(open, m, x), q \o body), q)
    BY <1>2, <1>3, TakenConcat
  <2>4. Taken("json", J(open, StringMode(of), s), q) = Char("json", J(open, StringMode(of), s), Quote)
    BY <1>1, TakenOne
  <2>5. Char("json", J(open, StringMode(of), s), Quote) = EndString(J(open, StringMode(of), s))
    BY InString
  <2> QED BY <2>2, <2>3, <2>4, <2>5
<1> QED BY <1>1, <1>4, <1>5 DEF StringIs

\* JsonString's loop over the characters.
EscapeOf(c) == CASE c = Quote     -> <<Backslash, Quote>>
                 [] c = Backslash -> <<Backslash, Backslash>>
                 [] c = Newline   -> <<Backslash, "n">>
                 [] c = Tab       -> <<Backslash, "t">>
                 [] OTHER         -> <<c>>
EscapesOf(s) == [n \in 1..Len(s) |-> EscapeOf(s[n])]

\* What stands for a character that has an escape, and for one that needs none.
LEMMA EscapeOfIs ==
  ASSUME NEW c
  PROVE  /\ c \in {Quote, Backslash, Newline, Tab} =>
              \E z \in DOMAIN Escaped : EscapeOf(c) = <<Backslash, z>> /\ Escaped[z] = c
         /\ c \notin {Quote, Backslash, Newline, Tab} => EscapeOf(c) = <<c>>
<1>1. /\ Quote \in DOMAIN Escaped /\ Backslash \in DOMAIN Escaped
      /\ "n" \in DOMAIN Escaped /\ "t" \in DOMAIN Escaped
  BY DEF Escaped
<1>2. /\ Escaped[Quote] = Quote /\ Escaped[Backslash] = Backslash
      /\ Escaped["n"] = Newline /\ Escaped["t"] = Tab
  BY CharsDiffer DEF Escaped
<1>3. /\ Quote \notin {Backslash, Newline, Tab} /\ Backslash \notin {Newline, Tab} /\ Newline # Tab
  BY DEF Quote, Backslash, Newline, Tab
<1>4. /\ EscapeOf(Quote) = <<Backslash, Quote>> /\ EscapeOf(Backslash) = <<Backslash, Backslash>>
      /\ EscapeOf(Newline) = <<Backslash, "n">> /\ EscapeOf(Tab) = <<Backslash, "t">>
  BY <1>3 DEF EscapeOf
<1>5. c \notin {Quote, Backslash, Newline, Tab} => EscapeOf(c) = <<c>>
  BY DEF EscapeOf
<1> QED BY <1>1, <1>2, <1>4, <1>5

LEMMA EscapeIsSeq == ASSUME NEW c PROVE IsSeq(EscapeOf(c))
<1>1. ASSUME NEW z PROVE IsSeq(<<Backslash, z>>)
  <2>1. <<Backslash, z>> \in Seq({Backslash, z})
    OBVIOUS
  <2> QED BY <2>1 DEF IsSeq
<1> QED BY <1>1, OneSeqIs, EscapeOfIs

LEMMA EscapesAre ==
  ASSUME NEW s, IsSeq(s)
  PROVE  /\ IsSeqs(EscapesOf(s)) /\ Len(EscapesOf(s)) = Len(s)
         /\ JsonString(s) = (<<Quote>> \o FlattenSeq(EscapesOf(s))) \o <<Quote>>
<1>1. Len(s) \in Nat /\ DOMAIN s = 1..Len(s)
  BY SeqShape
<1>2. PICK f : f = EscapesOf(s)
  OBVIOUS
<1>3. DOMAIN f = 1..Len(s) /\ f = [n \in 1..Len(s) |-> f[n]] /\ \A n \in 1..Len(s) : f[n] = EscapeOf(s[n])
  BY <1>2 DEF EscapesOf
<1>4. IsSeq(f) /\ Len(f) = Len(s)
  BY <1>1, <1>3, SeqMade
<1>5. IsSeqs(f)
  BY <1>3, <1>4, EscapeIsSeq DEF IsSeqs
<1>6. JsonString(s) = (<<Quote>> \o FlattenSeq(EscapesOf(s))) \o <<Quote>>
  BY <1>1 DEF JsonString, Each, EscapesOf, EscapeOf
<1> QED BY <1>2, <1>4, <1>5, <1>6

LEMMA EscapeTaken ==
  ASSUME NEW open, NEW of \in {"name", "value"}, NEW u, NEW c, c # Return
  PROVE  Taken("json", J(open, StringMode(of), u), EscapeOf(c)) = J(open, StringMode(of), Append(u, c))
<1>1. CASE c \in {Quote, Backslash, Newline, Tab}
  <2>1. PICK z \in DOMAIN Escaped : EscapeOf(c) = <<Backslash, z>> /\ Escaped[z] = c
    BY <1>1, EscapeOfIs
  <2>2. PICK b : b = <<Backslash>>
    OBVIOUS
  <2>3. IsSeq(b) /\ EscapeOf(c) = Append(b, z)
    BY <2>1, <2>2, OneSeqIs
  <2>4. Taken("json", J(open, StringMode(of), u), Append(b, z))
          = Char("json", Taken("json", J(open, StringMode(of), u), b), z)
    BY <2>3, TakenAppend
  <2>5. Taken("json", J(open, StringMode(of), u), b) = Char("json", J(open, StringMode(of), u), Backslash)
    BY <2>2, TakenOne
  <2>6. Char("json", J(open, StringMode(of), u), Backslash) = J(open, EscapeMode(of), u)
    BY InString
  <2>7. Char("json", J(open, EscapeMode(of), u), z) = J(open, StringMode(of), Append(u, Escaped[z]))
    BY InString
  <2> QED BY <2>1, <2>3, <2>4, <2>5, <2>6, <2>7
<1>2. CASE c \notin {Quote, Backslash, Newline, Tab}
  <2>1. PICK e : e = EscapeOf(c)
    OBVIOUS
  <2>2. e = <<c>>
    BY <1>2, <2>1, EscapeOfIs
  <2>3. Taken("json", J(open, StringMode(of), u), e) = Char("json", J(open, StringMode(of), u), c)
    BY <2>2, TakenOne
  <2>4. c \notin Controls \cup {Quote, Backslash}
    BY <1>2 DEF Controls
  <2>5. Char("json", J(open, StringMode(of), u), c) = J(open, StringMode(of), Append(u, c))
    BY <2>4, InString
  <2> QED BY <2>1, <2>3, <2>5
<1> QED BY <1>1, <1>2

LEMMA EscapesTaken ==
  ASSUME NEW s, Avoids(s, {Return}), NEW open, NEW of \in {"name", "value"}
  PROVE  Taken("json", J(open, StringMode(of), <<>>), FlattenSeq(EscapesOf(s))) = J(open, StringMode(of), s)
<1>1. PICK d : d = EscapesOf(s)
  OBVIOUS
<1>2. IsSeq(s) /\ \A n \in 1..Len(s) : s[n] # Return
  BY DEF Avoids
<1>3. IsSeqs(d) /\ Len(d) = Len(s) /\ Len(s) \in Nat
  BY <1>1, <1>2, EscapesAre, SeqShape
<1>4. PICK r : r = J(open, StringMode(of), <<>>)
  OBVIOUS
<1> DEFINE u(k) == SubSeq(s, 1, k)
           T == {k \in Nat : k <= Len(s) => Taken("json", r, Upto(d, k)) = J(open, StringMode(of), u(k))}
<1>5. 0 \in T
  <2>1. IsSeq(u(0)) /\ Len(u(0)) = 0
    <3>1. 0 \in 0..Len(s) /\ IsSeq(s)
      BY <1>2, <1>3
    <3> QED BY <3>1, FirstIs
  <2>2. u(0) = <<>>
    BY <2>1, SeqShape
  <2>3. Upto(d, 0) = <<>>
    BY <1>3, UptoIs
  <2> HIDE DEF u
  <2> QED BY <1>4, <2>2, <2>3, TakenNone
<1>6. ASSUME NEW k \in T PROVE k + 1 \in T
  <2> SUFFICES ASSUME k + 1 <= Len(s)
               PROVE  Taken("json", r, Upto(d, k + 1)) = J(open, StringMode(of), u(k + 1))
    OBVIOUS
  <2>1. k + 1 \in 0..Len(s) /\ k \in 0..Len(s) /\ k + 1 > 0 /\ (k + 1) - 1 = k /\ k + 1 \in 1..Len(s)
        /\ k <= Len(s)
    BY <1>3
  <2>2. PICK c : c = s[k + 1]
    OBVIOUS
  <2>3. IsSeq(u(k)) /\ u(k + 1) = Append(u(k), c)
    BY <1>2, <2>1, <2>2, FirstIs
  <2>4. Taken("json", r, Upto(d, k)) = J(open, StringMode(of), u(k))
    BY <2>1
  <2> HIDE DEF u
  <2>5. PICK e : e = d[k + 1]
    OBVIOUS
  <2>6. e = EscapeOf(c) /\ c # Return
    BY <1>1, <1>2, <2>1, <2>2, <2>5 DEF EscapesOf
  <2>7. IsSeq(e) /\ IsSeq(Upto(d, k)) /\ Upto(d, k + 1) = Upto(d, k) \o e
    <3>1. k \in 0..Len(d) /\ k + 1 \in 1..Len(d)
      BY <1>3, <2>1
    <3>2. Upto(d, k + 1) = Upto(d, k) \o d[k + 1]
      BY <1>3, <2>1, <3>1, UptoIs
    <3>3. IsSeq(Upto(d, k))
      BY <1>3, <3>1, UptoIs
    <3> QED BY <1>3, <2>5, <3>1, <3>2, <3>3 DEF IsSeqs
  <2>8. Taken("json", r, Upto(d, k) \o e) = Taken("json", J(open, StringMode(of), u(k)), e)
    BY <2>4, <2>7, TakenConcat
  <2>9. Taken("json", J(open, StringMode(of), u(k)), e) = J(open, StringMode(of), Append(u(k), c))
    BY <2>6, EscapeTaken
  <2> QED BY <2>3, <2>7, <2>8, <2>9
<1>7. T = Nat
  BY <1>5, <1>6, Induct
<1>8. u(Len(s)) = s
  BY <1>2, <1>3, FirstIs
<1>9. Upto(d, Len(s)) = FlattenSeq(d)
  BY <1>3, UptoIs
<1>10. Taken("json", r, Upto(d, Len(s))) = J(open, StringMode(of), u(Len(s)))
  BY <1>3, <1>7
<1> HIDE DEF u
<1> QED BY <1>1, <1>4, <1>8, <1>9, <1>10

LEMMA JsonStringIs ==
  ASSUME NEW s, Avoids(s, {Return})
  PROVE  StringIs(JsonString(s), s)
<1>1. PICK body : body = FlattenSeq(EscapesOf(s))
  OBVIOUS
<1>2. IsSeq(s)
  BY DEF Avoids
<1>3. IsSeq(body)
  BY <1>1, <1>2, EscapesAre, UptoIs
<1>4. \A open : \A of \in {"name", "value"} :
        Taken("json", J(open, StringMode(of), <<>>), body) = J(open, StringMode(of), s)
  BY <1>1, EscapesTaken
<1>5. StringIs((<<Quote>> \o body) \o <<Quote>>, s)
  BY <1>3, <1>4, BetweenQuotes
<1> QED BY <1>1, <1>2, <1>5, EscapesAre

LEMMA QuotedIs ==
  ASSUME NEW w, w \notin Controls \cup {Quote, Backslash}
  PROVE  StringIs(Quoted(w), <<w>>)
<1>1. PICK b : b = <<w>>
  OBVIOUS
<1>2. IsSeq(b)
  BY <1>1, OneSeqIs
<1>3. ASSUME NEW open, NEW of \in {"name", "value"}
      PROVE  Taken("json", J(open, StringMode(of), <<>>), b) = J(open, StringMode(of), b)
  <2>1. PICK e : e = <<>>
    OBVIOUS
  <2>2. Taken("json", J(open, StringMode(of), e), b) = Char("json", J(open, StringMode(of), e), w)
    BY <1>1, TakenOne
  <2>3. Char("json", J(open, StringMode(of), e), w) = J(open, StringMode(of), Append(e, w))
    BY InString
  <2>4. Append(e, w) = b
    BY <1>1, <2>1
  <2> QED BY <2>1, <2>2, <2>3, <2>4
<1>4. StringIs((<<Quote>> \o b) \o <<Quote>>, b)
  BY <1>2, <1>3, BetweenQuotes
<1>5. (<<Quote>> \o b) \o <<Quote>> = <<Quote, w, Quote>>
  <2>1. PICK q : q = <<Quote>>
    OBVIOUS
  <2>2. PICK t : t = <<Quote, w, Quote>>
    OBVIOUS
  <2>3. IsSeq(q) /\ Len(q) = 1 /\ q[1] = Quote /\ Len(b) = 1 /\ b[1] = w
    BY <1>1, <2>1, OneSeqIs
  <2>4. t \in Seq({Quote, w}) /\ Len(t) = 3 /\ t[1] = Quote /\ t[2] = w /\ t[3] = Quote
    BY <2>2
  <2>5. PICK a : a = q \o b
    OBVIOUS
  <2>6. PICK u : u = a \o q
    OBVIOUS
  <2>7. IsSeq(a) /\ Len(a) = 2 /\ a[1] = Quote /\ a[2] = w
    <3>1. IsSeq(a) /\ Len(a) = Len(q) + Len(b)
      BY <1>2, <2>3, <2>5, ConcatIs
    <3>2. \A n \in 1..Len(q) : a[n] = q[n]
      BY <1>2, <2>3, <2>5, ConcatIs
    <3>3. \A n \in 1..Len(b) : a[Len(q) + n] = b[n]
      <4>1. IsSeq(q) /\ IsSeq(b)
        BY <1>2, <2>3
      <4> QED BY <2>5, <4>1, ConcatIs
    <3> QED BY <2>3, <3>1, <3>2, <3>3
  <2>8. IsSeq(u) /\ Len(u) = 3 /\ u[1] = Quote /\ u[2] = w /\ u[3] = Quote
    <3>1. IsSeq(u) /\ Len(u) = Len(a) + Len(q)
      BY <2>3, <2>6, <2>7, ConcatIs
    <3>2. \A n \in 1..Len(a) : u[n] = a[n]
      BY <2>3, <2>6, <2>7, ConcatIs
    <3>3. \A n \in 1..Len(q) : u[Len(a) + n] = q[n]
      <4>1. IsSeq(q) /\ IsSeq(a)
        BY <2>3, <2>7
      <4> QED BY <2>6, <4>1, ConcatIs
    <3> QED BY <2>3, <2>7, <3>1, <3>2, <3>3
  <2>9. \A n \in 1..3 : n = 1 \/ n = 2 \/ n = 3
    OBVIOUS
  <2>10. u = t
    <3>1. IsSeq(t)
      BY <2>4 DEF IsSeq
    <3>2. \A n \in 1..Len(u) : u[n] = t[n]
      BY <2>4, <2>8, <2>9
    <3> QED BY <2>4, <2>8, <3>1, <3>2, SeqSame
  <2> QED BY <2>1, <2>2, <2>5, <2>6, <2>10
<1> QED BY <1>1, <1>4, <1>5 DEF Quoted

LEMMA TextIs ==
  ASSUME NEW text, NEW s, StringIs(text, s)
  PROVE  JsonIs(text, Text(s))
<1>1. ASSUME NEW k, NEW kind, NEW name, NEW items, NEW x, NEW m \in StartModes("value"), IsSeq(k)
      PROVE  Taken("json", J(Append(k, Frame(kind, name, items)), m, x), text)
               = J(Append(k, Frame(kind, name, Append(items, Item(kind, name, Text(s))))), "after", s)
  <2>1. PICK o : o = Append(k, Frame(kind, name, items))
    OBVIOUS
  <2>2. Taken("json", J(o, m, x), text) = EndString(J(o, StringMode("value"), s))
    BY DEF StringIs
  <2>3. StringMode("value") = "value string"
    BY DEF StringMode
  <2>4. EndString(J(o, "value string", s)) = Put(J(o, "value string", s), Text(s))
    BY DEF EndString, J
  <2>5. Put(J(o, "value string", s), Text(s))
          = J(Append(k, Frame(kind, name, Append(items, Item(kind, name, Text(s))))), "after", s)
    <3>1. PICK v : v = Text(s)
      OBVIOUS
    <3>2. PICK w : w = "value string"
      OBVIOUS
    <3>3. Put(J(o, w, s), v) = J(Append(k, Frame(kind, name, Append(items, Item(kind, name, v)))), "after", s)
      BY <1>1, <2>1, PutIs
    <3> QED BY <3>1, <3>2, <3>3
  <2> QED BY <2>1, <2>2, <2>3, <2>4, <2>5
<1> QED BY <1>1 DEF StringIs, JsonIs

LEMMA NameTaken ==
  ASSUME NEW text, NEW name, StringIs(text, name), NEW s, IsSeq(s), NEW n, NEW items, NEW x,
         NEW m \in StartModes("name")
  PROVE  Taken("json", J(Append(s, Frame("object", n, items)), m, x), text)
           = J(Append(s, Frame("object", name, items)), "colon", name)
<1>1. PICK F : F = Frame("object", n, items)
  OBVIOUS
<1>2. PICK o : o = Append(s, F)
  OBVIOUS
<1>3. PICK N : N = Len(o)
  OBVIOUS
<1>4. PICK G : G = Frame("object", name, items)
  OBVIOUS
<1>5. IsSeq(o) /\ o[N] = F /\ [o EXCEPT ![N] = G] = Append(s, G)
  <2>1. IsSeq(Append(s, F)) /\ Last(Append(s, F)) = F
    BY InnermostIs
  <2>2. [Append(s, F) EXCEPT ![Len(Append(s, F))] = G] = Append(s, G)
    BY InnermostIs
  <2> QED BY <1>2, <1>3, <2>1, <2>2 DEF Last
<1>6. Taken("json", J(o, m, x), text) = EndString(J(o, "name string", name))
  <2>1. StringMode("name") = "name string"
    BY DEF StringMode
  <2>2. Taken("json", J(o, m, x), text) = EndString(J(o, StringMode("name"), name))
    BY DEF StringIs
  <2> QED BY <2>1, <2>2
<1>7. EndString(J(o, "name string", name)) = J([o EXCEPT ![N].name = name], "colon", name)
  BY <1>3 DEF EndString, J
<1>8. [o EXCEPT ![N].name = name] = [o EXCEPT ![N] = G]
  <2>1. F = [kind |-> "object", name |-> n, items |-> items]
    BY <1>1 DEF Frame
  <2>2. G = [kind |-> "object", name |-> name, items |-> items]
    BY <1>4 DEF Frame
  <2>3. [F EXCEPT !.name = name] = G
    BY <2>1, <2>2
  <2> QED BY <1>5, <2>3
<1> QED BY <1>1, <1>2, <1>4, <1>5, <1>6, <1>7, <1>8

\* A name, a colon and a value.
LEMMA MemberIs ==
  ASSUME NEW a, NEW name, StringIs(a, name), NEW b, NEW value, JsonIs(b, value)
  PROVE  PieceIs("object", (a \o <<":">>) \o b, Member(name, value))
<1>1. PICK c : c = <<":">>
  OBVIOUS
<1>2. IsSeq(a) /\ IsSeq(b) /\ IsSeq(c)
  BY <1>1, OneSeqIs DEF StringIs, JsonIs
<1>3. IsSeq(a \o c)
  BY <1>2, ConcatIs
<1>4. IsSeq((a \o c) \o b)
  BY <1>2, <1>3, ConcatIs
<1>5. ASSUME NEW s, NEW n, NEW items, NEW x, NEW m \in StartModes("name"), IsSeq(s)
      PROVE  \E y : Taken("json", J(Append(s, Frame("object", n, items)), m, x), (a \o c) \o b)
                      = J(Append(s, Frame("object", name, Append(items, Member(name, value)))), "after", y)
  <2>1. PICK r : r = J(Append(s, Frame("object", n, items)), m, x)
    OBVIOUS
  <2>2. PICK o : o = Append(s, Frame("object", name, items))
    OBVIOUS
  <2>3. Taken("json", r, a) = J(o, "colon", name)
    BY <1>5, <2>1, <2>2, NameTaken
  <2>4. Taken("json", r, a \o c) = J(o, "value", name)
    <3>1. Taken("json", r, a \o c) = Taken("json", Taken("json", r, a), c)
      BY <1>2, TakenConcat
    <3>2. Taken("json", J(o, "colon", name), c) = Char("json", J(o, "colon", name), ":")
      BY <1>1, TakenOne
    <3> QED BY <2>3, <3>1, <3>2, AtColon
  <2>5. Taken("json", r, (a \o c) \o b) = Taken("json", J(o, "value", name), b)
    BY <1>2, <1>3, <2>4, TakenConcat
  <2>6. "value" \in StartModes("value")
    BY DEF StartModes
  <2>7. PICK y : Taken("json", J(o, "value", name), b)
                   = J(Append(s, Frame("object", name, Append(items, Item("object", name, value)))), "after", y)
    BY <1>5, <2>2, <2>6 DEF JsonIs
  <2>8. Item("object", name, value) = Member(name, value)
    BY DEF Item
  <2> QED BY <2>1, <2>5, <2>7, <2>8
<1>6. What("object") = "name"
  BY DEF What
<1> QED BY <1>1, <1>4, <1>5, <1>6 DEF PieceIs
\* Arrays and objects: how they start, what comes after a comma, how they end.
Opening(kind) == IF kind = "object" THEN "{" ELSE "["
Closing(kind) == IF kind = "object" THEN "}" ELSE "]"
EmptyMode(kind) == IF kind = "object" THEN "name or end" ELSE "value or end"
CommaMode(kind) == IF kind = "object" THEN "name" ELSE "value"

LEMMA OpeningTaken ==
  ASSUME NEW open, NEW x, NEW m \in StartModes("value"), NEW kind \in {"array", "object"}
  PROVE  Char("json", J(open, m, x), Opening(kind))
           = J(Append(open, Frame(kind, <<>>, <<>>)), EmptyMode(kind), x)
<1>1. CASE kind = "array"
  <2>1. Opening(kind) = "[" /\ EmptyMode(kind) = "value or end"
    BY <1>1 DEF Opening, EmptyMode
  <2> QED BY <1>1, <2>1, AtArray, Zenon
<1>2. CASE kind = "object"
  <2>1. Opening(kind) = "{" /\ EmptyMode(kind) = "name or end"
    BY <1>2 DEF Opening, EmptyMode
  <2> QED BY <1>2, <2>1, AtObject, Zenon
<1> QED BY <1>1, <1>2

LEMMA CommaTaken ==
  ASSUME NEW open, NEW x, NEW kind \in {"array", "object"}, Last(open).kind = kind
  PROVE  Char("json", J(open, "after", x), Comma) = J(open, CommaMode(kind), x)
BY CharsDiffer DEF Char, JsonChar, J, CommaMode, Innermost, Strings, Escapes, Closes

LEMMA ClosingLeaves ==
  ASSUME NEW open, NEW x, NEW kind \in {"array", "object"}, Last(open).kind = kind,
         NEW m \in {"after", EmptyMode(kind)}
  PROVE  Char("json", J(open, m, x), Closing(kind)) = Leave(J(open, m, x))
<1>1. CASE kind = "array"
  <2>1. Closing(kind) = "]" /\ m \in {"after", "value or end"}
    BY <1>1 DEF Closing, EmptyMode
  <2> QED BY <1>1, <2>1, CharsDiffer DEF Char, JsonChar, J, Innermost, Strings, Escapes, Closes, Punctuation
<1>2. CASE kind = "object"
  <2>1. Closing(kind) = "}" /\ m \in {"after", "name or end"}
    BY <1>2 DEF Closing, EmptyMode
  <2> QED BY <1>2, <2>1, CharsDiffer DEF Char, JsonChar, J, Innermost, Strings, Escapes, Closes, Punctuation
<1> QED BY <1>1, <1>2

LEMMA ClosingTaken ==
  ASSUME NEW s, IsSeq(s), NEW k0, NEW n0, NEW i0, NEW kind \in {"array", "object"}, NEW name, NEW items,
         NEW x, NEW m \in {"after", EmptyMode(kind)}
  PROVE  Char("json", J(Append(Append(s, Frame(k0, n0, i0)), Frame(kind, name, items)), m, x), Closing(kind))
           = J(Append(s, Frame(k0, n0, Append(i0, Item(k0, n0, Json(kind, <<>>, items))))), "after", x)
<1>1. PICK o : o = Append(s, Frame(k0, n0, i0))
  OBVIOUS
<1>2. PICK F : F = Frame(kind, name, items)
  OBVIOUS
<1>3. PICK p : p = Append(o, F)
  OBVIOUS
<1>4. IsSeq(o)
  BY <1>1, InnermostIs
<1>5. Last(p) = F /\ Front(p) = o
  BY <1>3, <1>4, InnermostIs
<1>6. Last(p).kind = kind /\ F.items = items
  BY <1>2, <1>5 DEF Frame
<1>7. Char("json", J(p, m, x), Closing(kind)) = Leave(J(p, m, x))
  BY <1>6, ClosingLeaves
<1>8. PICK v : v = Json(kind, <<>>, items)
  OBVIOUS
<1>9. Leave(J(p, m, x)) = Put(J(o, m, x), v)
  <2>1. J(p, m, x).open = p /\ [J(p, m, x) EXCEPT !.open = Front(p)] = J(o, m, x)
    BY <1>5 DEF J
  <2>2. Innermost(J(p, m, x)) = F
    BY <1>5, <2>1 DEF Innermost
  <2>3. F.kind = kind
    BY <1>2 DEF Frame
  <2>4. [J(p, m, x) EXCEPT !.open = Front(@)] = [J(p, m, x) EXCEPT !.open = Front(p)]
    BY <2>1
  <2> QED BY <1>6, <1>8, <2>1, <2>2, <2>3, <2>4, Zenon DEF Leave
<1>10. Put(J(o, m, x), v) = J(Append(s, Frame(k0, n0, Append(i0, Item(k0, n0, v)))), "after", x)
  BY <1>1, PutIs
<1> QED BY <1>1, <1>2, <1>3, <1>7, <1>8, <1>9, <1>10

PiecesAre(kind, texts, items) ==
  /\ IsSeq(texts) /\ IsSeq(items) /\ Len(texts) = Len(items)
  /\ \A n \in 1..Len(texts) : PieceIs(kind, texts[n], items[n])

\* After k pieces with commas between them.
PiecesRead(kind, d, items, open, r, k) ==
  \E n, y : Taken("json", r, Upto(d, k)) = J(Append(open, Frame(kind, n, SubSeq(items, 1, k))), "after", y)

LEMMA PiecesTaken ==
  ASSUME NEW kind \in {"array", "object"}, NEW texts, NEW items, PiecesAre(kind, texts, items),
         NEW open, IsSeq(open), NEW x, NEW k \in 1..Len(texts)
  PROVE  PiecesRead(kind, Separated(texts), items, open, J(Append(open, Frame(kind, <<>>, <<>>)), EmptyMode(kind), x), k)
<1>1. PICK r : r = J(Append(open, Frame(kind, <<>>, <<>>)), EmptyMode(kind), x)
  OBVIOUS
<1>2. PICK d : d = Separated(texts)
  OBVIOUS
<1>3. /\ IsSeq(texts) /\ IsSeq(items) /\ Len(texts) = Len(items) /\ Len(texts) \in Nat
      /\ \A n \in 1..Len(texts) : PieceIs(kind, texts[n], items[n])
  BY SeqShape DEF PiecesAre
<1>4. IsSeqs(texts)
  BY <1>3 DEF PieceIs, IsSeqs
<1>5. IsSeqs(d) /\ Len(d) = Len(texts)
  BY <1>2, <1>4, JoinedIs
<1>6. EmptyMode(kind) \in StartModes(What(kind)) /\ CommaMode(kind) \in StartModes(What(kind))
  BY DEF EmptyMode, CommaMode, StartModes, What
<1> DEFINE u(j) == SubSeq(items, 1, j)
           T == {j \in Nat : j + 1 <= Len(texts) => PiecesRead(kind, d, items, open, r, j + 1)}
<1>7. 0 \in T
  <2> SUFFICES ASSUME 1 <= Len(texts) PROVE PiecesRead(kind, d, items, open, r, 1)
    OBVIOUS
  <2>1. 0 \in 0..Len(items) /\ 1 \in 0..Len(items) /\ 1 > 0 /\ 1 - 1 = 0 /\ 1 \in 1..Len(texts) /\ 1 \in 1..Len(d)
    BY <1>3, <1>5
  <2>2. IsSeq(u(0)) /\ Len(u(0)) = 0
    BY <1>3, <2>1, FirstIs
  <2>3. u(0) = <<>>
    BY <2>2, SeqShape
  <2>4. u(1) = Append(u(0), items[1])
    BY <1>3, <2>1, FirstIs
  <2>5. d[1] = texts[1]
    BY <1>2, <2>1 DEF Separated
  <2>6. Upto(d, 1) = d[1]
    <3>1. Upto(d, 1) = IF 1 = 1 THEN d[1] ELSE Upto(d, 0) \o d[1]
      BY <1>5, <2>1, UptoStep
    <3> QED BY <3>1
  <2>7. PieceIs(kind, texts[1], items[1])
    BY <1>3, <2>1
  <2>8. PICK e : e = <<>>
    OBVIOUS
  <2>9. PICK n, y : Taken("json", J(Append(open, Frame(kind, e, e)), EmptyMode(kind), x), texts[1])
                      = J(Append(open, Frame(kind, n, Append(e, items[1]))), "after", y)
    BY <1>6, <2>7 DEF PieceIs
  <2> HIDE DEF u
  <2>10. Taken("json", r, Upto(d, 1)) = J(Append(open, Frame(kind, n, u(1))), "after", y)
    BY <1>1, <2>3, <2>4, <2>5, <2>6, <2>8, <2>9
  <2> QED BY <2>10 DEF PiecesRead, u
<1>8. ASSUME NEW j \in T PROVE j + 1 \in T
  <2> SUFFICES ASSUME (j + 1) + 1 <= Len(texts) PROVE PiecesRead(kind, d, items, open, r, (j + 1) + 1)
    OBVIOUS
  <2>1. PICK i : i = j + 1
    OBVIOUS
  <2>2. /\ i + 1 \in 0..Len(items) /\ i + 1 > 0 /\ (i + 1) - 1 = i /\ i + 1 \in 1..Len(d)
        /\ i + 1 # 1 /\ i + 1 \in 1..Len(texts) /\ i \in Nat /\ j + 1 <= Len(texts) /\ i \in 0..Len(d)
    BY <1>3, <1>5, <2>1
  <2>3. PICK n, y : Taken("json", r, Upto(d, i)) = J(Append(open, Frame(kind, n, u(i))), "after", y)
    BY <2>1, <2>2 DEF PiecesRead
  <2>4. u(i + 1) = Append(u(i), items[i + 1])
    BY <1>3, <2>2, FirstIs
  <2> HIDE DEF u
  <2>5. PICK t : t = texts[i + 1]
    OBVIOUS
  <2>6. PICK c : c = <<Comma>>
    OBVIOUS
  <2>7. PieceIs(kind, t, items[i + 1]) /\ IsSeq(t) /\ IsSeq(c)
    <3>1. PieceIs(kind, texts[i + 1], items[i + 1])
      BY <1>3, <2>2
    <3>2. IsSeq(texts[i + 1])
      BY <3>1 DEF PieceIs
    <3> QED BY <2>5, <2>6, <3>1, <3>2, OneSeqIs
  <2>8. d[i + 1] = c \o t
    BY <1>2, <2>2, <2>5, <2>6 DEF Separated
  <2>9. PICK p : p = Upto(d, i)
    OBVIOUS
  <2>10. IsSeq(p) /\ Upto(d, i + 1) = p \o (c \o t)
    <3>1. IsSeq(Upto(d, i))
      BY <1>5, <2>2, UptoIs
    <3>2. Upto(d, i + 1) = Upto(d, i) \o d[i + 1]
      BY <1>5, <2>2, UptoIs
    <3> QED BY <2>8, <2>9, <3>1, <3>2
  <2>11. PICK o : o = Append(open, Frame(kind, n, u(i)))
    OBVIOUS
  <2>12. Taken("json", r, p \o (c \o t)) = Taken("json", J(o, "after", y), c \o t)
    <3>1. IsSeq(c \o t)
      BY <2>7, ConcatIs
    <3>2. Taken("json", r, p \o (c \o t)) = Taken("json", Taken("json", r, p), c \o t)
      BY <2>10, <3>1, TakenConcat
    <3> QED BY <2>3, <2>9, <2>11, <3>2
  <2>13. Taken("json", J(o, "after", y), c \o t) = Taken("json", J(o, CommaMode(kind), y), t)
    <3>1. Taken("json", J(o, "after", y), c \o t) = Taken("json", Taken("json", J(o, "after", y), c), t)
      BY <2>7, TakenConcat
    <3>2. Taken("json", J(o, "after", y), c) = Char("json", J(o, "after", y), Comma)
      BY <2>6, TakenOne
    <3>3. Last(o).kind = kind
      <4>1. Last(o) = Frame(kind, n, u(i))
        BY <2>11, InnermostIs
      <4> QED BY <4>1 DEF Frame
    <3>4. Char("json", J(o, "after", y), Comma) = J(o, CommaMode(kind), y)
      BY <3>3, CommaTaken
    <3> QED BY <3>1, <3>2, <3>4
  <2>14. PICK n2, y2 : Taken("json", J(Append(open, Frame(kind, n, u(i))), CommaMode(kind), y), t)
                         = J(Append(open, Frame(kind, n2, Append(u(i), items[i + 1]))), "after", y2)
    <3>1. PICK g : g = u(i)
      OBVIOUS
    <3>2. PICK h : h = items[i + 1]
      OBVIOUS
    <3>3. PieceIs(kind, t, h) /\ CommaMode(kind) \in StartModes(What(kind))
      BY <1>6, <2>7, <3>2
    <3>4. \E n2, y2 : Taken("json", J(Append(open, Frame(kind, n, g)), CommaMode(kind), y), t)
                        = J(Append(open, Frame(kind, n2, Append(g, h))), "after", y2)
      BY <3>3 DEF PieceIs
    <3> QED BY <3>1, <3>2, <3>4
  <2>15. Taken("json", r, Upto(d, i + 1)) = J(Append(open, Frame(kind, n2, u(i + 1))), "after", y2)
    BY <2>4, <2>10, <2>11, <2>12, <2>13, <2>14
  <2> QED BY <2>1, <2>15 DEF PiecesRead, u
<1>9. T = Nat
  BY <1>7, <1>8, Induct
<1>10. k - 1 \in Nat /\ (k - 1) + 1 = k /\ (k - 1) + 1 <= Len(texts)
  BY <1>3
<1>11. PiecesRead(kind, d, items, open, r, k)
  <2>1. PiecesRead(kind, d, items, open, r, (k - 1) + 1)
    BY <1>9, <1>10
  <2> QED BY <1>10, <2>1
<1> QED BY <1>1, <1>2, <1>11

LEMMA CollectionIs ==
  ASSUME NEW kind \in {"array", "object"}, NEW texts, NEW items, PiecesAre(kind, texts, items)
  PROVE  JsonIs((<<Opening(kind)>> \o Joined(texts, <<Comma>>)) \o <<Closing(kind)>>, Json(kind, <<>>, items))
<1>1. PICK a : a = <<Opening(kind)>>
  OBVIOUS
<1>2. PICK c : c = <<Closing(kind)>>
  OBVIOUS
<1>3. PICK d : d = Separated(texts)
  OBVIOUS
<1>4. PICK j : j = FlattenSeq(d)
  OBVIOUS
<1>5. PICK N : N = Len(texts)
  OBVIOUS
<1>6. IsSeq(items) /\ Len(items) = N /\ N \in Nat /\ IsSeqs(texts)
  <2>1. IsSeqs(texts)
    BY DEF PiecesAre, PieceIs, IsSeqs
  <2> QED BY <1>5, <2>1, SeqShape DEF PiecesAre
<1>7. /\ IsSeq(a) /\ IsSeq(c) /\ IsSeq(j) /\ j = Upto(d, N) /\ IsSeqs(d) /\ Len(d) = N
      /\ Joined(texts, <<Comma>>) = j
  <2>1. IsSeqs(d) /\ Len(d) = N /\ Joined(texts, <<Comma>>) = j
    BY <1>3, <1>4, <1>5, <1>6, JoinedIs
  <2>2. Upto(d, Len(d)) = j /\ IsSeq(j)
    BY <1>4, <2>1, UptoIs
  <2> QED BY <1>1, <1>2, <2>1, <2>2, OneSeqIs
<1>8. IsSeq(a \o j)
  BY <1>7, ConcatIs
<1>9. IsSeq((a \o j) \o c)
  BY <1>7, <1>8, ConcatIs
<1>10. PICK v : v = Json(kind, <<>>, items)
  OBVIOUS
<1>11. ASSUME NEW s, NEW k0, NEW n0, NEW i0, NEW x, NEW m \in StartModes("value"), IsSeq(s)
       PROVE  \E y : Taken("json", J(Append(s, Frame(k0, n0, i0)), m, x), (a \o j) \o c)
                       = J(Append(s, Frame(k0, n0, Append(i0, Item(k0, n0, v)))), "after", y)
  <2>1. PICK o : o = Append(s, Frame(k0, n0, i0))
    OBVIOUS
  <2>2. PICK e : e = <<>>
    OBVIOUS
  <2>3. PICK r : r = J(Append(o, Frame(kind, e, e)), EmptyMode(kind), x)
    OBVIOUS
  <2>4. IsSeq(o)
    BY <1>11, <2>1, InnermostIs
  <2>5. Taken("json", J(o, m, x), a) = r
    <3>1. Taken("json", J(o, m, x), a) = Char("json", J(o, m, x), Opening(kind))
      BY <1>1, TakenOne
    <3> QED BY <2>2, <2>3, <3>1, OpeningTaken
  <2>6. \E n, y : \E z \in {"after", EmptyMode(kind)} : Taken("json", r, j) = J(Append(o, Frame(kind, n, items)), z, y)
    <3>1. CASE N = 0
      <4>1. j = e
        BY <1>7, <2>2, <3>1, UptoIs
      <4>2. items = e
        BY <1>6, <2>2, <3>1, SeqShape
      <4>3. Taken("json", r, j) = r
        BY <2>2, <4>1, TakenNone
      <4> QED BY <2>3, <4>2, <4>3
    <3>2. CASE N # 0
      <4>1. N \in 1..Len(texts)
        BY <1>5, <1>6, <3>2
      <4>2. PiecesRead(kind, d, items, o, r, N)
        BY <1>3, <2>2, <2>3, <2>4, <4>1, PiecesTaken
      <4>3. SubSeq(items, 1, N) = items
        <5>1. N \in 0..Len(items) /\ N = Len(items)
          BY <1>6
        <5> QED BY <1>6, <5>1, FirstIs
      <4>4. PICK n, y : Taken("json", r, j) = J(Append(o, Frame(kind, n, items)), "after", y)
        BY <1>7, <4>2, <4>3 DEF PiecesRead
      <4> QED BY <4>4
    <3> QED BY <3>1, <3>2
  <2>7. PICK n, y : \E z \in {"after", EmptyMode(kind)} : Taken("json", r, j) = J(Append(o, Frame(kind, n, items)), z, y)
    BY <2>6
  <2>8. PICK z \in {"after", EmptyMode(kind)} : Taken("json", r, j) = J(Append(o, Frame(kind, n, items)), z, y)
    BY <2>7
  <2>9. PICK q : q = J(Append(o, Frame(kind, n, items)), z, y)
    OBVIOUS
  <2>10. Taken("json", J(o, m, x), a \o j) = q
    <3>1. Taken("json", J(o, m, x), a \o j) = Taken("json", Taken("json", J(o, m, x), a), j)
      BY <1>7, TakenConcat
    <3> QED BY <2>5, <2>8, <2>9, <3>1
  <2>11. Taken("json", J(o, m, x), (a \o j) \o c) = Taken("json", q, c)
    BY <1>7, <1>8, <2>10, TakenConcat
  <2>12. Taken("json", q, c) = Char("json", q, Closing(kind))
    BY <1>2, TakenOne
  <2>13. Char("json", q, Closing(kind)) = J(Append(s, Frame(k0, n0, Append(i0, Item(k0, n0, v)))), "after", y)
    BY <1>10, <1>11, <2>1, <2>9, ClosingTaken
  <2> QED BY <2>1, <2>11, <2>12, <2>13
<1>12. JsonIs((a \o j) \o c, v)
  BY <1>9, <1>11 DEF JsonIs
<1> QED BY <1>1, <1>2, <1>7, <1>10, <1>12
-----------------------------------------------------------------------------
(* The list of the catalog.                                                *)

LEMMA ElementsIs ==
  ASSUME NEW texts, NEW values, PiecesAre("array", texts, values)
  PROVE  JsonIs(Elements(texts), Array(values))
<1>1. PICK kind : kind = "array"
  OBVIOUS
<1>2. JsonIs((<<Opening(kind)>> \o Joined(texts, <<Comma>>)) \o <<Closing(kind)>>, Json(kind, <<>>, values))
  BY <1>1, CollectionIs
<1>3. Opening(kind) = "[" /\ Closing(kind) = "]"
  BY <1>1 DEF Opening, Closing
<1> QED BY <1>1, <1>2, <1>3, Zenon DEF Elements, Array

LEMMA MembersAre ==
  ASSUME NEW texts, NEW members, PiecesAre("object", texts, members)
  PROVE  JsonIs(Members(texts), Object(members))
<1>1. PICK kind : kind = "object"
  OBVIOUS
<1>2. JsonIs((<<Opening(kind)>> \o Joined(texts, <<Comma>>)) \o <<Closing(kind)>>, Json(kind, <<>>, members))
  BY <1>1, CollectionIs
<1>3. Opening(kind) = "{" /\ Closing(kind) = "}"
  BY <1>1 DEF Opening, Closing
<1> QED BY <1>1, <1>2, <1>3, Zenon DEF Members, Object

LEMMA EachPiece ==
  ASSUME NEW kind, NEW n \in Nat, NEW a, a = [k \in 1..n |-> a[k]], NEW x, x = [k \in 1..n |-> x[k]],
         \A k \in 1..n : PieceIs(kind, a[k], x[k])
  PROVE  PiecesAre(kind, a, x)
<1>1. IsSeq(a) /\ Len(a) = n
  BY SeqMade
<1>2. IsSeq(x) /\ Len(x) = n
  BY SeqMade
<1> QED BY <1>1, <1>2 DEF PiecesAre

LEMMA ThreePieces ==
  ASSUME NEW kind, NEW a, NEW b, NEW c, NEW x, NEW y, NEW z,
         PieceIs(kind, a, x), PieceIs(kind, b, y), PieceIs(kind, c, z)
  PROVE  PiecesAre(kind, <<a, b, c>>, <<x, y, z>>)
<1>1. PICK s : s = <<a, b, c>>
  OBVIOUS
<1>2. PICK t : t = <<x, y, z>>
  OBVIOUS
<1>3. s \in Seq({a, b, c}) /\ Len(s) = 3 /\ s[1] = a /\ s[2] = b /\ s[3] = c
  BY <1>1
<1>4. t \in Seq({x, y, z}) /\ Len(t) = 3 /\ t[1] = x /\ t[2] = y /\ t[3] = z
  BY <1>2
<1>5. \A n \in 1..3 : n = 1 \/ n = 2 \/ n = 3
  OBVIOUS
<1>6. \A n \in 1..3 : PieceIs(kind, s[n], t[n])
  BY <1>3, <1>4, <1>5
<1> QED BY <1>1, <1>2, <1>3, <1>4, <1>6 DEF PiecesAre, IsSeq

LEMMA FourPieces ==
  ASSUME NEW kind, NEW a, NEW b, NEW c, NEW d, NEW w, NEW x, NEW y, NEW z,
         PieceIs(kind, a, w), PieceIs(kind, b, x), PieceIs(kind, c, y), PieceIs(kind, d, z)
  PROVE  PiecesAre(kind, <<a, b, c, d>>, <<w, x, y, z>>)
<1>1. PICK s : s = <<a, b, c, d>>
  OBVIOUS
<1>2. PICK t : t = <<w, x, y, z>>
  OBVIOUS
<1>3. s \in Seq({a, b, c, d}) /\ Len(s) = 4 /\ s[1] = a /\ s[2] = b /\ s[3] = c /\ s[4] = d
  BY <1>1
<1>4. t \in Seq({w, x, y, z}) /\ Len(t) = 4 /\ t[1] = w /\ t[2] = x /\ t[3] = y /\ t[4] = z
  BY <1>2
<1>5. \A n \in 1..4 : n = 1 \/ n = 2 \/ n = 3 \/ n = 4
  OBVIOUS
<1>6. \A n \in 1..4 : PieceIs(kind, s[n], t[n])
  BY <1>3, <1>4, <1>5
<1> QED BY <1>1, <1>2, <1>3, <1>4, <1>6 DEF PiecesAre, IsSeq

Wordy(w) == w \notin Controls \cup {Quote, Backslash}

LEMMA NamedIs ==
  ASSUME NEW w, Wordy(w), NEW text, NEW value, JsonIs(text, value)
  PROVE  PieceIs("object", Named(w, text), Member(<<w>>, value))
<1>1. StringIs(Quoted(w), <<w>>)
  BY QuotedIs DEF Wordy
<1>2. PICK n : n = <<w>>
  OBVIOUS
<1>3. PICK q : q = Quoted(w)
  OBVIOUS
<1>4. PieceIs("object", (q \o <<":">>) \o text, Member(n, value))
  BY <1>1, <1>2, <1>3, MemberIs
<1> QED BY <1>2, <1>3, <1>4, Zenon DEF Named

LEMMA WordsAreWordy ==
  /\ Wordy("name") /\ Wordy("path") /\ Wordy("ncol") /\ Wordy("params") /\ Wordy("kind") /\ Wordy("doc")
  /\ Wordy("plugin") /\ Wordy("every") /\ Wordy("columns") /\ Wordy("plugins") /\ Wordy("samplers")
  /\ Wordy("cumulative") /\ Wordy("snapshot")
BY DEF Wordy, Controls, Quote, Backslash, Newline, Tab, Return

LEMMA JsonTextIs == ASSUME NEW s, Avoids(s, {Return}) PROVE JsonIs(JsonString(s), Text(s))
BY JsonStringIs, TextIs

LEMMA NumberIs == ASSUME NumbersPlain, NEW v PROVE JsonIs(<<ToString(v)>>, Word(ToString(v)))
<1>1. ToString(v) \notin Punctuation
  BY DEF NumbersPlain
<1> QED BY <1>1, WordIs

\* What the paths and parameters of the plugins hold.
FilesAvoid(Z) ==
  \A b \in DOMAIN Bundles :
    /\ Avoids(PathOf[b], Z) /\ IsSeq(ParamsOf[b])
    /\ \A n \in 1..Len(ParamsOf[b]) : Avoids(ParamsOf[b][n][1], Z) /\ Avoids(ParamsOf[b][n][2], Z)

\* The parts of Catalog.
ParamsValue(params) == Object([n \in DOMAIN params |-> Member(params[n][1], Text(params[n][2]))])
PluginValue(p) ==
  Object(<<Member(<<"name">>, Text(p.name)), Member(<<"path">>, Text(PathOf[p.stem])),
           Member(<<"ncol">>, Word(ToString(Ncol(p.stem)))),
           Member(<<"params">>, ParamsValue(ParamsOf[p.stem]))>>)
ColumnValue(c) ==
  Object(<<Member(<<"name">>, Text(c.name)), Member(<<"kind">>, Text(<<KindName(c)>>)),
           Member(<<"doc">>, Text(c.doc)), Member(<<"plugin">>, Text(plugins[c.plugin].name))>>)
SamplerValue(s) ==
  Object(<<Member(<<"name">>, Text(s.name)), Member(<<"every">>, Word(ToString(s.every))),
           Member(<<"columns">>, Array([n \in DOMAIN s.names |-> Text(s.names[n])]))>>)

LEMMA ParamsAre ==
  ASSUME NEW params, IsSeq(params),
         \A n \in 1..Len(params) : Avoids(params[n][1], {Return}) /\ Avoids(params[n][2], {Return})
  PROVE  JsonIs(Members([n \in DOMAIN params |->
                           JsonString(params[n][1]) \o <<":">> \o JsonString(params[n][2])]),
                ParamsValue(params))
<1>1. PICK N : N = Len(params)
  OBVIOUS
<1>2. N \in Nat /\ DOMAIN params = 1..N
  BY <1>1, SeqShape
<1>3. PICK a : a = [n \in DOMAIN params |-> JsonString(params[n][1]) \o <<":">> \o JsonString(params[n][2])]
  OBVIOUS
<1>4. PICK x : x = [n \in DOMAIN params |-> Member(params[n][1], Text(params[n][2]))]
  OBVIOUS
<1>5. a = [n \in 1..N |-> a[n]] /\ x = [n \in 1..N |-> x[n]]
  BY <1>2, <1>3, <1>4
<1>6. ASSUME NEW n \in 1..N PROVE PieceIs("object", a[n], x[n])
  <2>1. PICK k : k = params[n][1]
    OBVIOUS
  <2>2. PICK v : v = params[n][2]
    OBVIOUS
  <2>3. Avoids(k, {Return}) /\ Avoids(v, {Return})
    BY <1>1, <2>1, <2>2
  <2>4. StringIs(JsonString(k), k) /\ JsonIs(JsonString(v), Text(v))
    BY <2>3, JsonStringIs, JsonTextIs
  <2>5. PieceIs("object", (JsonString(k) \o <<":">>) \o JsonString(v), Member(k, Text(v)))
    BY <2>4, MemberIs
  <2>6. a[n] = (JsonString(k) \o <<":">>) \o JsonString(v) /\ x[n] = Member(k, Text(v))
    BY <1>2, <1>3, <1>4, <2>1, <2>2, Zenon
  <2> QED BY <2>5, <2>6, Zenon
<1>7. PiecesAre("object", a, x)
  BY <1>2, <1>5, <1>6, EachPiece
<1> QED BY <1>3, <1>4, <1>7, MembersAre DEF ParamsValue

LEMMA PluginJsonIs ==
  ASSUME NumbersPlain, FilesAvoid({Return}), NEW p, p.stem \in DOMAIN Bundles, Avoids(p.name, {Return})
  PROVE  JsonIs(PluginJson(p), PluginValue(p))
<1>1. PICK params : params = ParamsOf[p.stem]
  OBVIOUS
<1>2. JsonIs(JsonString(p.name), Text(p.name))
  BY JsonTextIs
<1>3. JsonIs(JsonString(PathOf[p.stem]), Text(PathOf[p.stem]))
  BY JsonTextIs DEF FilesAvoid
<1>4. JsonIs(<<ToString(Ncol(p.stem))>>, Word(ToString(Ncol(p.stem))))
  BY NumberIs
<1>5. PICK m : m = Members([n \in DOMAIN params |->
                              JsonString(params[n][1]) \o <<":">> \o JsonString(params[n][2])])
  OBVIOUS
<1>6. JsonIs(m, ParamsValue(params))
  <2>1. IsSeq(params)
    BY <1>1 DEF FilesAvoid
  <2>2. \A n \in 1..Len(params) : Avoids(params[n][1], {Return}) /\ Avoids(params[n][2], {Return})
    BY <1>1 DEF FilesAvoid
  <2> QED BY <1>5, <2>1, <2>2, ParamsAre
<1>7. /\ PieceIs("object", Named("name", JsonString(p.name)), Member(<<"name">>, Text(p.name)))
      /\ PieceIs("object", Named("path", JsonString(PathOf[p.stem])), Member(<<"path">>, Text(PathOf[p.stem])))
      /\ PieceIs("object", Named("ncol", <<ToString(Ncol(p.stem))>>), Member(<<"ncol">>, Word(ToString(Ncol(p.stem)))))
      /\ PieceIs("object", Named("params", m), Member(<<"params">>, ParamsValue(params)))
  BY <1>2, <1>3, <1>4, <1>6, NamedIs, WordsAreWordy
<1>8. JsonIs(Members(<<Named("name", JsonString(p.name)), Named("path", JsonString(PathOf[p.stem])),
                       Named("ncol", <<ToString(Ncol(p.stem))>>), Named("params", m)>>),
             Object(<<Member(<<"name">>, Text(p.name)), Member(<<"path">>, Text(PathOf[p.stem])),
                      Member(<<"ncol">>, Word(ToString(Ncol(p.stem)))),
                      Member(<<"params">>, ParamsValue(params))>>))
  BY <1>7, FourPieces, MembersAre, Zenon
<1> QED BY <1>1, <1>5, <1>8, Zenon DEF PluginJson, PluginValue

LEMMA ColumnJsonIs ==
  ASSUME NEW c, Avoids(c.name, {Return}), Avoids(c.doc, {Return}), Avoids(plugins[c.plugin].name, {Return})
  PROVE  JsonIs(ColumnJson(c), ColumnValue(c))
<1>1. JsonIs(JsonString(c.name), Text(c.name)) /\ JsonIs(JsonString(c.doc), Text(c.doc))
  BY JsonTextIs
<1>2. JsonIs(JsonString(plugins[c.plugin].name), Text(plugins[c.plugin].name))
  BY JsonTextIs
<1>3. JsonIs(Quoted(KindName(c)), Text(<<KindName(c)>>))
  <2>1. Wordy(KindName(c))
    BY WordsAreWordy DEF KindName
  <2>2. StringIs(Quoted(KindName(c)), <<KindName(c)>>)
    BY <2>1, QuotedIs DEF Wordy
  <2> QED BY <2>2, TextIs
<1>4. /\ PieceIs("object", Named("name", JsonString(c.name)), Member(<<"name">>, Text(c.name)))
      /\ PieceIs("object", Named("kind", Quoted(KindName(c))), Member(<<"kind">>, Text(<<KindName(c)>>)))
      /\ PieceIs("object", Named("doc", JsonString(c.doc)), Member(<<"doc">>, Text(c.doc)))
      /\ PieceIs("object", Named("plugin", JsonString(plugins[c.plugin].name)),
                           Member(<<"plugin">>, Text(plugins[c.plugin].name)))
  BY <1>1, <1>2, <1>3, NamedIs, WordsAreWordy
<1> QED BY <1>4, FourPieces, MembersAre, Zenon DEF ColumnJson, ColumnValue

LEMMA SamplerJsonIs ==
  ASSUME NumbersPlain, NEW s, Avoids(s.name, {Return}), IsSeq(s.names),
         \A n \in 1..Len(s.names) : Avoids(s.names[n], {Return})
  PROVE  JsonIs(SamplerJson(s), SamplerValue(s))
<1>1. PICK N : N = Len(s.names)
  OBVIOUS
<1>2. N \in Nat /\ DOMAIN s.names = 1..N
  BY <1>1, SeqShape
<1>3. PICK a : a = [n \in DOMAIN s.names |-> JsonString(s.names[n])]
  OBVIOUS
<1>4. PICK x : x = [n \in DOMAIN s.names |-> Text(s.names[n])]
  OBVIOUS
<1>5. a = [n \in 1..N |-> a[n]] /\ x = [n \in 1..N |-> x[n]]
  BY <1>2, <1>3, <1>4
<1>6. ASSUME NEW n \in 1..N PROVE PieceIs("array", a[n], x[n])
  <2>1. Avoids(s.names[n], {Return})
    BY <1>1
  <2>2. JsonIs(JsonString(s.names[n]), Text(s.names[n]))
    BY <2>1, JsonTextIs
  <2>3. a[n] = JsonString(s.names[n]) /\ x[n] = Text(s.names[n])
    BY <1>2, <1>3, <1>4
  <2> QED BY <2>2, <2>3, ElementIs
<1>7. PiecesAre("array", a, x)
  BY <1>2, <1>5, <1>6, EachPiece
<1>8. JsonIs(Elements(a), Array(x))
  BY <1>7, ElementsIs
<1>9. JsonIs(JsonString(s.name), Text(s.name)) /\ JsonIs(<<ToString(s.every)>>, Word(ToString(s.every)))
  BY JsonTextIs, NumberIs
<1>10. /\ PieceIs("object", Named("name", JsonString(s.name)), Member(<<"name">>, Text(s.name)))
       /\ PieceIs("object", Named("every", <<ToString(s.every)>>), Member(<<"every">>, Word(ToString(s.every))))
       /\ PieceIs("object", Named("columns", Elements(a)), Member(<<"columns">>, Array(x)))
  BY <1>8, <1>9, NamedIs, WordsAreWordy
<1>11. JsonIs(Members(<<Named("name", JsonString(s.name)), Named("every", <<ToString(s.every)>>),
                        Named("columns", Elements(a))>>),
              Object(<<Member(<<"name">>, Text(s.name)), Member(<<"every">>, Word(ToString(s.every))),
                       Member(<<"columns">>, Array(x))>>))
  BY <1>10, ThreePieces, MembersAre, Zenon
<1> QED BY <1>3, <1>4, <1>11, Zenon DEF SamplerJson, SamplerValue

LEMMA ListIs ==
  ASSUME NEW s, IsSeq(s), NEW a, a = [n \in DOMAIN s |-> a[n]], NEW x, x = [n \in DOMAIN s |-> x[n]],
         \A n \in 1..Len(s) : JsonIs(a[n], x[n])
  PROVE  JsonIs(Elements(a), Array(x))
<1>1. Len(s) \in Nat /\ DOMAIN s = 1..Len(s)
  BY SeqShape
<1>2. \A n \in 1..Len(s) : PieceIs("array", a[n], x[n])
  BY ElementIs
<1>3. PiecesAre("array", a, x)
  BY <1>1, <1>2, EachPiece
<1> QED BY <1>3, ElementsIs

LEMMA CatalogIs ==
  ASSUME NumbersPlain, FilesAvoid({Return}), CatalogRight, TextsRight({Return})
  PROVE  JsonIs(CatalogJson, Catalog)
<1>1. IsSeq(plugins) /\ IsSeq(columns) /\ IsSeq(samplers)
  BY DEF CatalogRight, FromBundles, ColumnsDeclared, SamplersChosen
<1>2. PICK a : a = [p \in DOMAIN plugins |-> PluginJson(plugins[p])]
  OBVIOUS
<1>3. PICK b : b = [c \in DOMAIN columns |-> ColumnJson(columns[c])]
  OBVIOUS
<1>4. PICK d : d = [s \in DOMAIN samplers |-> SamplerJson(samplers[s])]
  OBVIOUS
<1>5. PICK x : x = [p \in DOMAIN plugins |-> PluginValue(plugins[p])]
  OBVIOUS
<1>6. PICK y : y = [c \in DOMAIN columns |-> ColumnValue(columns[c])]
  OBVIOUS
<1>7. PICK z : z = [s \in DOMAIN samplers |-> SamplerValue(samplers[s])]
  OBVIOUS
<1>8. JsonIs(Elements(a), Array(x))
  <2>1. ASSUME NEW p \in 1..Len(plugins) PROVE JsonIs(a[p], x[p])
    <3>1. plugins[p].stem \in DOMAIN Bundles /\ Avoids(plugins[p].name, {Return})
      BY DEF CatalogRight, FromBundles, TextsRight
    <3>2. JsonIs(PluginJson(plugins[p]), PluginValue(plugins[p]))
      BY <3>1, PluginJsonIs
    <3>3. p \in DOMAIN plugins
      BY <1>1, SeqShape
    <3> QED BY <1>2, <1>5, <3>2, <3>3
  <2> QED BY <1>1, <1>2, <1>5, <2>1, ListIs
<1>9. JsonIs(Elements(b), Array(y))
  <2>1. ASSUME NEW c \in 1..Len(columns) PROVE JsonIs(b[c], y[c])
    <3>1. /\ Avoids(columns[c].name, {Return}) /\ Avoids(columns[c].doc, {Return})
          /\ Avoids(plugins[columns[c].plugin].name, {Return})
      BY DEF TextsRight
    <3>2. JsonIs(ColumnJson(columns[c]), ColumnValue(columns[c]))
      BY <3>1, ColumnJsonIs
    <3>3. c \in DOMAIN columns
      BY <1>1, SeqShape
    <3> QED BY <1>3, <1>6, <3>2, <3>3
  <2> QED BY <1>1, <1>3, <1>6, <2>1, ListIs
<1>10. JsonIs(Elements(d), Array(z))
  <2>1. ASSUME NEW s \in 1..Len(samplers) PROVE JsonIs(d[s], z[s])
    <3>1. PICK cols : cols = samplers[s].columns
      OBVIOUS
    <3>2. PICK names : names = samplers[s].names
      OBVIOUS
    <3>3. /\ IsSeq(cols) /\ names = [k \in DOMAIN cols |-> columns[cols[k]].name]
          /\ \A k \in DOMAIN cols : cols[k] \in 1..Len(columns)
      BY <3>1, <3>2 DEF CatalogRight, SamplersChosen
    <3>4. DOMAIN cols = 1..Len(cols) /\ Len(cols) \in Nat
      BY <3>3, SeqShape
    <3>5. DOMAIN names = 1..Len(cols) /\ names = [k \in 1..Len(cols) |-> names[k]]
      BY <3>3, <3>4
    <3>6. IsSeq(names) /\ Len(names) = Len(cols)
      BY <3>4, <3>5, SeqMade
    <3>7. ASSUME NEW n \in 1..Len(names) PROVE Avoids(names[n], {Return})
      <4>1. cols[n] \in 1..Len(columns) /\ names[n] = columns[cols[n]].name
        BY <3>3, <3>4, <3>6
      <4> QED BY <4>1 DEF TextsRight
    <3>8. Avoids(samplers[s].name, {Return})
      BY DEF TextsRight
    <3>9. JsonIs(SamplerJson(samplers[s]), SamplerValue(samplers[s]))
      BY <3>2, <3>6, <3>7, <3>8, SamplerJsonIs
    <3>10. s \in DOMAIN samplers
      BY <1>1, SeqShape
    <3> QED BY <1>4, <1>7, <3>9, <3>10
  <2> QED BY <1>1, <1>4, <1>7, <2>1, ListIs
<1>11. /\ PieceIs("object", Named("plugins", Elements(a)), Member(<<"plugins">>, Array(x)))
       /\ PieceIs("object", Named("columns", Elements(b)), Member(<<"columns">>, Array(y)))
       /\ PieceIs("object", Named("samplers", Elements(d)), Member(<<"samplers">>, Array(z)))
  BY <1>8, <1>9, <1>10, NamedIs, WordsAreWordy
<1>12. JsonIs(Members(<<Named("plugins", Elements(a)), Named("columns", Elements(b)), Named("samplers", Elements(d))>>),
              Object(<<Member(<<"plugins">>, Array(x)), Member(<<"columns">>, Array(y)),
                       Member(<<"samplers">>, Array(z))>>))
  BY <1>11, ThreePieces, MembersAre, Zenon
<1>13. Catalog = Object(<<Member(<<"plugins">>, Array(x)), Member(<<"columns">>, Array(y)),
                          Member(<<"samplers">>, Array(z))>>)
  BY <1>5, <1>6, <1>7, Zenon DEF Catalog, PluginValue, ParamsValue, ColumnValue, SamplerValue
<1> QED BY <1>2, <1>3, <1>4, <1>12, <1>13, Zenon DEF CatalogJson

LEMMA ValueTaken ==
  ASSUME NEW text, NEW value, JsonIs(text, value), NEW s, IsSeq(s),
         NEW kind, NEW name, NEW items, NEW x, NEW m \in StartModes("value")
  PROVE  \E y : Taken("json", J(Append(s, Frame(kind, name, items)), m, x), text)
                = J(Append(s, Frame(kind, name, Append(items, Item(kind, name, value)))), "after", y)
BY DEF JsonIs

\* A text that stands for a value is JSON, and that value.
LEMMA JsonReads ==
  ASSUME NEW text, NEW value, JsonIs(text, value)
  PROVE  IsJson(text) /\ JsonValue(text) = value
<1>1. PICK e : e = <<>>
  OBVIOUS
<1>2. PICK F : F = Frame("top", e, e)
  OBVIOUS
<1>3. PICK o : o = Append(e, F)
  OBVIOUS
<1>4. IsSeq(e) /\ Len(e) = 0
  BY <1>1, EmptySeqIs
<1>5. JsonReader = J(o, "value", e)
  <2>1. o = <<F>>
    BY <1>1, <1>3
  <2> QED BY <1>1, <1>2, <2>1 DEF JsonReader, J, Frame
<1>6. After("json", JsonReader, text) = Taken("json", J(o, "value", e), text)
  BY <1>5, AfterIs DEF JsonIs
<1>7. "value" \in StartModes("value")
  BY DEF StartModes
<1>8. PICK i : i = Item("top", e, value)
  OBVIOUS
<1>9. i = value
  BY <1>8 DEF Item
<1>10. PICK y : Taken("json", J(o, "value", e), text) = J(Append(e, Frame("top", e, Append(e, i))), "after", y)
  <2>1. PICK top : top = "top"
    OBVIOUS
  <2>2. PICK n : n = e
    OBVIOUS
  <2>3. PICK some : some = e
    OBVIOUS
  <2>4. PICK x : x = e
    OBVIOUS
  <2>5. ASSUME NEW m \in StartModes("value")
        PROVE  \E y : Taken("json", J(Append(e, Frame(top, n, some)), m, x), text)
                       = J(Append(e, Frame(top, n, Append(some, Item(top, n, value)))), "after", y)
    <3>1. IsSeq(e)
      BY <1>4
    <3> QED BY <3>1, ValueTaken
  <2>6. PICK y : Taken("json", J(Append(e, Frame(top, n, some)), "value", x), text)
                   = J(Append(e, Frame(top, n, Append(some, Item(top, n, value)))), "after", y)
    BY <1>7, <2>5
  <2>7. Append(e, Frame(top, n, some)) = o
    BY <1>2, <1>3, <2>1, <2>2, <2>3
  <2>8. Append(e, Frame(top, n, Append(some, Item(top, n, value)))) = Append(e, Frame("top", e, Append(e, i)))
    BY <1>8, <2>1, <2>2, <2>3, Zenon
  <2>9. Taken("json", J(o, "value", e), text) = J(Append(e, Frame("top", e, Append(e, i))), "after", y)
    BY <2>4, <2>6, <2>7, <2>8, Zenon
  <2> QED BY <2>9, Zenon
<1>11. PICK items : items = Append(e, i)
  OBVIOUS
<1>12. items[1] = i
  <2>1. items[Len(e) + 1] = i
    BY <1>4, <1>11, AppendIs
  <2> QED BY <1>4, <2>1
<1>13. PICK G : G = Frame("top", e, items)
  OBVIOUS
<1>14. PICK p : p = Append(e, G)
  OBVIOUS
<1>15. Len(p) = 1 /\ p[1] = G
  <2>1. Len(p) = Len(e) + 1 /\ p[Len(e) + 1] = G
    BY <1>4, <1>14, AppendIs
  <2> QED BY <1>4, <2>1
<1>16. After("json", JsonReader, text) = J(p, "after", y)
  BY <1>6, <1>10, <1>11, <1>13, <1>14
<1>17. G.items = items
  BY <1>13 DEF Frame
<1> QED BY <1>9, <1>12, <1>15, <1>16, <1>17 DEF IsJson, JsonValue, J

LEMMA CatalogReadsBack ==
  ASSUME NumbersPlain, FilesAvoid({Return})
  PROVE  CatalogRight /\ TextsRight({Return}) => JsonReadsBack
BY CatalogIs, JsonReads DEF JsonReadsBack

\* Read as JSON, what check prints is the catalog (PrintCatalogJson), given that printf
\* puts no punctuation into a number and that no control character other than newline and
\* tab, for which \r stands, is in a name, a doc, a path or a parameter: JsonString leaves
\* those as they are.
THEOREM JsonRight ==
  ASSUME NumbersPlain, TextsAvoid({Return}), FilesAvoid({Return})
  PROVE  Spec => []JsonReadsBack
<1>1. Init => CatalogRight /\ TextsRight({Return})
  BY CatalogInit, TextsInit
<1>2. (CatalogRight /\ TextsRight({Return})) /\ [Next]_vars => (CatalogRight /\ TextsRight({Return}))'
  <2> SUFFICES ASSUME CatalogRight, TextsRight({Return}), [Next]_vars
               PROVE  (CatalogRight /\ TextsRight({Return}))'
    OBVIOUS
  <2>1. CatalogRight'
    BY NextKeepsCatalog
  <2>2. TextsRight({Return})'
    BY NextKeepsTexts
  <2> QED BY <2>1, <2>2
<1>3. CatalogRight /\ TextsRight({Return}) => JsonReadsBack
  BY CatalogReadsBack
<1> QED BY <1>1, <1>2, <1>3, PTL DEF Spec
=============================================================================
