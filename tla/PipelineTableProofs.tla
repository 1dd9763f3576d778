------------------------ MODULE PipelineTableProofs ------------------------
(***************************************************************************)
(* A proof of the safety properties of PipelineTable, in the order of the  *)
(* module.                                                                 *)
(*                                                                         *)
(* InBounds rests on IInv: the vector of entries is never smaller than at  *)
(* the start and has room for every instrument that has a pipeline.  When  *)
(* the largest id, for which `instrument + 1' is 0, falls outside, twice   *)
(* its size does not exceed that id, so neither the slots at the start nor *)
(* an earlier id took up half of the range.                                *)
(*                                                                         *)
(* RowsAreTrue and EverythingReported rest on TInv: every engine is where  *)
(* the feed is, a cache taken for fresh equals it, every row says what was *)
(* traded since the row before, and a sampler's baseline is what was       *)
(* traded up to its last row, which the rows since the last Clear add up   *)
(* to.                                                                     *)
(*                                                                         *)
(* BarsOnGrid and BarsBeforeTheirEnd rest on BarsInv: until Close, the     *)
(* next boundary of a time sampler is the end of the bar that its          *)
(* instrument's clock is in, and every event that no row has seen is in    *)
(* that bar. They assume that no ts is negative: C++ division rounds       *)
(* towards zero, and the first bar of a feed that starts before 0 may be   *)
(* two lengths long.                                                       *)
(*                                                                         *)
(* ReportCounts rests on StatsInv, the statistics of the feed and of every *)
(* instrument; EveryNth on CountsInv: the events that count are the N of   *)
(* each row and those in count.                                            *)
(*                                                                         *)
(* Sums over finite sets, the largest element of a set and the loop of     *)
(* FillGaps are reasoned about by induction over the natural numbers, from *)
(* the well-foundedness of <.                                              *)
(***************************************************************************)
EXTENDS PipelineTable, FiniteSetTheorems, WellFoundedInduction, TLAPS

\* The table has never been smaller than at the start, nor than its ids need.
IInv ==
  /\ size \in Nat /\ size >= Slots /\ Live \subseteq Instruments /\ outside \subseteq Instruments
  /\ EntriesInBounds

\* The resize leaves room for what was there, twice over if it is called for, and for the
\* id that asked for it, unless that id is the largest one.
LEMMA GrownIs ==
  ASSUME size \in Nat, NEW i \in Instruments
  PROVE  /\ Grown(i) \in Nat /\ Grown(i) >= size
         /\ Grown(i) > i \/ (i = IdRange - 1 /\ i >= 2 * size)
<1>1. i \in Nat /\ IdRange \in Nat /\ i + 1 <= IdRange
  BY InstrumentsAssumption, BoundsAssumption
<1>2. CASE i < size
  BY <1>1, <1>2 DEF Grown
<1>3. CASE i >= size /\ i + 1 < IdRange
  <2>1. (i + 1) % IdRange = i + 1
    BY <1>1, <1>3
  <2>2. QED
    BY <1>1, <1>3, <2>1 DEF Grown, Larger
<1>4. CASE i >= size /\ i + 1 = IdRange
  <2>1. (i + 1) % IdRange = 0
    BY <1>1, <1>4
  <2>2. Grown(i) = Larger(0, size * 2)
    BY <1>4, <2>1 DEF Grown
  <2>3. Grown(i) = size * 2
    BY <2>2 DEF Larger
  <2>4. QED
    BY <1>1, <1>4, <2>3
<1>5. QED
  BY <1>1, <1>2, <1>3, <1>4

LEMMA ApplyInductive ==
  ASSUME IInv, NEW m, m.instrument \in Instruments, Apply(m)
  PROVE  IInv'
<1> DEFINE i == m.instrument
<1>1. /\ Live' = Live \cup {i} /\ size' = Grown(i) /\ i < Grown(i)
      /\ outside = {} /\ outside' = {}
  <2>1. DOMAIN Resolved(i) = DOMAIN pipe \cup {i}
    BY DEF Resolved
  <2>2. \A entries : DOMAIN Advanced(entries, m) = DOMAIN entries
    BY DEF Advanced
  <2>3. QED
    BY <2>1, <2>2 DEF Apply, Live
<1>2. Grown(i) \in Nat /\ Grown(i) >= size
  BY GrownIs DEF IInv
<1>3. Slots \in Nat /\ \A j \in Instruments : j \in Nat
  BY InstrumentsAssumption, BoundsAssumption
<1>4. size' \in Nat /\ size' >= Slots /\ \A j \in Live' : j < size'
  BY <1>1, <1>2, <1>3 DEF IInv, EntriesInBounds
<1>5. Live' \subseteq Instruments /\ outside' = {}
  BY <1>1 DEF IInv
<1>6. QED
  BY <1>4, <1>5 DEF IInv, EntriesInBounds

LEMMA OutsideInductive ==
  ASSUME IInv, NEW i \in Instruments, ResolveOutside(i)
  PROVE  IInv'
<1>1. Live' = Live /\ size' = Grown(i) /\ i >= Grown(i) /\ outside' = {i}
  BY DEF ResolveOutside, Live
<1>2. i \in Nat /\ Slots \in Nat /\ \A j \in Live : j \in Nat /\ j < size
  BY InstrumentsAssumption, BoundsAssumption DEF IInv, EntriesInBounds
<1>3. Grown(i) \in Nat /\ Grown(i) >= size /\ i = IdRange - 1 /\ i >= 2 * size
  BY <1>1, <1>2, GrownIs DEF IInv
<1>4. size \in Nat /\ size >= Slots
  BY DEF IInv
<1>5. size' \in Nat /\ size' >= Slots /\ \A j \in Live' : j < size'
  BY <1>1, <1>2, <1>3, <1>4
<1>6. 2 * Slots <= i /\ \A j \in Live' : 2 * (j + 1) <= i
  BY <1>1, <1>2, <1>3, <1>4
<1>7. Live' \subseteq Instruments /\ outside' \subseteq Instruments
  BY <1>1 DEF IInv
<1>8. QED
  BY <1>1, <1>3, <1>5, <1>6, <1>7 DEF IInv, EntriesInBounds

\* Resolve indexes entries_ within its bounds, for any ids in any order, with the one
\* exception that EntriesInBounds names: the largest id, while the table has not grown to
\* half of the range by its start or by another id.
THEOREM InBounds == Spec => []EntriesInBounds
<1>1. Init => IInv
  BY BoundsAssumption DEF Init, IInv, Live, EntriesInBounds
<1>2. IInv /\ [Next]_vars => IInv'
  <2> SUFFICES ASSUME IInv, [Next]_vars PROVE IInv'
    OBVIOUS
  <2>1. ASSUME NEW i \in Instruments, NEW jump \in Jumps, Feed(i, jump) PROVE IInv'
    <3>1. PICK m : m.instrument = i /\ Apply(m)
      BY <2>1 DEF Feed, Event
    <3>2. QED
      BY <3>1, ApplyInductive
  <2>2. ASSUME NEW i \in Instruments, ResolveOutside(i) PROVE IInv'
    BY <2>2, OutsideInductive
  <2>3. CASE CloseTable
    <3>1. Live' = Live /\ size' = size /\ outside' = outside
      BY <2>3 DEF CloseTable, Live
    <3>2. QED
      BY <3>1 DEF IInv, EntriesInBounds
  <2>4. CASE UNCHANGED vars
    BY <2>4 DEF vars, IInv, Live, EntriesInBounds
  <2>5. QED
    BY <2>1, <2>2, <2>3, <2>4 DEF Next
<1>3. IInv => EntriesInBounds
  BY DEF IInv
<1>4. QED
  BY <1>1, <1>2, <1>3, PTL DEF Spec

-----------------------------------------------------------------------------
(* Induction.                                                              *)

\* A set of natural numbers that holds 0 and with each number the next holds them all:
\* the least number outside it would follow one inside.
LEMMA Induct ==
  ASSUME NEW T \in SUBSET Nat, 0 \in T, \A n \in T : n + 1 \in T
  PROVE  T = Nat
<1> SUFFICES ASSUME Nat \ T # {} PROVE FALSE
  OBVIOUS
<1>1. PICK n \in Nat \ T : \A m \in Nat \ T : ~(<<m, n>> \in OpToRel(<, Nat))
  <2>1. Nat \ T \subseteq Nat
    OBVIOUS
  <2>2. QED
    BY <2>1, NatLessThanWellFounded, WFMin, Zenon
<1>2. n # 0 /\ n - 1 \in Nat /\ n - 1 < n
  OBVIOUS
<1>3. n - 1 \in T
  BY <1>1, <1>2 DEF OpToRel
<1>4. QED
  BY <1>2, <1>3

\* A function can be defined by recursion on 0..N.
Steps(N, A, a, step) == N \in Nat /\ a \in A /\ step \in [1..N -> [A -> A]]

Runs(N, A, a, step, f) ==
  f \in [0..N -> A] /\ f[0] = a /\ \A n \in 1..N : f[n] = step[n][f[n - 1]]

LEMMA Recursion ==
  ASSUME NEW N, NEW A, NEW a, NEW step, Steps(N, A, a, step)
  PROVE  \E f : Runs(N, A, a, step, f)
<1> USE DEF Steps
<1> DEFINE T == {m \in Nat : m <= N =>
                   \E f \in [0..m -> A] : f[0] = a /\ \A n \in 1..m : f[n] = step[n][f[n - 1]]}
<1>1. 0 \in T
  <2> DEFINE f == [n \in 0..0 |-> a]
  <2>1. f \in [0..0 -> A] /\ f[0] = a /\ \A n \in 1..0 : f[n] = step[n][f[n - 1]]
    OBVIOUS
  <2>2. QED
    BY <2>1
<1>2. ASSUME NEW m \in T PROVE m + 1 \in T
  <2> SUFFICES ASSUME m + 1 <= N
               PROVE  \E f \in [0..m + 1 -> A] :
                        f[0] = a /\ \A n \in 1..m + 1 : f[n] = step[n][f[n - 1]]
    OBVIOUS
  <2>1. m \in Nat
    OBVIOUS
  <2>2. PICK f \in [0..m -> A] : f[0] = a /\ \A n \in 1..m : f[n] = step[n][f[n - 1]]
    BY <2>1
  <2> DEFINE g == [k \in 0..m + 1 |-> IF k = m + 1 THEN step[m + 1][f[m]] ELSE f[k]]
  <2>3. m + 1 \in 1..N /\ m \in 0..m /\ f[m] \in A /\ step[m + 1] \in [A -> A]
    BY <2>1
  <2>4. g \in [0..m + 1 -> A]
    BY <2>1, <2>3
  <2>5. g[0] = a
    BY <2>1, <2>2
  <2>6. ASSUME NEW n \in 1..m + 1 PROVE g[n] = step[n][g[n - 1]]
    <3>1. n - 1 \in 0..m /\ n \in 0..m + 1 /\ n - 1 \in 0..m + 1 /\ n - 1 # m + 1
      BY <2>1
    <3>2. g[n - 1] = f[n - 1]
      BY <3>1
    <3>3. CASE n = m + 1
      BY <3>1, <3>2, <3>3, <2>1
    <3>4. CASE n # m + 1
      <4>1. n \in 1..m
        BY <2>1, <3>4
      <4>2. QED
        BY <3>1, <3>2, <3>4, <4>1, <2>2
    <3>5. QED
      BY <3>3, <3>4
  <2>7. QED
    BY <2>4, <2>5, <2>6
<1>3. T = Nat
  <2> HIDE DEF T
  <2>1. T \in SUBSET Nat
    BY DEF T
  <2>2. QED
    BY <1>1, <1>2, <2>1, Induct
<1>4. QED
  BY <1>3 DEF Runs

-----------------------------------------------------------------------------
(* Sums over finite sets.                                                  *)

\* What a sum is over: whole numbers at every element of a finite set.
Summable(f, S) == IsFiniteSet(S) /\ \A x \in S : f[x] \in Int

\* The recursive function that SumFunctionOnSet evaluates.
Iterates(f, S, g) ==
  g = [T \in SUBSET S |-> IF T = {} THEN 0
                          ELSE LET x == CHOOSE x \in T : TRUE IN f[x] + g[T \ {x}]]

\* An element less.
LEMMA Without ==
  ASSUME NEW T, IsFiniteSet(T), NEW x \in T
  PROVE  /\ IsFiniteSet(T \ {x}) /\ Cardinality(T) \in Nat \ {0}
         /\ Cardinality(T \ {x}) = Cardinality(T) - 1
<1>1. Cardinality(T) \in Nat /\ IsFiniteSet(T \ {x})
  BY FS_CardinalityType, FS_RemoveElement
<1>2. Cardinality(T) # 0
  BY FS_EmptySet
<1>3. QED
  BY <1>1, <1>2, FS_RemoveElement

LEMMA IterExists ==
  ASSUME NEW f, NEW S, IsFiniteSet(S)
  PROVE  \E g : Iterates(f, S, g)
<1> DEFINE Small(n) == {T \in SUBSET S : Cardinality(T) <= n}
           Next1(T, g) == LET x == CHOOSE x \in T : TRUE IN f[x] + g[T \ {x}]
           Solves(n, g) == g = [T \in Small(n) |-> IF T = {} THEN 0 ELSE Next1(T, g)]
           P == {n \in Nat : \E g : Solves(n, g)}
<1>1. \A T \in SUBSET S : IsFiniteSet(T) /\ Cardinality(T) \in Nat /\ Cardinality(T) <= Cardinality(S)
  BY FS_Subset, FS_CardinalityType
<1>2. 0 \in P
  <2> DEFINE g == [T \in Small(0) |-> 0]
  <2>1. \A T \in Small(0) : T = {}
    BY <1>1, FS_EmptySet
  <2>2. Solves(0, g)
    BY <2>1
  <2>3. QED
    BY <2>2
<1>3. ASSUME NEW n \in P PROVE n + 1 \in P
  <2>1. n \in Nat
    OBVIOUS
  <2>2. PICK g : Solves(n, g)
    OBVIOUS
  <2> DEFINE h == [T \in Small(n + 1) |-> IF T = {} THEN 0 ELSE Next1(T, g)]
  <2>3. ASSUME NEW T \in Small(n + 1), T # {}
        PROVE  Next1(T, g) = Next1(T, h)
    <3> DEFINE x == CHOOSE x \in T : TRUE
               U == T \ {x}
    <3>1. x \in T
      BY <2>3
    <3>2. U \in SUBSET S /\ Cardinality(U) = Cardinality(T) - 1
      BY <3>1, <1>1, Without
    <3>3. U \in Small(n) /\ U \in Small(n + 1)
      BY <3>2, <2>1, <1>1
    <3>4. g[U] = IF U = {} THEN 0 ELSE Next1(U, g)
      BY <2>2, <3>3
    <3>5. h[U] = IF U = {} THEN 0 ELSE Next1(U, g)
      BY <3>3
    <3>6. g[U] = h[U]
      BY <3>4, <3>5
    <3>7. QED
      BY <3>6
  <2>4. Solves(n + 1, h)
    <3> HIDE DEF Next1
    <3>1. h = [T \in Small(n + 1) |-> IF T = {} THEN 0 ELSE Next1(T, h)]
      BY <2>3
    <3>2. QED
      BY <3>1
  <2>5. QED
    <3> HIDE DEF Solves
    <3>1. n + 1 \in Nat
      BY <2>1
    <3>2. QED
      BY <3>1, <2>4
<1>4. P = Nat
  <2> HIDE DEF P
  <2>1. P \in SUBSET Nat
    BY DEF P
  <2>2. QED
    BY <1>2, <1>3, <2>1, Induct
<1>5. PICK g : Solves(Cardinality(S), g)
  BY <1>1, <1>4
<1>6. Small(Cardinality(S)) = SUBSET S
  BY <1>1
<1>7. QED
  BY <1>5, <1>6 DEF Iterates

LEMMA IterUnique ==
  ASSUME NEW f, NEW S, IsFiniteSet(S), NEW R \in SUBSET S,
         NEW g, Iterates(f, S, g), NEW h, Iterates(f, R, h)
  PROVE  \A T \in SUBSET R : g[T] = h[T]
<1> DEFINE P == {n \in Nat : \A T \in SUBSET R : Cardinality(T) = n => g[T] = h[T]}
           Next1(T, k) == LET x == CHOOSE x \in T : TRUE IN f[x] + k[T \ {x}]
<1>1. \A T \in SUBSET R : /\ IsFiniteSet(T) /\ Cardinality(T) \in Nat /\ T \in SUBSET S
                          /\ g[T] = (IF T = {} THEN 0 ELSE Next1(T, g))
                          /\ h[T] = (IF T = {} THEN 0 ELSE Next1(T, h))
  <2> SUFFICES ASSUME NEW T \in SUBSET R
               PROVE  /\ IsFiniteSet(T) /\ Cardinality(T) \in Nat /\ T \in SUBSET S
                      /\ g[T] = (IF T = {} THEN 0 ELSE Next1(T, g))
                      /\ h[T] = (IF T = {} THEN 0 ELSE Next1(T, h))
    OBVIOUS
  <2>1. T \in SUBSET S /\ IsFiniteSet(T) /\ Cardinality(T) \in Nat
    BY FS_Subset, FS_CardinalityType
  <2>2. g[T] = (IF T = {} THEN 0 ELSE Next1(T, g))
    BY <2>1 DEF Iterates
  <2>3. h[T] = (IF T = {} THEN 0 ELSE Next1(T, h))
    BY DEF Iterates
  <2>4. QED
    BY <2>1, <2>2, <2>3
<1>2. 0 \in P
  BY <1>1, FS_EmptySet
<1>3. ASSUME NEW n \in P PROVE n + 1 \in P
  <2> SUFFICES ASSUME NEW T \in SUBSET R, Cardinality(T) = n + 1 PROVE g[T] = h[T]
    OBVIOUS
  <2> DEFINE x == CHOOSE x \in T : TRUE
  <2>1. n \in Nat /\ T # {} /\ IsFiniteSet(T)
    <3>1. n \in Nat /\ IsFiniteSet(T)
      BY <1>1
    <3>2. n + 1 # 0
      BY <3>1
    <3>3. QED
      BY <3>1, <3>2, FS_EmptySet
  <2>2. x \in T
    BY <2>1
  <2>3. T \ {x} \in SUBSET R /\ Cardinality(T \ {x}) = n
    <3>1. Cardinality(T \ {x}) = Cardinality(T) - 1
      BY <2>1, <2>2, Without
    <3>2. QED
      BY <2>1, <3>1
  <2>4. g[T \ {x}] = h[T \ {x}]
    BY <2>3
  <2>5. QED
    BY <2>1, <2>4, <1>1
<1>4. P = Nat
  <2> HIDE DEF P
  <2>1. P \in SUBSET Nat
    BY DEF P
  <2>2. QED
    BY <1>2, <1>3, <2>1, Induct
<1>5. QED
  BY <1>1, <1>4

\* The sum over S is what is left when its chosen element is taken out, and that.
LEMMA SumChosen ==
  ASSUME NEW f, NEW S, IsFiniteSet(S)
  PROVE  SumFunctionOnSet(f, S) =
           IF S = {} THEN 0
           ELSE LET x == CHOOSE x \in S : TRUE IN f[x] + SumFunctionOnSet(f, S \ {x})
<1>1. ASSUME NEW R, IsFiniteSet(R)
      PROVE  \E g : Iterates(f, R, g) /\ SumFunctionOnSet(f, R) = g[R]
  <2> DEFINE g == CHOOSE g : Iterates(f, R, g)
  <2>1. Iterates(f, R, g)
    BY <1>1, IterExists
  <2>2. SumFunctionOnSet(f, R) = g[R]
    BY DEF SumFunctionOnSet, FoldFunctionOnSet, MapThenFoldSet, Iterates
  <2>3. QED
    BY <2>1, <2>2
<1>2. PICK g : Iterates(f, S, g) /\ SumFunctionOnSet(f, S) = g[S]
  BY <1>1
<1>3. CASE S = {}
  BY <1>2, <1>3 DEF Iterates
<1>4. CASE S # {}
  <2> DEFINE x == CHOOSE x \in S : TRUE
             U == S \ {x}
  <2>1. g[S] = f[x] + g[U]
    BY <1>2, <1>4 DEF Iterates
  <2>2. IsFiniteSet(U) /\ U \in SUBSET S
    BY FS_Subset
  <2>3. PICK h : Iterates(f, U, h) /\ SumFunctionOnSet(f, U) = h[U]
    BY <1>1, <2>2
  <2>4. g[U] = h[U]
    BY <1>2, <2>2, <2>3, IterUnique
  <2>5. QED
    BY <1>2, <1>4, <2>1, <2>3, <2>4
<1>5. QED
  BY <1>3, <1>4

LEMMA SumEmpty == ASSUME NEW f PROVE SumFunctionOnSet(f, {}) = 0
BY SumChosen, FS_EmptySet

\* A sum is a whole number, and depends on the summands alone.
LEMMA SumFacts ==
  ASSUME NEW f, NEW h, NEW S, Summable(f, S), \A x \in S : f[x] = h[x]
  PROVE  SumFunctionOnSet(f, S) \in Int /\ SumFunctionOnSet(f, S) = SumFunctionOnSet(h, S)
<1> USE DEF Summable
<1> DEFINE Good(T) == SumFunctionOnSet(f, T) \in Int
                        /\ SumFunctionOnSet(f, T) = SumFunctionOnSet(h, T)
           P == {n \in Nat : \A T \in SUBSET S : Cardinality(T) = n => Good(T)}
<1>1. \A T \in SUBSET S : IsFiniteSet(T) /\ Cardinality(T) \in Nat
  BY FS_Subset, FS_CardinalityType
<1>2. 0 \in P
  BY <1>1, SumEmpty, FS_EmptySet
<1>3. ASSUME NEW n \in P PROVE n + 1 \in P
  <2> SUFFICES ASSUME NEW T \in SUBSET S, Cardinality(T) = n + 1 PROVE Good(T)
    OBVIOUS
  <2> DEFINE x == CHOOSE x \in T : TRUE
  <2>1. n \in Nat /\ T # {} /\ IsFiniteSet(T)
    <3>1. n \in Nat /\ IsFiniteSet(T)
      BY <1>1
    <3>2. n + 1 # 0
      BY <3>1
    <3>3. QED
      BY <3>1, <3>2, FS_EmptySet
  <2>2. x \in T
    BY <2>1
  <2>3. Good(T \ {x})
    <3>1. Cardinality(T \ {x}) = Cardinality(T) - 1
      BY <2>1, <2>2, Without
    <3>2. QED
      BY <2>1, <3>1
  <2>4. SumFunctionOnSet(f, T) = f[x] + SumFunctionOnSet(f, T \ {x})
    BY <2>1, SumChosen
  <2>5. SumFunctionOnSet(h, T) = h[x] + SumFunctionOnSet(h, T \ {x})
    BY <2>1, SumChosen
  <2>6. f[x] \in Int /\ f[x] = h[x]
    BY <2>2
  <2>7. QED
    BY <2>3, <2>4, <2>5, <2>6
<1>4. P = Nat
  <2> HIDE DEF P
  <2>1. P \in SUBSET Nat
    BY DEF P
  <2>2. QED
    BY <1>2, <1>3, <2>1, Induct
<1>5. QED
  BY <1>1, <1>4

\* Any element may be taken out: the order in which a sum is formed does not matter.
LEMMA SumWithout ==
  ASSUME NEW f, NEW S, Summable(f, S), NEW z \in S
  PROVE  SumFunctionOnSet(f, S) = f[z] + SumFunctionOnSet(f, S \ {z})
<1> USE DEF Summable
<1> DEFINE P == {n \in Nat : \A T \in SUBSET S : Cardinality(T) = n =>
                   \A y \in T : SumFunctionOnSet(f, T) = f[y] + SumFunctionOnSet(f, T \ {y})}
<1>1. \A T \in SUBSET S : /\ IsFiniteSet(T) /\ Cardinality(T) \in Nat
                          /\ SumFunctionOnSet(f, T) \in Int
  <2>1. \A T \in SUBSET S : IsFiniteSet(T) /\ Cardinality(T) \in Nat
    BY FS_Subset, FS_CardinalityType
  <2>2. QED
    BY <2>1, SumFacts
<1>2. 0 \in P
  BY <1>1, FS_EmptySet
<1>3. ASSUME NEW n \in P PROVE n + 1 \in P
  <2> SUFFICES ASSUME NEW T \in SUBSET S, Cardinality(T) = n + 1, NEW y \in T
               PROVE  SumFunctionOnSet(f, T) = f[y] + SumFunctionOnSet(f, T \ {y})
    OBVIOUS
  <2> DEFINE x == CHOOSE x \in T : TRUE
             Both == (T \ {x}) \ {y}
  <2>1. n \in Nat /\ IsFiniteSet(T) /\ x \in T
    BY <1>1
  <2>2. SumFunctionOnSet(f, T) = f[x] + SumFunctionOnSet(f, T \ {x})
    BY <2>1, SumChosen
  <2>3. CASE x = y
    BY <2>2, <2>3
  <2>4. CASE x # y
    <3>1. \A u \in T : T \ {u} \in SUBSET S /\ Cardinality(T \ {u}) = n
      <4>1. \A u \in T : Cardinality(T \ {u}) = Cardinality(T) - 1
        BY <2>1, Without
      <4>2. QED
        BY <2>1, <4>1
    <3>2. SumFunctionOnSet(f, T \ {x}) = f[y] + SumFunctionOnSet(f, Both)
      <4>1. y \in T \ {x}
        BY <2>4
      <4>2. QED
        BY <2>1, <3>1, <4>1
    <3>3. SumFunctionOnSet(f, T \ {y}) = f[x] + SumFunctionOnSet(f, Both)
      <4>1. x \in T \ {y} /\ (T \ {y}) \ {x} = Both
        BY <2>1, <2>4
      <4>2. QED
        BY <3>1, <4>1
    <3>4. f[x] \in Int /\ f[y] \in Int /\ SumFunctionOnSet(f, Both) \in Int
      BY <2>1, <1>1
    <3> HIDE DEF x, Both
    <3>5. QED
      BY <2>2, <3>2, <3>3, <3>4
  <2>5. QED
    BY <2>3, <2>4
<1>4. P = Nat
  <2> HIDE DEF P
  <2>1. P \in SUBSET Nat
    BY DEF P
  <2>2. QED
    BY <1>2, <1>3, <2>1, Induct
<1>5. QED
  BY <1>1, <1>4

LEMMA SumWith ==
  ASSUME NEW f, NEW S, Summable(f, S), NEW z, f[z] \in Int, z \notin S
  PROVE  SumFunctionOnSet(f, S \cup {z}) = SumFunctionOnSet(f, S) + f[z]
<1>1. Summable(f, S \cup {z})
  BY FS_AddElement DEF Summable
<1>2. (S \cup {z}) \ {z} = S
  OBVIOUS
<1>3. SumFunctionOnSet(f, S \cup {z}) = f[z] + SumFunctionOnSet(f, S)
  BY <1>1, <1>2, SumWithout
<1>4. SumFunctionOnSet(f, S) \in Int
  BY SumFacts
<1>5. QED
  BY <1>3, <1>4

-----------------------------------------------------------------------------
(* The highest of some numbers up to k.                                    *)

LEMMA HighestIs ==
  ASSUME NEW k \in Nat, NEW S \in SUBSET (1..k)
  PROVE  /\ Highest(S) \in 0..k /\ \A x \in S : x <= Highest(S)
         /\ IF S = {} THEN Highest(S) = 0 ELSE Highest(S) \in S
<1> DEFINE T == {n \in Nat : \A U \in SUBSET (1..n) :
                   U # {} => \E x \in U : \A y \in U : x >= y}
<1>1. 0 \in T
  <2>1. 1..0 = {}
    OBVIOUS
  <2>2. QED
    BY <2>1
<1>2. ASSUME NEW n \in T PROVE n + 1 \in T
  <2> SUFFICES ASSUME NEW U \in SUBSET (1..n + 1), U # {}
               PROVE  \E x \in U : \A y \in U : x >= y
    OBVIOUS
  <2>1. n \in Nat
    OBVIOUS
  <2>2. CASE n + 1 \in U
    BY <2>1, <2>2
  <2>3. CASE n + 1 \notin U
    <3>1. U \in SUBSET (1..n)
      BY <2>1, <2>3
    <3>2. QED
      BY <3>1
  <2>4. QED
    BY <2>2, <2>3
<1>3. T = Nat
  <2> HIDE DEF T
  <2>1. T \in SUBSET Nat
    BY DEF T
  <2>2. QED
    BY <1>1, <1>2, <2>1, Induct
<1>4. CASE S = {}
  BY <1>4 DEF Highest
<1>5. CASE S # {}
  <2>1. PICK x \in S : \A y \in S : x >= y
    BY <1>3, <1>5
  <2>2. Max(S) \in S /\ \A y \in S : Max(S) >= y
    BY <2>1 DEF Max
  <2>3. Highest(S) = Max(S)
    BY <1>5 DEF Highest
  <2>4. \A y \in S : y \in 1..k
    OBVIOUS
  <2>5. Max(S) \in 0..k
    <3>1. Max(S) \in 1..k
      BY <2>2, <2>4, Zenon
    <3>2. QED
      BY <3>1
  <2>6. \A y \in S : y <= Max(S)
    BY <2>2, <2>4, <2>5
  <2>7. QED
    BY <1>5, <2>2, <2>3, <2>5, <2>6
<1>6. QED
  BY <1>4, <1>5

\* What makes a number the highest.
LEMMA HighestWith ==
  ASSUME NEW k \in Nat, NEW S \in SUBSET (1..k), NEW h \in S, \A x \in S : x <= h
  PROVE  Highest(S) = h
<1>1. Highest(S) \in S /\ h <= Highest(S)
  BY HighestIs
<1>2. Highest(S) <= h
  BY <1>1
<1>3. Highest(S) \in Int /\ h \in Int
  <2>1. \A x \in S : x \in 1..k
    OBVIOUS
  <2>2. Highest(S) \in 1..k /\ h \in 1..k
    BY <1>1, <2>1, Zenon
  <2>3. QED
    BY <2>2
<1>4. QED
  BY <1>1, <1>2, <1>3

-----------------------------------------------------------------------------
(* The feed.  These are LastClear, Volume and the number of an instrument's *)
(* last event, for any feed.                                               *)

FeedEvents == {m \in [instrument : Instruments, ts : Int, action : {"add", "clear", "trade"},
                      filled : Nat] : m.action # "trade" => m.filled = 0}

Mine(feed, i, k) == {j \in 1..k : feed[j].instrument = i}
MyClears(feed, i, k) == {j \in Mine(feed, i, k) : feed[j].action = "clear"}
MyLast(feed, i, k) == Highest(Mine(feed, i, k))
Cleared(feed, i, k) == Highest(MyClears(feed, i, k))
FillsOf(feed) == [j \in DOMAIN feed |-> feed[j].filled]
SinceClear(feed, i, k) == {j \in Mine(feed, i, k) : j > Cleared(feed, i, k)}
Traded(feed, i, k) == SumFunctionOnSet(FillsOf(feed), SinceClear(feed, i, k))

\* What an instrument has traded up to the k-th event since the row that saw `before'.
Since(feed, i, before, k) == IF Cleared(feed, i, k) > before THEN 0 ELSE Traded(feed, i, before)

LEMMA FeedIs ==
  \A i, k : /\ EventsOf(i, k) = Mine(log, i, k) /\ LastClear(i, k) = Cleared(log, i, k)
            /\ Volume(i, k) = Traded(log, i, k)
BY DEF EventsOf, Mine, LastClear, Cleared, MyClears, Volume, Traded, SinceClear, FillsOf, Filled

LEMMA FeedFacts ==
  ASSUME NEW feed \in Seq(FeedEvents), NEW i, NEW k \in 0..Len(feed)
  PROVE  /\ Mine(feed, i, k) \in SUBSET (1..k) /\ MyClears(feed, i, k) \in SUBSET (1..k)
         /\ MyLast(feed, i, k) \in 0..k /\ Cleared(feed, i, k) \in 0..MyLast(feed, i, k)
         /\ Summable(FillsOf(feed), SinceClear(feed, i, k)) /\ Traded(feed, i, k) \in Int
<1>1. k \in Nat /\ Len(feed) \in Nat /\ DOMAIN feed = 1..Len(feed)
      /\ \A j \in 1..k : feed[j] \in FeedEvents /\ j \in DOMAIN feed
  OBVIOUS
<1>2. Mine(feed, i, k) \in SUBSET (1..k) /\ MyClears(feed, i, k) \in SUBSET (1..k)
      /\ MyClears(feed, i, k) \in SUBSET Mine(feed, i, k)
      /\ SinceClear(feed, i, k) \in SUBSET (1..k)
  BY DEF Mine, MyClears, SinceClear
<1>3. MyLast(feed, i, k) \in 0..k /\ \A j \in Mine(feed, i, k) : j <= MyLast(feed, i, k)
  BY <1>1, <1>2, HighestIs DEF MyLast
<1>4. Cleared(feed, i, k) \in 0..MyLast(feed, i, k)
  <2>1. /\ Cleared(feed, i, k) \in 0..k
        /\ Cleared(feed, i, k) = 0 \/ Cleared(feed, i, k) \in MyClears(feed, i, k)
    BY <1>1, <1>2, HighestIs DEF Cleared
  <2>2. Cleared(feed, i, k) = 0 \/ Cleared(feed, i, k) <= MyLast(feed, i, k)
    BY <1>2, <1>3, <2>1
  <2>3. QED
    BY <1>1, <1>3, <2>1, <2>2
<1>5. Summable(FillsOf(feed), SinceClear(feed, i, k))
  <2>1. IsFiniteSet(SinceClear(feed, i, k))
    <3>1. 1 \in Int /\ k \in Int
      BY <1>1
    <3>2. IsFiniteSet(1..k)
      BY <3>1, FS_Interval
    <3>3. QED
      BY <1>2, <3>2, FS_Subset
  <2>2. \A j \in 1..k : FillsOf(feed)[j] \in Int
    BY <1>1 DEF FillsOf, FeedEvents
  <2>3. QED
    BY <1>2, <2>1, <2>2 DEF Summable
<1>6. Traded(feed, i, k) \in Int
  BY <1>5, SumFacts DEF Traded
<1>7. QED
  BY <1>2, <1>3, <1>4, <1>5, <1>6

\* Before the first event nothing has happened.
LEMMA FeedStart ==
  ASSUME NEW feed, NEW i
  PROVE  /\ Mine(feed, i, 0) = {} /\ MyLast(feed, i, 0) = 0 /\ Cleared(feed, i, 0) = 0
         /\ Traded(feed, i, 0) = 0
<1>1. Mine(feed, i, 0) = {} /\ MyClears(feed, i, 0) = {} /\ SinceClear(feed, i, 0) = {}
  BY DEF Mine, MyClears, SinceClear
<1>2. QED
  BY <1>1, SumEmpty DEF MyLast, Cleared, Traded, Highest

\* The same events of i, cleared and traded the same.
LEMMA SameTraded ==
  ASSUME NEW feed \in Seq(FeedEvents), NEW i, NEW k \in 0..Len(feed), NEW h \in 0..Len(feed),
         Mine(feed, i, h) = Mine(feed, i, k)
  PROVE  /\ MyLast(feed, i, h) = MyLast(feed, i, k) /\ Cleared(feed, i, h) = Cleared(feed, i, k)
         /\ Traded(feed, i, h) = Traded(feed, i, k)
BY DEF MyLast, Cleared, MyClears, Traded, SinceClear

\* At its last event an instrument is where it is now.
LEMMA AtLast ==
  ASSUME NEW feed \in Seq(FeedEvents), NEW i, NEW k \in 0..Len(feed)
  PROVE  LET h == MyLast(feed, i, k)
         IN  /\ h \in 0..k /\ MyLast(feed, i, h) = h /\ Cleared(feed, i, h) = Cleared(feed, i, k)
             /\ Cleared(feed, i, k) \in 0..h
             /\ Traded(feed, i, h) = Traded(feed, i, k)
<1> DEFINE h == MyLast(feed, i, k)
<1>1. h \in 0..k /\ k \in 0..Len(feed) /\ h \in 0..Len(feed) /\ Cleared(feed, i, k) \in 0..h
  <2>1. h \in 0..k /\ Cleared(feed, i, k) \in 0..h
    BY FeedFacts
  <2>2. QED
    BY <2>1
<1>2. Mine(feed, i, h) = Mine(feed, i, k)
  <2>1. \A j \in Mine(feed, i, k) : j <= h
    <3>1. k \in Nat /\ Mine(feed, i, k) \in SUBSET (1..k)
      BY FeedFacts
    <3>2. QED
      BY <3>1, HighestIs DEF MyLast
  <2> HIDE DEF h
  <2>2. QED
    BY <1>1, <2>1 DEF Mine
<1>3. QED
  BY <1>1, <1>2, SameTraded

\* A longer feed tells the same of its beginning.
LEMMA FeedPrefix ==
  ASSUME NEW feed \in Seq(FeedEvents), NEW m \in FeedEvents, NEW i, NEW k \in 0..Len(feed)
  PROVE  LET more == Append(feed, m)
         IN  /\ Mine(more, i, k) = Mine(feed, i, k) /\ MyLast(more, i, k) = MyLast(feed, i, k)
             /\ Cleared(more, i, k) = Cleared(feed, i, k) /\ Traded(more, i, k) = Traded(feed, i, k)
<1> DEFINE more == Append(feed, m)
<1>1. \A j \in 1..k : more[j] = feed[j] /\ j \in DOMAIN feed /\ j \in DOMAIN more
  OBVIOUS
<1> HIDE DEF more
<1>2. Mine(more, i, k) = Mine(feed, i, k) /\ MyClears(more, i, k) = MyClears(feed, i, k)
  BY <1>1 DEF Mine, MyClears
<1>3. Cleared(more, i, k) = Cleared(feed, i, k) /\ MyLast(more, i, k) = MyLast(feed, i, k)
  BY <1>2 DEF Cleared, MyLast
<1>4. SinceClear(more, i, k) = SinceClear(feed, i, k) /\ SinceClear(feed, i, k) \in SUBSET (1..k)
  BY <1>2, <1>3 DEF SinceClear, Mine
<1>5. \A j \in SinceClear(feed, i, k) : FillsOf(feed)[j] = FillsOf(more)[j]
  BY <1>1, <1>4 DEF FillsOf
<1>6. Summable(FillsOf(feed), SinceClear(feed, i, k))
  BY FeedFacts
<1>7. Traded(more, i, k) = Traded(feed, i, k)
  BY <1>4, <1>5, <1>6, SumFacts DEF Traded
<1>8. QED
  BY <1>2, <1>3, <1>7 DEF more

\* One event more: what it does to its own instrument, and that it leaves the others alone.
LEMMA FeedGrows ==
  ASSUME NEW feed \in Seq(FeedEvents), NEW m \in FeedEvents, NEW i
  PROVE  LET more == Append(feed, m)
             n == Len(feed)
             k == Len(feed) + 1
         IN  IF m.instrument # i
             THEN /\ Mine(more, i, k) = Mine(feed, i, n) /\ MyLast(more, i, k) = MyLast(feed, i, n)
                  /\ Cleared(more, i, k) = Cleared(feed, i, n)
                  /\ Traded(more, i, k) = Traded(feed, i, n)
             ELSE /\ Mine(more, i, k) = Mine(feed, i, n) \cup {k} /\ MyLast(more, i, k) = k
                  /\ Cleared(more, i, k) = IF m.action = "clear" THEN k ELSE Cleared(feed, i, n)
                  /\ Traded(more, i, k) = IF m.action = "clear" THEN 0
                                          ELSE Traded(feed, i, n) + m.filled
<1> DEFINE more == Append(feed, m)
           n == Len(feed)
           k == n + 1
<1>1. /\ n \in Nat /\ n \in 0..n /\ k \in Nat /\ more \in Seq(FeedEvents) /\ Len(more) = k
      /\ more[k] = m /\ 1..k = (1..n) \cup {k} /\ k \notin 1..n /\ k \in DOMAIN more
      /\ n \in 0..Len(more) /\ k \in 0..Len(more)
  OBVIOUS
<1>2. /\ Mine(more, i, n) = Mine(feed, i, n) /\ MyLast(more, i, n) = MyLast(feed, i, n)
      /\ Cleared(more, i, n) = Cleared(feed, i, n) /\ Traded(more, i, n) = Traded(feed, i, n)
  BY <1>1, FeedPrefix
<1> HIDE DEF more, n, k
<1>3. CASE m.instrument # i
  <2>1. Mine(more, i, k) = Mine(more, i, n)
    BY <1>1, <1>3 DEF Mine
  <2>2. /\ MyLast(more, i, k) = MyLast(more, i, n) /\ Cleared(more, i, k) = Cleared(more, i, n)
        /\ Traded(more, i, k) = Traded(more, i, n)
    BY <1>1, <2>1, SameTraded
  <2>3. QED
    BY <1>2, <1>3, <2>1, <2>2 DEF more, n, k
<1>4. CASE m.instrument = i
  <2>1. Mine(more, i, k) = Mine(more, i, n) \cup {k}
    BY <1>1, <1>4 DEF Mine
  <2>2. Mine(more, i, k) \in SUBSET (1..k) /\ MyClears(more, i, k) \in SUBSET (1..k)
    BY <1>1, FeedFacts
  <2>3. MyLast(more, i, k) = k
    <3>1. k \in Mine(more, i, k) /\ \A j \in Mine(more, i, k) : j <= k
      BY <1>1, <2>1, <2>2
    <3>2. QED
      BY <1>1, <2>2, <3>1, HighestWith DEF MyLast
  <2>4. CASE m.action = "clear"
    <3>1. k \in MyClears(more, i, k)
      BY <1>1, <2>1, <2>4 DEF MyClears
    <3>2. \A j \in MyClears(more, i, k) : j <= k
      BY <1>1, <2>2
    <3>3. Cleared(more, i, k) = k
      BY <1>1, <2>2, <3>1, <3>2, HighestWith DEF Cleared
    <3>4. SinceClear(more, i, k) = {}
      BY <1>1, <2>2, <3>3 DEF SinceClear
    <3>5. Traded(more, i, k) = 0
      BY <3>4, SumEmpty DEF Traded
    <3>6. QED
      BY <1>2, <1>4, <2>1, <2>3, <2>4, <3>3, <3>5 DEF more, n, k
  <2>5. CASE m.action # "clear"
    <3>1. MyClears(more, i, k) = MyClears(more, i, n)
      BY <1>1, <2>1, <2>5 DEF MyClears
    <3>2. Cleared(more, i, k) = Cleared(more, i, n)
      BY <3>1 DEF Cleared
    <3>3. Cleared(more, i, n) < k
      <4>1. Cleared(more, i, n) \in 0..MyLast(more, i, n) /\ MyLast(more, i, n) \in 0..n
        BY <1>1, FeedFacts
      <4>2. QED
        BY <1>1, <4>1 DEF k
    <3>4. SinceClear(more, i, k) = SinceClear(more, i, n) \cup {k} /\ k \notin SinceClear(more, i, n)
      BY <1>1, <2>1, <3>2, <3>3 DEF SinceClear, Mine
    <3>5. FillsOf(more)[k] = m.filled /\ m.filled \in Int
      BY <1>1 DEF FillsOf, FeedEvents
    <3>6. Summable(FillsOf(more), SinceClear(more, i, n))
      BY <1>1, FeedFacts
    <3>7. Traded(more, i, k) = Traded(more, i, n) + m.filled
      BY <3>4, <3>5, <3>6, SumWith DEF Traded
    <3>8. QED
      BY <1>2, <1>4, <2>1, <2>3, <2>5, <3>2, <3>7 DEF more, n, k
  <2>6. QED
    BY <2>4, <2>5
<1>5. QED
  BY <1>3, <1>4

-----------------------------------------------------------------------------
(* A sampler.                                                              *)

RowType == [ts : Int, volume : Int, seen : Nat]
SamplerType == [next : Int, started : BOOLEAN, dirty : BOOLEAN, last_ts : Int, count : Nat,
                last : Int, rows : Seq(RowType)]
Snapshots == [volume : Int, seen : Nat]
Specs == [trigger : {"time", "events", "trades"}, every : Nat \ {0}, fill_gaps : BOOLEAN]

RowOf(r, ts, v) == [ts |-> ts, volume |-> v.volume - r.last, seen |-> v.seen]

LEMMA EmitIs ==
  ASSUME NEW r \in SamplerType, NEW ts \in Int, NEW v \in Snapshots
  PROVE  LET e == Emit(r, ts, v)
         IN  /\ e \in SamplerType /\ RowOf(r, ts, v) \in RowType
             /\ e.next = r.next /\ e.started = r.started /\ e.dirty = FALSE
             /\ e.last_ts = r.last_ts /\ e.count = r.count /\ e.last = v.volume
             /\ e.rows = Append(r.rows, RowOf(r, ts, v))
<1>1. RowOf(r, ts, v) \in RowType
  BY DEF SamplerType, Snapshots, RowType, RowOf
<1>2. Append(r.rows, RowOf(r, ts, v)) \in Seq(RowType) /\ v.volume \in Int
  BY <1>1 DEF SamplerType, Snapshots
<1>3. Emit(r, ts, v) = [r EXCEPT !.rows = Append(r.rows, RowOf(r, ts, v)), !.last = v.volume,
                                 !.dirty = FALSE]
  BY DEF Emit, RowOf, SamplerType
<1>4. QED
  BY <1>1, <1>2, <1>3 DEF SamplerType

\* One pass of the loop of FillGaps.
FilledOnce(spec, r, v) == [Emit(r, r.next, v) EXCEPT !.next = @ + spec.every]

LEMMA FilledOnceIs ==
  ASSUME NEW spec \in Specs, NEW r \in SamplerType, NEW v \in Snapshots
  PROVE  LET e == FilledOnce(spec, r, v)
         IN  /\ e \in SamplerType /\ r.next \in Int
             /\ e.next = r.next + spec.every /\ e.started = r.started /\ e.dirty = FALSE
             /\ e.last_ts = r.last_ts /\ e.count = r.count /\ e.last = v.volume
             /\ e.rows = Append(r.rows, RowOf(r, r.next, v))
<1> DEFINE e == Emit(r, r.next, v)
<1>1. r.next \in Int /\ spec.every \in Int
  BY DEF SamplerType, Specs
<1>2. /\ e \in SamplerType /\ e.next = r.next /\ e.started = r.started /\ e.dirty = FALSE
      /\ e.last_ts = r.last_ts /\ e.count = r.count /\ e.last = v.volume
      /\ e.rows = Append(r.rows, RowOf(r, r.next, v))
  BY <1>1, EmitIs
<1>3. FilledOnce(spec, r, v) = [e EXCEPT !.next = @ + spec.every]
  BY DEF FilledOnce
<1> HIDE DEF e
<1>4. FilledOnce(spec, r, v) = [e EXCEPT !.next = r.next + spec.every]
  BY <1>2, <1>3
<1>5. r.next + spec.every \in Int
  BY <1>1
<1>6. QED
  BY <1>1, <1>2, <1>4, <1>5 DEF SamplerType

\* The recursive function that FillGaps evaluates.
IsAfter(spec, s, v, passes, g) ==
  g = [k \in 0..passes |->
         IF k = 0 THEN s ELSE [Emit(g[k - 1], g[k - 1].next, v) EXCEPT !.next = @ + spec.every]]

\* What holds of the sampler after k passes if each pass establishes it from the one
\* before; G[k] is the set of samplers of which it holds.
LEMMA FillGapsIn ==
  ASSUME NEW spec \in Specs, NEW s \in SamplerType, NEW ts \in Int, NEW v \in Snapshots,
         NEW passes \in Nat, passes = Quotient(ts - s.next, spec.every) + 1,
         NEW G, s \in G[0],
         \A k \in 1..passes : \A r \in SamplerType :
           r \in G[k - 1] => FilledOnce(spec, r, v) \in G[k]
  PROVE  FillGaps(spec, s, ts, v) \in SamplerType /\ FillGaps(spec, s, ts, v) \in G[passes]
<1> DEFINE g == CHOOSE g : IsAfter(spec, s, v, passes, g)
           Once == [r \in SamplerType |-> FilledOnce(spec, r, v)]
           step == [k \in 1..passes |-> Once]
<1>1. \E f : IsAfter(spec, s, v, passes, f)
  <2>1. Steps(passes, SamplerType, s, step)
    <3>1. \A r \in SamplerType : FilledOnce(spec, r, v) \in SamplerType
      BY FilledOnceIs
    <3>2. Once \in [SamplerType -> SamplerType]
      BY <3>1
    <3>3. QED
      BY <3>2 DEF Steps
  <2>2. PICK f : Runs(passes, SamplerType, s, step, f)
    BY <2>1, Recursion
  <2>3. /\ f \in [0..passes -> SamplerType] /\ f[0] = s
        /\ \A n \in 1..passes : f[n] = step[n][f[n - 1]]
    BY <2>2 DEF Runs
  <2>4. ASSUME NEW k \in 0..passes, k # 0
        PROVE  f[k] = [Emit(f[k - 1], f[k - 1].next, v) EXCEPT !.next = @ + spec.every]
    <3>1. k \in 1..passes /\ k - 1 \in 0..passes
      BY <2>4
    <3>2. f[k - 1] \in SamplerType /\ f[k] = step[k][f[k - 1]]
      BY <2>3, <3>1
    <3>3. f[k] = FilledOnce(spec, f[k - 1], v)
      BY <3>1, <3>2
    <3>4. QED
      BY <3>3 DEF FilledOnce
  <2>5. \A k \in 0..passes :
          f[k] = IF k = 0 THEN s
                 ELSE [Emit(f[k - 1], f[k - 1].next, v) EXCEPT !.next = @ + spec.every]
    BY <2>3, <2>4
  <2>6. f = [k \in 0..passes |-> f[k]]
    BY <2>3
  <2> DEFINE F(k) == IF k = 0 THEN s
                     ELSE [Emit(f[k - 1], f[k - 1].next, v) EXCEPT !.next = @ + spec.every]
  <2>7. \A k \in 0..passes : f[k] = F(k)
    BY <2>5
  <2> HIDE DEF F
  <2>8. f = [k \in 0..passes |-> F(k)]
    BY <2>6, <2>7
  <2>9. QED
    BY <2>8 DEF IsAfter, F
<1>2. IsAfter(spec, s, v, passes, g)
  BY <1>1
<1>3. FillGaps(spec, s, ts, v) = g[passes]
  BY DEF FillGaps, IsAfter
<1> HIDE DEF g
<1>4. g[0] = s
  BY <1>2 DEF IsAfter
<1>5. ASSUME NEW k \in 1..passes PROVE g[k] = FilledOnce(spec, g[k - 1], v)
  <2>1. k \in 0..passes /\ k # 0
    OBVIOUS
  <2>2. QED
    BY <1>2, <2>1 DEF IsAfter, FilledOnce
<1> DEFINE T == {n \in Nat : n <= passes => g[n] \in SamplerType /\ g[n] \in G[n]}
<1>6. 0 \in T
  BY <1>4
<1>7. ASSUME NEW n \in T PROVE n + 1 \in T
  <2> SUFFICES ASSUME n + 1 <= passes
               PROVE  g[n + 1] \in SamplerType /\ g[n + 1] \in G[n + 1]
    OBVIOUS
  <2>1. PICK k : k = n + 1 /\ k - 1 = n /\ k \in 1..passes
    OBVIOUS
  <2>2. g[k - 1] \in SamplerType /\ g[k - 1] \in G[k - 1]
    BY <2>1
  <2>3. g[k] = FilledOnce(spec, g[k - 1], v)
    BY <2>1, <1>5
  <2>4. g[k] \in SamplerType /\ g[k] \in G[k]
    BY <2>1, <2>2, <2>3, FilledOnceIs
  <2>5. QED
    BY <2>1, <2>4
<1>8. T = Nat
  <2> HIDE DEF T
  <2>1. T \in SUBSET Nat
    BY DEF T
  <2>2. QED
    BY <1>6, <1>7, <2>1, Induct
<1>9. QED
  BY <1>3, <1>8

-----------------------------------------------------------------------------
(* What the rows of a sampler hold.                                        *)

SeenAhead(rows, n) == IF n = 1 THEN 0 ELSE rows[n - 1].seen
LastSeen(rows) == SeenAhead(rows, Len(rows) + 1)
ReportedRows(feed, i, rows) == {n \in DOMAIN rows : rows[n].seen >= Cleared(feed, i, Len(feed))}

RowHolds(feed, i, row, before) ==
  row.seen <= Len(feed) /\ row.volume = Traded(feed, i, row.seen) - Since(feed, i, before, row.seen)

\* Each row is true of the feed, the baseline is what was traded up to the last row, and
\* that is also what the rows since the last Clear add up to.
Holds(feed, i, rows, last) ==
  /\ \A n \in DOMAIN rows : RowHolds(feed, i, rows[n], SeenAhead(rows, n))
  /\ last = Since(feed, i, LastSeen(rows), Len(feed))
  /\ last = SumFunctionOnSet(Volumes(rows), ReportedRows(feed, i, rows))

LEMMA RowsSummable ==
  ASSUME NEW feed, NEW i, NEW rows \in Seq(RowType)
  PROVE  /\ Summable(Volumes(rows), ReportedRows(feed, i, rows))
         /\ LastSeen(rows) \in Nat /\ \A n \in DOMAIN rows : rows[n] \in RowType
<1>1. Len(rows) \in Nat /\ DOMAIN rows = 1..Len(rows) /\ \A n \in DOMAIN rows : rows[n] \in RowType
  OBVIOUS
<1>2. IsFiniteSet(ReportedRows(feed, i, rows))
  <2>1. 1 \in Int /\ Len(rows) \in Int
    BY <1>1
  <2>2. IsFiniteSet(DOMAIN rows)
    BY <1>1, <2>1, FS_Interval
  <2>3. QED
    BY <2>2, FS_Subset DEF ReportedRows
<1>3. \A n \in DOMAIN rows : Volumes(rows)[n] \in Int
  BY <1>1 DEF Volumes, RowType
<1>4. LastSeen(rows) \in Nat
  <2>1. CASE Len(rows) = 0
    BY <2>1 DEF LastSeen, SeenAhead
  <2>2. CASE Len(rows) # 0
    <3>1. Len(rows) \in DOMAIN rows /\ Len(rows) + 1 # 1 /\ Len(rows) + 1 - 1 = Len(rows)
      BY <1>1, <2>2
    <3>2. rows[Len(rows)].seen \in Nat
      BY <1>1, <3>1 DEF RowType
    <3>3. QED
      BY <3>1, <3>2 DEF LastSeen, SeenAhead
  <2>3. QED
    BY <2>1, <2>2
<1>5. QED
  BY <1>1, <1>2, <1>3, <1>4 DEF ReportedRows, Summable

\* A row read now keeps them so, and what it read becomes the baseline.
LEMMA AppendHolds ==
  ASSUME NEW feed \in Seq(FeedEvents), NEW i, NEW rows \in Seq(RowType), NEW last \in Int,
         Holds(feed, i, rows, last), NEW row \in RowType,
         row.seen = MyLast(feed, i, Len(feed)),
         row.volume = Traded(feed, i, Len(feed)) - last
  PROVE  Holds(feed, i, Append(rows, row), Traded(feed, i, Len(feed)))
<1> DEFINE K == Len(feed)
           h == MyLast(feed, i, K)
           more == Append(rows, row)
           N == Len(rows)
<1>1. /\ K \in Nat /\ K \in 0..K /\ N \in Nat /\ DOMAIN rows = 1..N /\ DOMAIN more = 1..N + 1
      /\ Len(more) = N + 1 /\ more[N + 1] = row /\ \A n \in 1..N : more[n] = rows[n]
      /\ more \in Seq(RowType)
  OBVIOUS
<1>2. /\ h \in 0..K /\ Cleared(feed, i, h) = Cleared(feed, i, K) /\ Traded(feed, i, h) = Traded(feed, i, K)
      /\ Cleared(feed, i, K) \in 0..h /\ Traded(feed, i, K) \in Int
  BY <1>1, AtLast, FeedFacts
<1>3. row.seen = h /\ row.volume = Traded(feed, i, K) - last
  OBVIOUS
<1> HIDE DEF K, h, more, N
<1>4. SeenAhead(more, N + 1) = LastSeen(rows) /\ LastSeen(more) = h
  <2>1. CASE N = 0
    BY <1>1, <1>3, <2>1 DEF SeenAhead, LastSeen, N
  <2>2. CASE N # 0
    <3>1. N \in 1..N /\ N + 1 # 1 /\ N + 1 - 1 = N
      BY <1>1, <2>2
    <3>2. more[N] = rows[N]
      BY <1>1, <3>1
    <3>3. SeenAhead(more, N + 1) = LastSeen(rows)
      BY <3>1, <3>2 DEF SeenAhead, LastSeen, N
    <3>4. N + 1 + 1 # 1 /\ N + 1 + 1 - 1 = N + 1
      BY <1>1
    <3>5. LastSeen(more) = h
      BY <1>1, <1>3, <3>4 DEF SeenAhead, LastSeen
    <3>6. QED
      BY <3>3, <3>5
  <2>3. QED
    BY <2>1, <2>2
<1>5. ASSUME NEW n \in DOMAIN more PROVE RowHolds(feed, i, more[n], SeenAhead(more, n))
  <2>1. CASE n = N + 1
    <3>1. last = Since(feed, i, LastSeen(rows), h)
      BY <1>2 DEF Holds, Since, K
    <3>2. row.seen <= Len(feed)
      BY <1>1, <1>2, <1>3 DEF K
    <3>3. QED
      BY <1>1, <1>2, <1>3, <1>4, <2>1, <3>1, <3>2 DEF RowHolds
  <2>2. CASE n # N + 1
    <3>1. n \in 1..N /\ (n # 1 => n - 1 \in 1..N)
      BY <1>1, <2>2
    <3>2. more[n] = rows[n] /\ SeenAhead(more, n) = SeenAhead(rows, n)
      BY <1>1, <3>1 DEF SeenAhead
    <3>3. QED
      BY <1>1, <3>1, <3>2 DEF Holds
  <2>3. QED
    BY <2>1, <2>2
<1>6. Traded(feed, i, K) = Since(feed, i, LastSeen(more), K)
  BY <1>1, <1>2, <1>4 DEF Since
<1>7. Traded(feed, i, K) = SumFunctionOnSet(Volumes(more), ReportedRows(feed, i, more))
  <2> DEFINE old == ReportedRows(feed, i, rows)
  <2>1. /\ Summable(Volumes(rows), old) /\ Summable(Volumes(more), ReportedRows(feed, i, more))
    BY <1>1, RowsSummable
  <2>2. old \in SUBSET (1..N) /\ N + 1 \notin old
    BY <1>1 DEF ReportedRows
  <2>3. ReportedRows(feed, i, more) = old \cup {N + 1}
    <3>1. row.seen >= Cleared(feed, i, Len(feed))
      BY <1>2, <1>3 DEF K
    <3>2. 1..N + 1 = (1..N) \cup {N + 1}
      BY <1>1
    <3>3. QED
      BY <1>1, <3>1, <3>2 DEF ReportedRows
  <2>4. \A n \in old : Volumes(rows)[n] = Volumes(more)[n]
    <3>1. \A n \in 1..N : n \in DOMAIN rows /\ n \in DOMAIN more /\ more[n] = rows[n]
      BY <1>1
    <3>2. QED
      BY <2>2, <3>1 DEF Volumes
  <2>5. SumFunctionOnSet(Volumes(more), old) = last
    <3>1. SumFunctionOnSet(Volumes(rows), old) = SumFunctionOnSet(Volumes(more), old)
      BY <2>1, <2>4, SumFacts
    <3>2. QED
      BY <3>1 DEF Holds
  <2>6. Volumes(more)[N + 1] = Traded(feed, i, K) - last
    <3>1. N + 1 \in DOMAIN more
      BY <1>1
    <3>2. QED
      BY <1>1, <1>3, <3>1 DEF Volumes
  <2>7. Summable(Volumes(more), old)
    BY <2>1, <2>3 DEF Summable
  <2>8. SumFunctionOnSet(Volumes(more), old \cup {N + 1})
          = SumFunctionOnSet(Volumes(more), old) + Volumes(more)[N + 1]
    <3>1. Volumes(more)[N + 1] \in Int
      BY <1>2, <2>6
    <3>2. QED
      BY <2>2, <2>7, <3>1, SumWith
  <2> HIDE DEF old
  <2>9. QED
    BY <1>2, <2>3, <2>5, <2>6, <2>8
<1>8. QED
  BY <1>5, <1>6, <1>7 DEF Holds, K, more

\* An event keeps them so, with the baseline that ResetBaseline leaves after a Clear.
LEMMA FeedHolds ==
  ASSUME NEW feed \in Seq(FeedEvents), NEW i, NEW rows \in Seq(RowType), NEW last \in Int,
         Holds(feed, i, rows, last), NEW m \in FeedEvents
  PROVE  Holds(Append(feed, m), i, rows,
               IF m.instrument = i /\ m.action = "clear" THEN 0 ELSE last)
<1> DEFINE more == Append(feed, m)
           K == Len(feed)
           now == IF m.instrument = i /\ m.action = "clear" THEN 0 ELSE last
<1>1. /\ K \in Nat /\ K \in 0..K /\ Len(more) = K + 1
      /\ K + 1 \in 0..Len(more)
  OBVIOUS
<1>2. \A k \in 0..K : /\ Cleared(more, i, k) = Cleared(feed, i, k)
                      /\ Traded(more, i, k) = Traded(feed, i, k)
  BY FeedPrefix
<1>3. /\ LastSeen(rows) \in Nat /\ \A n \in DOMAIN rows : rows[n] \in RowType
      /\ Len(rows) \in Nat /\ DOMAIN rows = 1..Len(rows)
  BY RowsSummable
<1>4. \A n \in DOMAIN rows : rows[n].seen \in 0..K
  <2>1. \A n \in DOMAIN rows : rows[n].seen <= K /\ rows[n].seen \in Nat
    BY <1>3 DEF Holds, RowHolds, RowType
  <2>2. QED
    BY <1>1, <2>1
<1>5. \A n \in DOMAIN rows : SeenAhead(rows, n) \in 0..K
  <2> SUFFICES ASSUME NEW n \in DOMAIN rows PROVE SeenAhead(rows, n) \in 0..K
    OBVIOUS
  <2>1. CASE n = 1
    BY <1>1, <2>1 DEF SeenAhead
  <2>2. CASE n # 1
    <3>1. n - 1 \in DOMAIN rows
      BY <1>3, <2>2
    <3>2. QED
      BY <1>4, <2>2, <3>1 DEF SeenAhead
  <2>3. QED
    BY <2>1, <2>2
<1>6. LastSeen(rows) \in 0..K
  <2>1. CASE Len(rows) = 0
    BY <1>1, <2>1 DEF LastSeen, SeenAhead
  <2>2. CASE Len(rows) # 0
    <3>1. Len(rows) \in DOMAIN rows /\ Len(rows) + 1 # 1 /\ Len(rows) + 1 - 1 = Len(rows)
      BY <1>3, <2>2
    <3>2. QED
      BY <1>4, <3>1 DEF LastSeen, SeenAhead
  <2>3. QED
    BY <2>1, <2>2
<1> HIDE DEF more, K, now
<1>7. \A n \in DOMAIN rows : RowHolds(more, i, rows[n], SeenAhead(rows, n))
  <2> SUFFICES ASSUME NEW n \in DOMAIN rows PROVE RowHolds(more, i, rows[n], SeenAhead(rows, n))
    OBVIOUS
  <2>1. RowHolds(feed, i, rows[n], SeenAhead(rows, n))
    BY DEF Holds
  <2>2. rows[n].seen <= Len(more)
    BY <1>1, <1>4
  <2>3. QED
    BY <1>2, <1>4, <1>5, <2>1, <2>2 DEF RowHolds, Since
<1>8. CASE m.instrument = i /\ m.action = "clear"
  <2>1. Cleared(more, i, K + 1) = K + 1
    BY <1>8, FeedGrows DEF more, K
  <2>2. Since(more, i, LastSeen(rows), K + 1) = 0
    BY <1>1, <1>6, <2>1 DEF Since
  <2>3. ReportedRows(more, i, rows) = {}
    BY <1>1, <1>4, <2>1 DEF ReportedRows
  <2>4. now = 0
    BY <1>8 DEF now
  <2>5. QED
    BY <1>1, <1>7, <2>2, <2>3, <2>4, SumEmpty DEF Holds, more, now
<1>9. CASE ~(m.instrument = i /\ m.action = "clear")
  <2>1. Cleared(more, i, K + 1) = Cleared(feed, i, K)
    BY <1>9, FeedGrows DEF more, K
  <2>2. Since(more, i, LastSeen(rows), K + 1) = Since(feed, i, LastSeen(rows), K)
    BY <1>2, <1>6, <2>1 DEF Since
  <2>3. ReportedRows(more, i, rows) = ReportedRows(feed, i, rows)
    BY <1>1, <2>1 DEF ReportedRows, K
  <2>4. now = last
    BY <1>9 DEF now
  <2>5. QED
    BY <1>1, <1>7, <2>2, <2>3, <2>4 DEF Holds, more, K, now
<1>10. QED
  BY <1>8, <1>9

-----------------------------------------------------------------------------
(* The methods of a sampler keep its rows true.                            *)

\* With no row open, everything that was traded has been reported.
Settled(spec, volume, r) ==
  (IF spec.trigger = "time" THEN ~r.dirty ELSE r.count = 0) => r.last = volume

\* What ReadAll returns after the whole of the feed.
Now(feed, i) == [volume |-> Traded(feed, i, Len(feed)), seen |-> MyLast(feed, i, Len(feed))]

SamplerHolds(feed, i, r) == r \in SamplerType /\ Holds(feed, i, r.rows, r.last)

LEMMA NowIs ==
  ASSUME NEW feed \in Seq(FeedEvents), NEW i
  PROVE  /\ Now(feed, i) \in Snapshots
         /\ Now(feed, i).volume = Traded(feed, i, Len(feed)) /\ Now(feed, i).seen = MyLast(feed, i, Len(feed))
<1>1. Len(feed) \in 0..Len(feed) /\ Len(feed) \in Nat
  OBVIOUS
<1>2. Traded(feed, i, Len(feed)) \in Int /\ MyLast(feed, i, Len(feed)) \in 0..Len(feed)
  BY <1>1, FeedFacts
<1>3. QED
  BY <1>1, <1>2 DEF Now, Snapshots

LEMMA EmitHolds ==
  ASSUME NEW feed \in Seq(FeedEvents), NEW i, NEW r, SamplerHolds(feed, i, r),
         NEW ts \in Int
  PROVE  /\ SamplerHolds(feed, i, Emit(r, ts, Now(feed, i)))
         /\ Emit(r, ts, Now(feed, i)).last = Now(feed, i).volume
<1> DEFINE v == Now(feed, i)
           row == RowOf(r, ts, v)
           e == Emit(r, ts, v)
<1>1. /\ v \in Snapshots /\ v.volume = Traded(feed, i, Len(feed)) /\ v.seen = MyLast(feed, i, Len(feed))
      /\ r \in SamplerType /\ Holds(feed, i, r.rows, r.last) /\ r.last \in Int /\ r.rows \in Seq(RowType)
  BY NowIs DEF SamplerHolds, SamplerType
<1>2. row \in RowType /\ e \in SamplerType /\ e.last = v.volume /\ e.rows = Append(r.rows, row)
  BY <1>1, EmitIs
<1>3. row.seen = v.seen /\ row.volume = v.volume - r.last
  BY DEF RowOf
<1> HIDE DEF v, row, e
<1>4. Holds(feed, i, Append(r.rows, row), Traded(feed, i, Len(feed)))
  BY <1>1, <1>2, <1>3, AppendHolds
<1>5. QED
  BY <1>1, <1>2, <1>4 DEF SamplerHolds, v, e

\* C++ division, for the divisors that occur.
LEMMA QuotientInt == ASSUME NEW a \in Int, NEW b \in Nat \ {0} PROVE Quotient(a, b) \in Int
<1>1. \A x \in Nat : x \div b \in Int
  OBVIOUS
<1>2. QED
  BY <1>1 DEF Quotient

LEMMA DivNat == ASSUME NEW a \in Nat, NEW b \in Nat \ {0} PROVE a \div b \in Nat
OBVIOUS

LEMMA BarEndInt ==
  ASSUME NEW ts \in Int, NEW every \in Nat \ {0} PROVE BarEnd(ts, every) \in Int
<1>1. Quotient(ts, every) \in Int
  BY QuotientInt
<1>2. QED
  BY <1>1 DEF BarEnd

LEMMA FillGapsHolds ==
  ASSUME NEW feed \in Seq(FeedEvents), NEW i, NEW r, SamplerHolds(feed, i, r),
         NEW spec \in Specs, NEW ts \in Int, ts >= r.next
  PROVE  LET e == FillGaps(spec, r, ts, Now(feed, i))
         IN  SamplerHolds(feed, i, e) /\ e.last = Now(feed, i).volume /\ e.started = r.started
<1> DEFINE v == Now(feed, i)
           passes == Quotient(ts - r.next, spec.every) + 1
           Late == {e \in SamplerType : /\ SamplerHolds(feed, i, e) /\ e.last = v.volume
                                        /\ e.started = r.started}
           G == [k \in 0..passes |-> IF k = 0 THEN {r} ELSE Late]
<1>1. r \in SamplerType /\ r.next \in Int /\ spec.every \in Nat \ {0} /\ v \in Snapshots
  BY NowIs DEF SamplerHolds, SamplerType, Specs
<1>2. passes \in Nat /\ passes # 0
  <2>1. ts - r.next \in Nat
    BY <1>1
  <2>2. (ts - r.next) \div spec.every \in Nat
    BY <1>1, <2>1, DivNat
  <2>3. QED
    BY <2>1, <2>2 DEF Quotient
<1>3. ASSUME NEW e, SamplerHolds(feed, i, e), e.started = r.started
      PROVE  FilledOnce(spec, e, v) \in Late
  <2> DEFINE f == FilledOnce(spec, e, v)
             em == Emit(e, e.next, v)
  <2>1. e \in SamplerType /\ e.next \in Int
    BY <1>3 DEF SamplerHolds, SamplerType
  <2>2. /\ f \in SamplerType /\ f.started = e.started /\ f.last = v.volume
        /\ f.rows = Append(e.rows, RowOf(e, e.next, v))
    BY <1>1, <2>1, FilledOnceIs
  <2>3. em.last = v.volume /\ em.rows = Append(e.rows, RowOf(e, e.next, v))
    BY <1>1, <2>1, EmitIs
  <2>4. SamplerHolds(feed, i, em)
    BY <1>3, <2>1, EmitHolds
  <2> HIDE DEF f, em, v
  <2>5. SamplerHolds(feed, i, f)
    BY <2>2, <2>3, <2>4 DEF SamplerHolds
  <2>6. QED
    BY <1>3, <2>2, <2>5 DEF f
<1>4. r \in G[0]
  BY <1>2
<1>5. ASSUME NEW k \in 1..passes, NEW e \in SamplerType, e \in G[k - 1]
      PROVE  FilledOnce(spec, e, v) \in G[k]
  <2>1. k - 1 \in 0..passes /\ k \in 0..passes /\ k # 0
    BY <1>2
  <2>2. SamplerHolds(feed, i, e) /\ e.started = r.started
    BY <1>5, <2>1
  <2>3. FilledOnce(spec, e, v) \in Late
    BY <2>2, <1>3
  <2>4. QED
    BY <2>1, <2>3
<1>6. G[passes] = Late
  BY <1>2
<1> HIDE DEF G, Late
<1>7. FillGaps(spec, r, ts, v) \in Late
  <2>1. \A k \in 1..passes : \A e \in SamplerType :
          e \in G[k - 1] => FilledOnce(spec, e, v) \in G[k]
    BY <1>5
  <2> HIDE DEF v
  <2>2. QED
    BY <1>1, <1>2, <1>4, <2>1, <1>6, FillGapsIn
<1>8. QED
  BY <1>7 DEF Late

LEMMA AdvanceHolds ==
  ASSUME NEW feed \in Seq(FeedEvents), NEW i, NEW r, SamplerHolds(feed, i, r),
         NEW spec \in Specs, Settled(spec, Now(feed, i).volume, r), NEW ts \in Int
  PROVE  LET e == Advance(spec, r, ts, Now(feed, i))
         IN  /\ SamplerHolds(feed, i, e) /\ Settled(spec, Now(feed, i).volume, e)
             /\ spec.trigger = "time" => e.started
<1> DEFINE v == Now(feed, i)
           e == Advance(spec, r, ts, v)
<1>1. r \in SamplerType /\ r.next \in Int /\ r.started \in BOOLEAN /\ v \in Snapshots
      /\ spec.every \in Nat \ {0} /\ BarEnd(ts, spec.every) \in Int
  BY NowIs, BarEndInt DEF SamplerHolds, SamplerType, Specs
<1> HIDE DEF v
<1>2. CASE spec.trigger = "time" /\ ~r.started
  <2>1. e = [r EXCEPT !.started = TRUE, !.next = BarEnd(ts, spec.every)]
    BY <1>2 DEF Advance, Due
  <2> HIDE DEF e
  <2>2. e \in SamplerType /\ e.rows = r.rows /\ e.last = r.last /\ e.dirty = r.dirty /\ e.started
    BY <1>1, <2>1 DEF SamplerType
  <2>3. SamplerHolds(feed, i, e) /\ Settled(spec, v.volume, e)
    BY <2>2, <1>2 DEF SamplerHolds, Settled, v
  <2>4. QED
    BY <2>2, <2>3 DEF v, e
<1>3. CASE Due(spec, r, ts) /\ spec.fill_gaps
  <2>1. spec.trigger = "time" /\ r.started /\ ts >= r.next
    BY <1>3 DEF Due
  <2>2. e = FillGaps(spec, r, ts, v)
    BY <1>3, <2>1 DEF Advance
  <2> HIDE DEF e
  <2>3. SamplerHolds(feed, i, e) /\ e.last = v.volume /\ e.started = r.started
    <3> DEFINE f == FillGaps(spec, r, ts, v)
    <3>1. SamplerHolds(feed, i, f) /\ f.last = v.volume /\ f.started = r.started
      <4>1. ts >= r.next
        BY <2>1
      <4>2. QED
        BY <4>1, FillGapsHolds DEF v
    <3> HIDE DEF f
    <3>2. e = f
      BY <2>2 DEF f
    <3>3. QED
      BY <3>1, <3>2
  <2>4. QED
    BY <2>1, <2>3 DEF Settled, v, e
<1>4. CASE Due(spec, r, ts) /\ ~spec.fill_gaps
  <2> DEFINE em == Emit(r, r.next, v)
  <2>1. spec.trigger = "time" /\ r.started
    BY <1>4 DEF Due
  <2>2. e = [em EXCEPT !.next = BarEnd(ts, spec.every)]
    BY <1>4, <2>1 DEF Advance
  <2>3. SamplerHolds(feed, i, em) /\ em.last = v.volume
    BY <1>1, EmitHolds DEF v
  <2>4. em.started = r.started /\ em \in SamplerType
    BY <1>1, EmitIs
  <2> HIDE DEF e, em
  <2>5. e \in SamplerType /\ e.rows = em.rows /\ e.last = em.last /\ e.started = em.started
    BY <1>1, <2>2, <2>4 DEF SamplerType
  <2>6. SamplerHolds(feed, i, e) /\ e.last = v.volume /\ e.started
    BY <2>1, <2>3, <2>4, <2>5 DEF SamplerHolds
  <2>7. QED
    BY <2>6 DEF Settled, v, e
<1>5. CASE ~(spec.trigger = "time" /\ ~r.started) /\ ~Due(spec, r, ts)
  <2>1. e = r
    BY <1>5 DEF Advance
  <2>2. QED
    BY <1>5, <2>1 DEF v, e
<1>6. QED
  BY <1>2, <1>3, <1>4, <1>5, <1>1 DEF Specs

\* The sampler that OnEvent finds: a Clear has reset its baseline.
Rebased(r, action) == IF action = "clear" THEN ResetBaseline(r) ELSE r

LEMMA OnEventHolds ==
  ASSUME NEW feed \in Seq(FeedEvents), NEW m \in FeedEvents, NEW i, m.instrument = i,
         NEW r, SamplerHolds(feed, i, r),
         NEW spec \in Specs, Settled(spec, Now(feed, i).volume, r)
  PROVE  LET more == Append(feed, m)
             e == OnEvent(spec, Rebased(r, m.action), m.ts, m.action, Now(more, i))
         IN  /\ SamplerHolds(more, i, e) /\ Settled(spec, Now(more, i).volume, e)
             /\ e.started = r.started
<1> DEFINE more == Append(feed, m)
           v == Now(more, i)
           r0 == Rebased(r, m.action)
           e == OnEvent(spec, r0, m.ts, m.action, v)
           fires == Fires(spec, r0, m.action)
           counts == Counts(spec, m.action)
           noted == [r0 EXCEPT !.last_ts = m.ts, !.dirty = @ \/ spec.trigger = "time",
                               !.count = CASE fires -> 0
                                           [] counts /\ ~fires -> @ + 1
                                           [] OTHER -> @]
<1>1. more \in Seq(FeedEvents) /\ m.ts \in Int /\ m.action \in {"add", "clear", "trade"}
      /\ m.filled \in Nat /\ (m.action # "trade" => m.filled = 0)
  BY DEF FeedEvents
<1>2. r \in SamplerType /\ Holds(feed, i, r.rows, r.last) /\ r.rows \in Seq(RowType) /\ r.last \in Int
  BY DEF SamplerHolds, SamplerType
<1>3. v \in Snapshots /\ Now(feed, i) \in Snapshots
      /\ v.volume = IF m.action = "clear" THEN 0 ELSE Now(feed, i).volume + m.filled
  <2>1. Len(more) = Len(feed) + 1
    OBVIOUS
  <2>2. v.volume = Traded(more, i, Len(feed) + 1) /\ Now(feed, i).volume = Traded(feed, i, Len(feed))
    BY <1>1, <2>1, NowIs
  <2>3. Traded(more, i, Len(feed) + 1) = IF m.action = "clear" THEN 0
                                          ELSE Traded(feed, i, Len(feed)) + m.filled
    BY FeedGrows
  <2>4. QED
    BY <1>1, <2>2, <2>3, NowIs
<1>4. /\ r0 \in SamplerType /\ r0.rows = r.rows /\ r0.started = r.started /\ r0.count = r.count
      /\ r0.dirty = r.dirty /\ r0.last = IF m.action = "clear" THEN 0 ELSE r.last
  BY <1>2 DEF Rebased, ResetBaseline, SamplerType
<1>5. Holds(more, i, r0.rows, r0.last)
  BY <1>2, <1>4, FeedHolds
<1> HIDE DEF more, v, r0, e
<1>6. /\ noted \in SamplerType /\ noted.rows = r0.rows /\ noted.last = r0.last
      /\ noted.started = r0.started /\ noted.dirty = (r0.dirty \/ spec.trigger = "time")
      /\ noted.count = CASE fires -> 0 [] counts /\ ~fires -> r0.count + 1 [] OTHER -> r0.count
  <2>1. r0.count \in Nat /\ r0.dirty \in BOOLEAN
    BY <1>4 DEF SamplerType
  <2> DEFINE c == CASE fires -> 0 [] counts /\ ~fires -> r0.count + 1 [] OTHER -> r0.count
             d == (r0.dirty \/ spec.trigger = "time")
  <2>2. c \in Nat /\ d \in BOOLEAN
    BY <2>1
  <2>3. noted = [r0 EXCEPT !.last_ts = m.ts, !.dirty = d, !.count = c]
    OBVIOUS
  <2> HIDE DEF c, d, noted
  <2>4. /\ noted \in SamplerType /\ noted.rows = r0.rows /\ noted.last = r0.last
        /\ noted.started = r0.started /\ noted.dirty = d /\ noted.count = c
    BY <1>1, <1>4, <2>2, <2>3 DEF SamplerType
  <2>5. QED
    BY <2>4 DEF c, d
<1>7. SamplerHolds(more, i, noted)
  BY <1>5, <1>6 DEF SamplerHolds
<1>8. CASE fires
  <2>1. e = Emit(noted, m.ts, v)
    BY <1>8 DEF OnEvent, e
  <2> HIDE DEF noted, fires
  <2>2. SamplerHolds(more, i, Emit(noted, m.ts, v)) /\ Emit(noted, m.ts, v).last = v.volume
    BY <1>1, <1>7, EmitHolds DEF v
  <2>3. Emit(noted, m.ts, v).started = noted.started
    BY <1>1, <1>3, <1>6, EmitIs
  <2>4. SamplerHolds(more, i, e) /\ e.last = v.volume /\ e.started = r.started
    BY <1>4, <1>6, <2>1, <2>2, <2>3
  <2>5. QED
    BY <2>4 DEF Settled, e, r0, v, more
<1>9. CASE ~fires
  <2>1. e = noted
    BY <1>9 DEF OnEvent, e
  <2>2. Settled(spec, v.volume, noted)
    <3> HIDE DEF noted
    <3>1. CASE spec.trigger = "time"
      BY <3>1, <1>6 DEF Settled
    <3>2. CASE spec.trigger # "time" /\ counts
      <4>1. noted.count = r0.count + 1 /\ r0.count \in Nat
        BY <1>4, <1>6, <1>9, <3>2 DEF SamplerType
      <4>2. noted.count # 0
        BY <4>1
      <4>3. QED
        BY <3>2, <4>2 DEF Settled
    <3>3. CASE spec.trigger # "time" /\ ~counts
      <4>1. m.action # "trade" /\ noted.count = r0.count
        BY <1>6, <1>9, <3>3 DEF Counts, Specs
      <4>2. v.volume = IF m.action = "clear" THEN 0 ELSE Now(feed, i).volume
        BY <1>1, <1>3, <4>1 DEF Snapshots
      <4>3. r.count = 0 => r.last = Now(feed, i).volume
        BY <3>3 DEF Settled
      <4>4. QED
        BY <1>4, <1>6, <3>3, <4>1, <4>2, <4>3 DEF Settled
    <3>4. QED
      BY <3>1, <3>2, <3>3
  <2> HIDE DEF noted
  <2>3. SamplerHolds(more, i, e) /\ Settled(spec, v.volume, e) /\ e.started = r.started
    BY <1>4, <1>6, <1>7, <2>1, <2>2
  <2>4. QED
    BY <2>3 DEF e, r0, v, more
<1>10. QED
  BY <1>8, <1>9

\* At the end every trade since the last Clear has been reported.
LEMMA CloseHolds ==
  ASSUME NEW feed \in Seq(FeedEvents), NEW i, NEW r, SamplerHolds(feed, i, r),
         NEW spec \in Specs, Settled(spec, Now(feed, i).volume, r), spec.trigger = "time" => r.started
  PROVE  LET e == Close(spec, r, Now(feed, i))
         IN  SamplerHolds(feed, i, e) /\ e.last = Now(feed, i).volume /\ e.started = r.started
<1> DEFINE v == Now(feed, i)
           e == Close(spec, r, v)
<1>1. r \in SamplerType /\ r.next \in Int /\ r.last_ts \in Int /\ v \in Snapshots
  BY NowIs DEF SamplerHolds, SamplerType
<1> HIDE DEF v
<1>2. CASE ~Open(spec, r)
  <2>1. e = r
    BY <1>2 DEF Close
  <2>2. r.last = v.volume
    BY <1>2 DEF Open, Settled, v
  <2>3. QED
    BY <2>1, <2>2 DEF v
<1>3. CASE Open(spec, r) /\ spec.trigger = "time"
  <2>1. e = Emit(r, r.next, v)
    BY <1>3 DEF Close
  <2>2. SamplerHolds(feed, i, Emit(r, r.next, v)) /\ Emit(r, r.next, v).last = v.volume
    BY <1>1, EmitHolds DEF v
  <2>3. Emit(r, r.next, v).started = r.started
    BY <1>1, EmitIs
  <2> HIDE DEF e
  <2>4. SamplerHolds(feed, i, e) /\ e.last = v.volume /\ e.started = r.started
    BY <2>1, <2>2, <2>3
  <2>5. QED
    BY <2>4 DEF e, v
<1>4. CASE Open(spec, r) /\ spec.trigger # "time"
  <2> DEFINE r0 == [r EXCEPT !.count = 0]
  <2>1. e = Emit(r0, r.last_ts, v)
    BY <1>4 DEF Close
  <2>2. r0 \in SamplerType /\ r0.rows = r.rows /\ r0.last = r.last /\ r0.started = r.started
    BY <1>1 DEF SamplerType
  <2> HIDE DEF r0
  <2>3. SamplerHolds(feed, i, r0)
    BY <2>2 DEF SamplerHolds
  <2>4. SamplerHolds(feed, i, Emit(r0, r.last_ts, v)) /\ Emit(r0, r.last_ts, v).last = v.volume
    BY <1>1, <2>3, EmitHolds DEF v
  <2>5. Emit(r0, r.last_ts, v).started = r0.started
    BY <1>1, <2>2, EmitIs
  <2> HIDE DEF e
  <2>6. SamplerHolds(feed, i, e) /\ e.last = v.volume /\ e.started = r.started
    BY <2>1, <2>2, <2>4, <2>5
  <2>7. QED
    BY <2>6 DEF e, v
<1>5. QED
  BY <1>2, <1>3, <1>4

-----------------------------------------------------------------------------
(* The engine of instrument i, and through it all its samplers.            *)

Engines == [volume : Int, seen : Nat, fresh : BOOLEAN, values : Snapshots,
            samplers : [Names -> SamplerType]]

SamplersHold(feed, i, samplers) ==
  \A s \in Names : /\ SamplerHolds(feed, i, samplers[s])
                   /\ Settled(Samplers[s], Now(feed, i).volume, samplers[s])

\* The plugin and the book are where the feed is, and a fresh cache is what they say.
EngineHolds(feed, i, e) ==
  /\ e \in Engines
  /\ e.volume = Now(feed, i).volume /\ e.seen = Now(feed, i).seen
  /\ e.fresh => e.values = Now(feed, i)
  /\ SamplersHold(feed, i, e.samplers)

Started(e) == \A s \in Names : Samplers[s].trigger = "time" => e.samplers[s].started

LEMMA SpecsAre == \A s \in Names : Samplers[s] \in Specs
BY SamplersAssumption DEF Names, Specs

LEMMA ReadHolds ==
  ASSUME NEW feed \in Seq(FeedEvents), NEW i, NEW e, EngineHolds(feed, i, e),
         NEW called \in BOOLEAN
  PROVE  /\ Values(e) = Now(feed, i) /\ EngineHolds(feed, i, AfterRead(e, called))
         /\ AfterRead(e, called).samplers = e.samplers
<1>1. e \in Engines /\ e.volume \in Int /\ e.seen \in Nat /\ Now(feed, i) \in Snapshots
  BY NowIs DEF EngineHolds, Engines
<1>2. Values(e) = Now(feed, i)
  BY DEF Values, EngineHolds, Now
<1>3. CASE ~called
  BY <1>2, <1>3 DEF AfterRead
<1>4. CASE called
  <2> DEFINE r == AfterRead(e, called)
  <2>1. r = [e EXCEPT !.values = Now(feed, i), !.fresh = TRUE]
    BY <1>2, <1>4 DEF AfterRead
  <2> HIDE DEF r
  <2>2. /\ r \in Engines /\ r.volume = e.volume /\ r.seen = e.seen /\ r.values = Now(feed, i)
        /\ r.samplers = e.samplers
    BY <1>1, <2>1 DEF Engines
  <2>3. EngineHolds(feed, i, r)
    BY <2>2 DEF EngineHolds
  <2>4. QED
    BY <1>2, <2>2, <2>3 DEF r
<1>5. QED
  BY <1>3, <1>4

\* The samplers of an engine, replaced.
LEMMA WithSamplers ==
  ASSUME NEW feed, NEW i, NEW e, EngineHolds(feed, i, e), NEW f, SamplersHold(feed, i, f),
         f = [s \in Names |-> f[s]]
  PROVE  EngineHolds(feed, i, [e EXCEPT !.samplers = f])
<1> DEFINE g == [e EXCEPT !.samplers = f]
<1>1. \A s \in Names : f[s] \in SamplerType
  BY DEF SamplersHold, SamplerHolds
<1>2. f \in [Names -> SamplerType]
  BY <1>1
<1>3. e \in Engines
  BY DEF EngineHolds
<1>4. /\ g \in Engines /\ g.volume = e.volume /\ g.seen = e.seen /\ g.fresh = e.fresh
      /\ g.values = e.values /\ g.samplers = f
  BY <1>2, <1>3 DEF Engines
<1> HIDE DEF g
<1>5. EngineHolds(feed, i, g)
  BY <1>4 DEF EngineHolds
<1>6. QED
  BY <1>5 DEF g

LEMMA EngineAdvanceHolds ==
  ASSUME NEW feed \in Seq(FeedEvents), NEW i, NEW e, EngineHolds(feed, i, e), NEW ts \in Int
  PROVE  /\ EngineHolds(feed, i, EngineAdvance(e, ts)) /\ Started(EngineAdvance(e, ts))
         /\ \A s \in Names : EngineAdvance(e, ts).samplers[s]
                               = Advance(Samplers[s], e.samplers[s], ts, Now(feed, i))
<1> DEFINE due == \E s \in Names : Due(Samplers[s], e.samplers[s], ts)
           r == AfterRead(e, due)
           f == [s \in Names |-> Advance(Samplers[s], e.samplers[s], ts, Values(e))]
<1>1. Values(e) = Now(feed, i) /\ EngineHolds(feed, i, r)
  <2>1. due \in BOOLEAN
    OBVIOUS
  <2> HIDE DEF due
  <2>2. QED
    BY <2>1, ReadHolds
<1>2. EngineAdvance(e, ts) = [r EXCEPT !.samplers = f]
  BY DEF EngineAdvance
<1>3. ASSUME NEW s \in Names
      PROVE  /\ SamplerHolds(feed, i, f[s]) /\ Settled(Samplers[s], Now(feed, i).volume, f[s])
             /\ Samplers[s].trigger = "time" => f[s].started
             /\ f[s] = Advance(Samplers[s], e.samplers[s], ts, Now(feed, i))
  <2>1. /\ SamplerHolds(feed, i, e.samplers[s])
        /\ Settled(Samplers[s], Now(feed, i).volume, e.samplers[s])
    BY DEF EngineHolds, SamplersHold
  <2>2. Samplers[s] \in Specs
    BY SpecsAre
  <2>3. f[s] = Advance(Samplers[s], e.samplers[s], ts, Now(feed, i))
    BY <1>1
  <2> DEFINE a == Advance(Samplers[s], e.samplers[s], ts, Now(feed, i))
  <2>4. /\ SamplerHolds(feed, i, a) /\ Settled(Samplers[s], Now(feed, i).volume, a)
        /\ Samplers[s].trigger = "time" => a.started
    BY <2>1, <2>2, AdvanceHolds
  <2> HIDE DEF a
  <2>5. f[s] = a
    BY <2>3 DEF a
  <2> HIDE DEF f
  <2>6. QED
    BY <2>3, <2>4, <2>5
<1>4. f = [s \in Names |-> f[s]]
  OBVIOUS
<1> HIDE DEF f, r
<1>5. SamplersHold(feed, i, f)
  BY <1>3 DEF SamplersHold
<1>6. EngineHolds(feed, i, [r EXCEPT !.samplers = f])
  BY <1>1, <1>4, <1>5, WithSamplers
<1>7. [r EXCEPT !.samplers = f].samplers = f
  BY <1>1 DEF EngineHolds, Engines
<1>8. QED
  BY <1>2, <1>3, <1>6, <1>7 DEF Started

LEMMA EngineCloseHolds ==
  ASSUME NEW feed \in Seq(FeedEvents), NEW i, NEW e, EngineHolds(feed, i, e), Started(e)
  PROVE  /\ EngineHolds(feed, i, EngineClose(e)) /\ Started(EngineClose(e))
         /\ \A s \in Names :
              /\ EngineClose(e).samplers[s].last = Now(feed, i).volume
              /\ EngineClose(e).samplers[s] = Close(Samplers[s], e.samplers[s], Now(feed, i))
<1> DEFINE due == \E s \in Names : Open(Samplers[s], e.samplers[s])
           r == AfterRead(e, due)
           f == [s \in Names |-> Close(Samplers[s], e.samplers[s], Values(e))]
<1>1. Values(e) = Now(feed, i) /\ EngineHolds(feed, i, r)
  <2>1. due \in BOOLEAN
    OBVIOUS
  <2> HIDE DEF due
  <2>2. QED
    BY <2>1, ReadHolds
<1>2. EngineClose(e) = [r EXCEPT !.samplers = f]
  BY DEF EngineClose
<1>3. ASSUME NEW s \in Names
      PROVE  /\ SamplerHolds(feed, i, f[s]) /\ Settled(Samplers[s], Now(feed, i).volume, f[s])
             /\ f[s].last = Now(feed, i).volume
             /\ Samplers[s].trigger = "time" => f[s].started
             /\ f[s] = Close(Samplers[s], e.samplers[s], Now(feed, i))
  <2>1. /\ SamplerHolds(feed, i, e.samplers[s])
        /\ Settled(Samplers[s], Now(feed, i).volume, e.samplers[s])
        /\ Samplers[s].trigger = "time" => e.samplers[s].started
    BY DEF EngineHolds, SamplersHold, Started
  <2>2. Samplers[s] \in Specs
    BY SpecsAre
  <2>3. f[s] = Close(Samplers[s], e.samplers[s], Now(feed, i))
    BY <1>1
  <2> DEFINE a == Close(Samplers[s], e.samplers[s], Now(feed, i))
  <2>4. /\ SamplerHolds(feed, i, a) /\ a.last = Now(feed, i).volume
        /\ a.started = e.samplers[s].started
    BY <2>1, <2>2, CloseHolds
  <2> HIDE DEF a
  <2>5. f[s] = a
    BY <2>3 DEF a
  <2> HIDE DEF f
  <2>6. QED
    BY <2>1, <2>3, <2>4, <2>5 DEF Settled
<1>4. f = [s \in Names |-> f[s]]
  OBVIOUS
<1> HIDE DEF f, r
<1>5. SamplersHold(feed, i, f)
  BY <1>3 DEF SamplersHold
<1>6. EngineHolds(feed, i, [r EXCEPT !.samplers = f])
  BY <1>1, <1>4, <1>5, WithSamplers
<1>7. [r EXCEPT !.samplers = f].samplers = f
  BY <1>1 DEF EngineHolds, Engines
<1>8. QED
  BY <1>2, <1>3, <1>6, <1>7 DEF Started

\* An event of another instrument changes nothing of what is true of this one.
LEMMA OtherHolds ==
  ASSUME NEW feed \in Seq(FeedEvents), NEW i, NEW e, EngineHolds(feed, i, e),
         NEW m \in FeedEvents, m.instrument # i
  PROVE  EngineHolds(Append(feed, m), i, e)
<1> DEFINE more == Append(feed, m)
<1>1. Now(more, i) = Now(feed, i)
  <2>1. Len(more) = Len(feed) + 1
    OBVIOUS
  <2>2. QED
    BY <2>1, FeedGrows DEF Now
<1>2. ASSUME NEW s \in Names PROVE SamplerHolds(more, i, e.samplers[s])
  <2> DEFINE r == e.samplers[s]
  <2>1. r \in SamplerType /\ Holds(feed, i, r.rows, r.last)
    BY DEF EngineHolds, SamplersHold, SamplerHolds
  <2>2. r.rows \in Seq(RowType) /\ r.last \in Int
    BY <2>1 DEF SamplerType
  <2> HIDE DEF r
  <2>3. Holds(more, i, r.rows, r.last)
    BY <2>1, <2>2, FeedHolds
  <2>4. QED
    BY <2>1, <2>3 DEF SamplerHolds, r
<1> HIDE DEF more
<1>3. EngineHolds(more, i, e)
  BY <1>1, <1>2 DEF EngineHolds, SamplersHold
<1>4. QED
  BY <1>3 DEF more

LEMMA EngineApplyHolds ==
  ASSUME NEW feed \in Seq(FeedEvents), NEW m \in FeedEvents, NEW i, m.instrument = i,
         NEW e, EngineHolds(feed, i, e), Started(e)
  PROVE  LET g == EngineApply(e, Len(feed) + 1, m)
         IN  /\ EngineHolds(Append(feed, m), i, g) /\ Started(g)
             /\ \A s \in Names :
                  g.samplers[s] = OnEvent(Samplers[s], Rebased(e.samplers[s], m.action), m.ts,
                                          m.action, Now(Append(feed, m), i))
<1> DEFINE more == Append(feed, m)
           k == Len(feed) + 1
           o == Observed(e, k, m.action, m.filled)
           due == \E s \in Names : Fires(Samplers[s], o.samplers[s], m.action)
           r == AfterRead(o, due)
           f == [s \in Names |-> OnEvent(Samplers[s], o.samplers[s], m.ts, m.action, Values(o))]
           b == [s \in Names |-> Rebased(e.samplers[s], m.action)]
<1>1. /\ k \in Nat /\ Len(more) = k /\ more \in Seq(FeedEvents) /\ m.ts \in Int /\ m.filled \in Nat
      /\ m.action \in {"add", "clear", "trade"} /\ (m.action # "trade" => m.filled = 0)
      /\ e \in Engines /\ e.volume \in Int /\ e.samplers \in [Names -> SamplerType]
  BY DEF FeedEvents, EngineHolds, Engines
<1>2. /\ Now(more, i) \in Snapshots /\ Now(more, i).seen = k
      /\ Now(more, i).volume = TradeVolume(e.volume, m.action, m.filled)
  <2>1. /\ Now(more, i) \in Snapshots /\ Now(more, i).seen = MyLast(more, i, k)
        /\ Now(more, i).volume = Traded(more, i, k)
    BY <1>1, NowIs
  <2>2. e.volume = Traded(feed, i, Len(feed))
    BY NowIs DEF EngineHolds
  <2>3. /\ MyLast(more, i, k) = k
        /\ Traded(more, i, k) = IF m.action = "clear" THEN 0
                                ELSE Traded(feed, i, Len(feed)) + m.filled
    BY FeedGrows
  <2>4. TradeVolume(e.volume, m.action, m.filled)
          = IF m.action = "clear" THEN 0 ELSE e.volume + m.filled
    BY <1>1 DEF TradeVolume
  <2>5. QED
    BY <2>1, <2>2, <2>3, <2>4
<1>3. \A s \in Names : b[s] \in SamplerType
  <2>1. \A s \in Names : e.samplers[s] \in SamplerType
    BY <1>1
  <2>2. \A s \in Names : Rebased(e.samplers[s], m.action) \in SamplerType
    BY <2>1 DEF Rebased, ResetBaseline, SamplerType
  <2>3. QED
    BY <2>2
<1>4. /\ o \in Engines /\ o.seen = k /\ o.fresh = FALSE /\ o.samplers = b
      /\ o.volume = TradeVolume(e.volume, m.action, m.filled)
  <2> DEFINE V == TradeVolume(e.volume, m.action, m.filled)
  <2>1. V \in Int /\ b \in [Names -> SamplerType]
    BY <1>2, <1>3 DEF Snapshots
  <2>2. o = [e EXCEPT !.seen = k, !.fresh = FALSE, !.volume = V, !.samplers = b]
    <3>1. (IF m.action = "clear" THEN [s \in Names |-> ResetBaseline(e.samplers[s])]
           ELSE e.samplers) = b
      BY <1>1 DEF Rebased
    <3>2. e.volume = e.volume /\ DOMAIN e = {"volume", "seen", "fresh", "values", "samplers"}
      BY <1>1 DEF Engines
    <3> HIDE DEF b
    <3>3. QED
      BY <1>1, <3>1, <3>2 DEF Observed, Engines
  <2> HIDE DEF V, b, o
  <2>3. QED
    BY <1>1, <2>1, <2>2 DEF Engines, V
<1>5. Values(o) = Now(more, i)
  BY <1>2, <1>4 DEF Values, Now
<1>6. r \in Engines /\ r.seen = k /\ r.volume = o.volume /\ (r.fresh => r.values = Now(more, i))
  <2> DEFINE r1 == [o EXCEPT !.values = Now(more, i), !.fresh = TRUE]
  <2>1. r = IF due THEN r1 ELSE o
    BY <1>5 DEF AfterRead
  <2> HIDE DEF o, due
  <2>2. r1 \in Engines /\ r1.seen = k /\ r1.volume = o.volume /\ r1.values = Now(more, i)
    BY <1>2, <1>4 DEF Engines
  <2> HIDE DEF r, r1
  <2>3. QED
    BY <1>4, <2>1, <2>2
<1>7. EngineApply(e, k, m) = [r EXCEPT !.samplers = f]
  BY DEF EngineApply
<1>8. ASSUME NEW s \in Names
      PROVE  /\ SamplerHolds(more, i, f[s]) /\ Settled(Samplers[s], Now(more, i).volume, f[s])
             /\ Samplers[s].trigger = "time" => f[s].started
             /\ f[s] = OnEvent(Samplers[s], Rebased(e.samplers[s], m.action), m.ts, m.action,
                               Now(more, i))
  <2>1. /\ SamplerHolds(feed, i, e.samplers[s])
        /\ Settled(Samplers[s], Now(feed, i).volume, e.samplers[s])
        /\ Samplers[s].trigger = "time" => e.samplers[s].started
    BY DEF EngineHolds, SamplersHold, Started
  <2>2. Samplers[s] \in Specs
    BY SpecsAre
  <2> DEFINE a == OnEvent(Samplers[s], Rebased(e.samplers[s], m.action), m.ts, m.action, Now(more, i))
  <2>3. f[s] = a
    BY <1>4, <1>5
  <2>4. /\ SamplerHolds(more, i, a) /\ Settled(Samplers[s], Now(more, i).volume, a)
        /\ a.started = e.samplers[s].started
    BY <2>1, <2>2, OnEventHolds
  <2>5. f[s] = OnEvent(Samplers[s], Rebased(e.samplers[s], m.action), m.ts, m.action, Now(more, i))
    BY <2>3
  <2> HIDE DEF a, f
  <2>6. /\ SamplerHolds(more, i, f[s]) /\ Settled(Samplers[s], Now(more, i).volume, f[s])
        /\ Samplers[s].trigger = "time" => f[s].started
    BY <2>1, <2>3, <2>4
  <2>7. QED
    BY <2>5, <2>6
<1>9. f = [s \in Names |-> f[s]]
  OBVIOUS
<1> HIDE DEF f, r, o, b, more, due
<1>10. SamplersHold(more, i, f)
  BY <1>8 DEF SamplersHold
<1>11. f \in [Names -> SamplerType]
  <2>1. \A s \in Names : f[s] \in SamplerType
    BY <1>8 DEF SamplerHolds
  <2>2. QED
    BY <1>9, <2>1
<1> DEFINE g == [r EXCEPT !.samplers = f]
<1>12. /\ g \in Engines /\ g.volume = r.volume /\ g.seen = r.seen /\ g.fresh = r.fresh
       /\ g.values = r.values /\ g.samplers = f
  BY <1>6, <1>11 DEF Engines
<1> HIDE DEF g
<1>13. EngineHolds(more, i, g) /\ Started(g)
  BY <1>2, <1>4, <1>6, <1>8, <1>10, <1>12 DEF EngineHolds, Started
<1>14. EngineApply(e, Len(feed) + 1, m) = g
  BY <1>7 DEF g
<1>15. QED
  BY <1>8, <1>12, <1>13, <1>14 DEF more

-----------------------------------------------------------------------------
(* The table.                                                              *)

StatsType == [events : Nat, ts_regressions : Nat, first_ts : Int, last_ts : Int]
FeedStatsType ==
  [events : Nat, ts_regressions : Nat, first_ts : Int, last_ts : Int, unknown : Nat]
EntryType == [resolved : BOOLEAN, stats : StatsType, engine : Engines]

Typed ==
  /\ log \in Seq(FeedEvents) /\ stats \in FeedStatsType /\ closed \in BOOLEAN
  /\ Live \subseteq Instruments /\ pipe = [i \in Live |-> pipe[i]]
  /\ \A i \in Live : pipe[i] \in EntryType

\* Every engine is where the feed is, an instrument without a pipeline has had no event,
\* and after Close nothing is left to report.
EnginesHold ==
  /\ \A i \in Live : EngineHolds(log, i, pipe[i].engine) /\ Started(pipe[i].engine)
  /\ \A i \in Instruments \ Live : Mine(log, i, Len(log)) = {}
  /\ closed => \A i \in Live, s \in Names :
       pipe[i].engine.samplers[s].last = Now(log, i).volume

TInv == Typed /\ EnginesHold

\* What Resolve returns for j.
Entry(j) == IF j \in Live THEN pipe[j] ELSE NewEntry(j)

LEMMA NewEngineHolds ==
  ASSUME NEW feed \in Seq(FeedEvents), NEW i, Mine(feed, i, Len(feed)) = {}
  PROVE  EngineHolds(feed, i, NewEngine)
<1>1. NewSampler \in SamplerType /\ NewSampler.rows = <<>> /\ NewSampler.last = 0
  BY DEF NewSampler, SamplerType
<1>2. /\ NewEngine \in Engines /\ NewEngine.volume = 0 /\ NewEngine.seen = 0
      /\ NewEngine.fresh = FALSE /\ NewEngine.samplers = [s \in Names |-> NewSampler]
  <2>1. [s \in Names |-> NewSampler] \in [Names -> SamplerType]
    BY <1>1
  <2>2. QED
    BY <2>1 DEF NewEngine, Engines, Snapshots
<1>3. Now(feed, i).volume = 0 /\ Now(feed, i).seen = 0 /\ Cleared(feed, i, Len(feed)) = 0
  <2>1. 0 \in 0..Len(feed) /\ Len(feed) \in 0..Len(feed)
    OBVIOUS
  <2>2. Mine(feed, i, 0) = Mine(feed, i, Len(feed))
    BY FeedStart
  <2>3. /\ MyLast(feed, i, 0) = MyLast(feed, i, Len(feed))
        /\ Traded(feed, i, 0) = Traded(feed, i, Len(feed))
        /\ Cleared(feed, i, 0) = Cleared(feed, i, Len(feed))
    BY <2>1, <2>2, SameTraded
  <2>4. QED
    BY <2>3, FeedStart, NowIs
<1>4. Holds(feed, i, <<>>, 0)
  <2>1. LastSeen(<<>>) = 0
    BY DEF LastSeen, SeenAhead
  <2>2. Since(feed, i, 0, Len(feed)) = 0
    BY <1>3, FeedStart DEF Since
  <2>3. ReportedRows(feed, i, <<>>) = {}
    BY DEF ReportedRows
  <2>4. DOMAIN <<>> = {}
    OBVIOUS
  <2>5. QED
    BY <2>1, <2>2, <2>3, <2>4, SumEmpty DEF Holds
<1>5. \A s \in Names : SamplerHolds(feed, i, NewSampler) /\ Settled(Samplers[s], 0, NewSampler)
  BY <1>1, <1>4 DEF SamplerHolds, Settled
<1>6. SamplersHold(feed, i, NewEngine.samplers)
  BY <1>2, <1>3, <1>5 DEF SamplersHold
<1>7. QED
  BY <1>2, <1>3, <1>6 DEF EngineHolds

LEMMA CountedIs ==
  ASSUME NEW ts \in Int, NEW st \in StatsType \cup FeedStatsType
  PROVE  LET c == Counted(st, ts)
         IN  /\ c.events = st.events + 1 /\ c.last_ts = ts
             /\ c.first_ts = IF st.events = 0 THEN ts ELSE st.first_ts
             /\ c.ts_regressions = st.ts_regressions
                                     + IF st.events # 0 /\ ts < st.last_ts THEN 1 ELSE 0
             /\ st \in StatsType => c \in StatsType
             /\ st \in FeedStatsType => c \in FeedStatsType
<1> DEFINE first == IF st.events = 0 THEN ts ELSE st.first_ts
           back == st.ts_regressions + IF st.events # 0 /\ ts < st.last_ts THEN 1 ELSE 0
           n == st.events + 1
           c == Counted(st, ts)
<1>1. first \in Int /\ back \in Nat /\ n \in Nat
  BY DEF StatsType, FeedStatsType
<1>2. c = [st EXCEPT !.events = n, !.first_ts = first, !.last_ts = ts, !.ts_regressions = back]
  BY DEF Counted, StatsType, FeedStatsType
<1> HIDE DEF c
<1>3. c.events = n /\ c.last_ts = ts /\ c.first_ts = first /\ c.ts_regressions = back
  <2> HIDE DEF n, first, back
  <2>1. CASE st \in StatsType
    BY <1>2, <2>1 DEF StatsType
  <2>2. CASE st \in FeedStatsType
    BY <1>2, <2>2 DEF FeedStatsType
  <2>3. QED
    BY <2>1, <2>2
<1>4. st \in StatsType => c \in StatsType
  <2> HIDE DEF n, first, back
  <2>1. QED
    BY <1>1, <1>2 DEF StatsType
<1>5. st \in FeedStatsType => c \in FeedStatsType
  <2> HIDE DEF n, first, back
  <2>1. QED
    BY <1>1, <1>2 DEF FeedStatsType
<1>6. QED
  BY <1>3, <1>4, <1>5 DEF c

LEMMA EntryTyped ==
  ASSUME Typed, NEW j \in Instruments PROVE Entry(j) \in EntryType
<1>1. CASE j \in Live
  BY <1>1 DEF Typed, Entry
<1>2. CASE j \notin Live
  <2>1. NewEngine \in Engines
    <3>1. NewSampler \in SamplerType
      BY DEF NewSampler, SamplerType
    <3>2. [s \in Names |-> NewSampler] \in [Names -> SamplerType]
      BY <3>1
    <3>3. QED
      BY <3>2 DEF NewEngine, Engines, Snapshots
  <2>2. NewStats \in StatsType
    BY DEF NewStats, StatsType
  <2>3. QED
    BY <1>2, <2>1, <2>2 DEF Entry, NewEntry, EntryType
<1>3. QED
  BY <1>1, <1>2

RecordOf(resolved, st, engine) == [resolved |-> resolved, stats |-> st, engine |-> engine]

\* What Apply makes of every entry.
LEMMA ApplyEntries ==
  ASSUME Typed, NEW m \in FeedEvents, Apply(m)
  PROVE  /\ DOMAIN pipe' = Live \cup {m.instrument} /\ pipe' = [j \in DOMAIN pipe' |-> pipe'[j]]
         /\ \A j \in DOMAIN pipe' :
              /\ j \in Instruments
              /\ pipe'[j] = IF j = m.instrument
                            THEN RecordOf(Entry(j).resolved, Counted(Entry(j).stats, m.ts),
                                          EngineApply(EngineAdvance(Entry(j).engine, m.ts),
                                                      Len(log) + 1, m))
                            ELSE RecordOf(Entry(j).resolved, Entry(j).stats,
                                          EngineAdvance(Entry(j).engine, m.ts))
<1> DEFINE i == m.instrument
           R == Resolved(i)
           entries == [R EXCEPT ![i].stats = Counted(@, m.ts)]
           A == Advanced(entries, m)
           k == Len(log) + 1
           D == Live \cup {i}
<1>1. i \in Instruments /\ D \subseteq Instruments /\ i \in D
  BY DEF FeedEvents, Typed
<1>2. DOMAIN R = D /\ \A j \in D : R[j] = Entry(j)
  <2>1. CASE i \in Live
    <3>1. R = pipe /\ D = Live
      BY <2>1 DEF Resolved, Live
    <3>2. QED
      BY <3>1 DEF Live, Entry
  <2>2. CASE i \notin Live
    <3>1. R = [j \in D |-> IF j = i THEN NewEntry(i) ELSE pipe[j]]
      BY <2>2 DEF Resolved, Live
    <3>2. QED
      BY <2>2, <3>1 DEF Entry
  <2>3. QED
    BY <2>1, <2>2
<1> HIDE DEF R
<1>3. \A j \in D : R[j] = RecordOf(Entry(j).resolved, Entry(j).stats, Entry(j).engine)
  <2>1. \A j \in D : Entry(j) \in EntryType
    BY <1>1, EntryTyped
  <2>2. QED
    BY <1>2, <2>1 DEF EntryType, RecordOf
<1>4. /\ DOMAIN entries = D
      /\ \A j \in D : entries[j] = RecordOf(Entry(j).resolved,
                                            IF j = i THEN Counted(Entry(j).stats, m.ts)
                                            ELSE Entry(j).stats, Entry(j).engine)
  <2> DEFINE new == [R[i] EXCEPT !.stats = Counted(R[i].stats, m.ts)]
  <2>1. entries = [R EXCEPT ![i] = new]
    OBVIOUS
  <2>2. new = RecordOf(Entry(i).resolved, Counted(Entry(i).stats, m.ts), Entry(i).engine)
    <3>1. R[i] = RecordOf(Entry(i).resolved, Entry(i).stats, Entry(i).engine)
      BY <1>1, <1>3
    <3> HIDE DEF i
    <3>2. R[i].stats = Entry(i).stats
      BY <3>1 DEF RecordOf
    <3>3. new = [R[i] EXCEPT !.stats = Counted(Entry(i).stats, m.ts)]
      BY <3>2
    <3> HIDE DEF new
    <3>4. QED
      BY <3>1, <3>3 DEF RecordOf
  <2> HIDE DEF new, entries, i
  <2>3. /\ DOMAIN entries = D
        /\ \A j \in D : entries[j] = IF j = i THEN new ELSE R[j]
    BY <1>1, <1>2, <2>1
  <2> HIDE DEF D
  <2>4. QED
    BY <1>3, <2>2, <2>3
<1> HIDE DEF entries
<1>5. /\ DOMAIN A = D
      /\ \A j \in D : A[j] = RecordOf(Entry(j).resolved,
                                      IF j = i THEN Counted(Entry(j).stats, m.ts)
                                      ELSE Entry(j).stats, EngineAdvance(Entry(j).engine, m.ts))
  <2>1. DOMAIN A = D /\ \A j \in D :
          A[j] = [entries[j] EXCEPT !.engine = EngineAdvance(entries[j].engine, m.ts)]
    BY <1>4 DEF Advanced
  <2> HIDE DEF A, D
  <2>2. QED
    BY <1>4, <2>1 DEF RecordOf
<1> HIDE DEF A
<1>6. pipe' = [A EXCEPT ![i].engine = EngineApply(@, k, m)]
  BY DEF Apply, A, entries, R
<1>7. /\ DOMAIN pipe' = D /\ pipe' = [j \in D |-> pipe'[j]]
      /\ \A j \in D : pipe'[j] = IF j = i THEN [A[i] EXCEPT !.engine = EngineApply(A[i].engine, k, m)]
                                ELSE A[j]
  <2> DEFINE new == [A[i] EXCEPT !.engine = EngineApply(A[i].engine, k, m)]
  <2>1. pipe' = [A EXCEPT ![i] = new]
    BY <1>6
  <2> HIDE DEF new, i
  <2>2. /\ DOMAIN pipe' = D /\ pipe' = [j \in D |-> pipe'[j]]
        /\ \A j \in D : pipe'[j] = IF j = i THEN new ELSE A[j]
    BY <1>1, <1>5, <2>1
  <2>3. QED
    BY <2>2 DEF new
<1> HIDE DEF D, i, k
<1>8. [A[i] EXCEPT !.engine = EngineApply(A[i].engine, k, m)]
        = RecordOf(Entry(i).resolved, Counted(Entry(i).stats, m.ts),
                   EngineApply(EngineAdvance(Entry(i).engine, m.ts), k, m))
  BY <1>1, <1>5 DEF RecordOf
<1>9. \A j \in D : pipe'[j] = IF j = i
                             THEN RecordOf(Entry(j).resolved, Counted(Entry(j).stats, m.ts),
                                           EngineApply(EngineAdvance(Entry(j).engine, m.ts), k, m))
                             ELSE RecordOf(Entry(j).resolved, Entry(j).stats,
                                           EngineAdvance(Entry(j).engine, m.ts))
  BY <1>5, <1>7, <1>8
<1>10. QED
  BY <1>1, <1>7, <1>9 DEF D, i, k

\* Before the event every entry is true of the feed so far.
LEMMA EntryHolds ==
  ASSUME TInv, NEW j \in Instruments
  PROVE  Entry(j) \in EntryType /\ EngineHolds(log, j, Entry(j).engine)
<1>1. Entry(j) \in EntryType
  BY EntryTyped DEF TInv
<1>2. CASE j \in Live
  BY <1>1, <1>2 DEF TInv, EnginesHold, Entry
<1>3. CASE j \notin Live
  <2>1. Mine(log, j, Len(log)) = {} /\ log \in Seq(FeedEvents)
    BY <1>3 DEF TInv, EnginesHold, Typed
  <2>2. EngineHolds(log, j, NewEngine)
    BY <2>1, NewEngineHolds
  <2>3. Entry(j).engine = NewEngine
    BY <1>3 DEF Entry, NewEntry
  <2>4. QED
    BY <1>1, <2>2, <2>3
<1>4. QED
  BY <1>2, <1>3

LEMMA ApplyHolds ==
  ASSUME TInv, NEW m \in FeedEvents, Apply(m) PROVE TInv'
<1> DEFINE i == m.instrument
           more == Append(log, m)
           k == Len(log) + 1
<1>1. /\ log' = more /\ log \in Seq(FeedEvents) /\ more \in Seq(FeedEvents)
      /\ Len(more) = k /\ closed' = FALSE /\ m.ts \in Int /\ stats \in FeedStatsType
      /\ i \in Instruments
  BY DEF TInv, Typed, Apply, FeedEvents
<1>2. /\ Live' = Live \cup {i} /\ pipe' = [j \in Live' |-> pipe'[j]] /\ Live' \subseteq Instruments
  BY ApplyEntries DEF TInv, Live
<1>3. ASSUME NEW j \in Live'
      PROVE  /\ pipe'[j] \in EntryType /\ EngineHolds(more, j, pipe'[j].engine)
             /\ Started(pipe'[j].engine)
  <2> DEFINE e == EngineAdvance(Entry(j).engine, m.ts)
             g == EngineApply(e, k, m)
  <2>1. j \in Instruments
    BY <1>2
  <2>2. Entry(j) \in EntryType /\ EngineHolds(log, j, e) /\ Started(e)
    BY <1>1, <2>1, EntryHolds, EngineAdvanceHolds
  <2>3. pipe'[j] = IF j = i THEN RecordOf(Entry(j).resolved, Counted(Entry(j).stats, m.ts), g)
                   ELSE RecordOf(Entry(j).resolved, Entry(j).stats, e)
    BY ApplyEntries DEF TInv, Live
  <2>4. Counted(Entry(j).stats, m.ts) \in StatsType
    BY <1>1, <2>2, CountedIs DEF EntryType
  <2>5. CASE j = i
    <3>1. EngineHolds(more, j, g) /\ Started(g)
      BY <1>1, <2>2, <2>5, EngineApplyHolds
    <3> HIDE DEF g, more
    <3>2. g \in Engines
      BY <3>1 DEF EngineHolds
    <3>3. pipe'[j].engine = g
      BY <2>3, <2>5 DEF RecordOf
    <3>4. pipe'[j] \in EntryType
      BY <2>2, <2>3, <2>4, <2>5, <3>2 DEF RecordOf, EntryType
    <3>5. QED
      BY <3>1, <3>3, <3>4
  <2>6. CASE j # i
    <3>1. EngineHolds(more, j, e)
      BY <1>1, <2>2, <2>6, OtherHolds
    <3> HIDE DEF e, more, g
    <3>2. e \in Engines
      BY <3>1 DEF EngineHolds
    <3>3. pipe'[j].engine = e
      BY <2>3, <2>6 DEF RecordOf
    <3>4. pipe'[j] \in EntryType
      BY <2>2, <2>3, <2>6, <3>2 DEF RecordOf, EntryType
    <3>5. QED
      BY <2>2, <3>1, <3>3, <3>4
  <2>7. QED
    BY <2>5, <2>6
<1>4. ASSUME NEW j \in Instruments \ Live' PROVE Mine(more, j, Len(more)) = {}
  <2>1. j \in Instruments \ Live /\ j # i
    BY <1>2
  <2>2. Mine(log, j, Len(log)) = {}
    BY <2>1 DEF TInv, EnginesHold
  <2>3. QED
    BY <1>1, <2>1, <2>2, FeedGrows
<1>5. stats' \in FeedStatsType
  <2>1. Counted(stats, m.ts) \in FeedStatsType /\ stats.unknown \in Nat
    BY <1>1, CountedIs DEF FeedStatsType
  <2> DEFINE c == stats.unknown + IF i \in Named \/ i \in DOMAIN pipe THEN 0 ELSE 1
  <2>2. stats' = [Counted(stats, m.ts) EXCEPT !.unknown = c] /\ c \in Nat
    BY <2>1 DEF Apply
  <2> HIDE DEF c
  <2>3. QED
    BY <2>1, <2>2 DEF FeedStatsType
<1> HIDE DEF more, k, i
<1>6. Typed'
  BY <1>1, <1>2, <1>3, <1>5 DEF Typed
<1>7. EnginesHold'
  BY <1>1, <1>2, <1>3, <1>4 DEF EnginesHold
<1>8. QED
  BY <1>6, <1>7 DEF TInv

LEMMA CloseTableHolds ==
  ASSUME TInv, CloseTable PROVE TInv'
<1>1. /\ log' = log /\ stats' = stats /\ closed' = TRUE /\ log \in Seq(FeedEvents)
      /\ pipe' = [j \in Live |-> [pipe[j] EXCEPT !.engine = EngineClose(@)]]
  BY DEF CloseTable, TInv, Typed, Live
<1>2. Live' = Live /\ pipe' = [j \in Live' |-> pipe'[j]]
  BY <1>1 DEF Live
<1>3. ASSUME NEW j \in Live
      PROVE  /\ pipe'[j] \in EntryType /\ EngineHolds(log, j, pipe'[j].engine)
             /\ Started(pipe'[j].engine)
             /\ \A s \in Names : pipe'[j].engine.samplers[s].last = Now(log, j).volume
  <2> DEFINE g == EngineClose(pipe[j].engine)
  <2>1. pipe[j] \in EntryType /\ EngineHolds(log, j, pipe[j].engine) /\ Started(pipe[j].engine)
    BY DEF TInv, Typed, EnginesHold
  <2>2. /\ EngineHolds(log, j, g) /\ Started(g)
        /\ \A s \in Names : g.samplers[s].last = Now(log, j).volume
    <3>1. EngineHolds(log, j, g) /\ Started(g)
      BY <1>1, <2>1, EngineCloseHolds
    <3>2. \A s \in Names : /\ g.samplers[s].last = Now(log, j).volume
                           /\ g.samplers[s] = Close(Samplers[s], pipe[j].engine.samplers[s],
                                                    Now(log, j))
      BY <1>1, <2>1, EngineCloseHolds
    <3> HIDE DEF g
    <3>3. QED
      BY <3>1, <3>2
  <2>3. pipe'[j] = [pipe[j] EXCEPT !.engine = g]
    BY <1>1
  <2> HIDE DEF g
  <2>4. g \in Engines
    BY <2>2 DEF EngineHolds
  <2>5. pipe'[j].engine = g /\ pipe'[j] \in EntryType
    BY <2>1, <2>3, <2>4 DEF EntryType
  <2>6. QED
    BY <2>2, <2>5
<1>4. Typed'
  BY <1>1, <1>2, <1>3 DEF TInv, Typed
<1>5. EnginesHold'
  BY <1>1, <1>2, <1>3 DEF TInv, EnginesHold
<1>6. QED
  BY <1>4, <1>5 DEF TInv

\* The feed hands Apply events of this kind.
LEMMA FeedHands ==
  ASSUME Typed, NEW i \in Instruments, NEW jump \in Jumps, Feed(i, jump)
  PROVE  \E m \in FeedEvents : m.instrument = i /\ m.ts >= MinTs /\ Apply(m)
<1>1. stats.last_ts \in Int /\ jump \in Int
  BY BoundsAssumption DEF Typed, FeedStatsType
<1>2. PICK ts : ts = stats.last_ts + jump /\ ts \in Int /\ ts >= MinTs
  BY <1>1 DEF Feed
<1>3. CASE \E a \in {"add", "clear"} : Apply(Event(i, ts, a, 0))
  <2>1. PICK a \in {"add", "clear"} : Apply(Event(i, ts, a, 0))
    BY <1>3
  <2>2. Event(i, ts, a, 0) \in FeedEvents /\ Event(i, ts, a, 0).instrument = i
        /\ Event(i, ts, a, 0).ts = ts
    BY <1>2 DEF Event, FeedEvents
  <2>3. QED
    BY <1>2, <2>1, <2>2
<1>4. CASE \E f \in Fills : Apply(Event(i, ts, "trade", f))
  <2>1. PICK f \in Fills : Apply(Event(i, ts, "trade", f))
    BY <1>4
  <2>2. f \in Nat
    BY BoundsAssumption
  <2>3. Event(i, ts, "trade", f) \in FeedEvents /\ Event(i, ts, "trade", f).instrument = i
        /\ Event(i, ts, "trade", f).ts = ts
    BY <1>2, <2>2 DEF Event, FeedEvents
  <2>4. QED
    BY <1>2, <2>1, <2>3
<1>5. QED
  BY <1>2, <1>3, <1>4 DEF Feed

LEMMA InitHolds == Init => TInv
<1> SUFFICES ASSUME Init PROVE TInv
  OBVIOUS
<1>1. /\ log = <<>> /\ stats = FeedStats /\ closed = FALSE /\ Live = {}
      /\ pipe = [i \in {} |-> NewEntry(i)]
  BY DEF Init, Live
<1>2. FeedStats \in FeedStatsType
  BY DEF FeedStats, FeedStatsType
<1>3. Len(log) = 0 /\ log \in Seq(FeedEvents)
  BY <1>1
<1>4. pipe = [i \in Live |-> pipe[i]]
  BY <1>1
<1>5. QED
  BY <1>1, <1>2, <1>3, <1>4, FeedStart DEF TInv, Typed, EnginesHold

\* The invariant behind RowsTrue and AllReported.
THEOREM EnginesInductive == Spec => []TInv
<1>1. TInv /\ [Next]_vars => TInv'
  <2> SUFFICES ASSUME TInv, [Next]_vars PROVE TInv'
    OBVIOUS
  <2>1. ASSUME NEW i \in Instruments, NEW jump \in Jumps, Feed(i, jump) PROVE TInv'
    <3>1. PICK m \in FeedEvents : Apply(m)
      BY <2>1, FeedHands DEF TInv
    <3>2. QED
      BY <3>1, ApplyHolds
  <2>2. CASE CloseTable
    BY <2>2, CloseTableHolds
  <2>3. CASE UNCHANGED vars
    BY <2>3 DEF vars, TInv, Typed, EnginesHold, Live
  <2>4. ASSUME NEW i \in Instruments, ResolveOutside(i) PROVE TInv'
    BY <2>4 DEF ResolveOutside, TInv, Typed, EnginesHold, Live
  <2>5. QED
    BY <2>1, <2>2, <2>3, <2>4 DEF Next
<1>2. QED
  BY InitHolds, <1>1, PTL DEF Spec

\* A row holds what was traded since the row before it, or since the last Clear, as of
\* the event whose book it shows, for any instruments, samplers, feed and order of
\* events, whoever read the plugins last and whatever the cache of ReadAll held.
THEOREM RowsAreTrue == Spec => []RowsTrue
<1>1. TInv => RowsTrue
  <2> SUFFICES ASSUME TInv, NEW i \in Live, NEW s \in Names, NEW n \in DOMAIN Rows(i, s)
               PROVE  LET row == Rows(i, s)[n]
                          before == SeenBefore(i, s, n)
                      IN  row.volume = Volume(i, row.seen)
                            - IF LastClear(i, row.seen) > before THEN 0 ELSE Volume(i, before)
    BY DEF RowsTrue
  <2>1. RowHolds(log, i, Rows(i, s)[n], SeenAhead(Rows(i, s), n))
    BY DEF TInv, EnginesHold, EngineHolds, SamplersHold, SamplerHolds, Holds, Rows
  <2>2. SeenBefore(i, s, n) = SeenAhead(Rows(i, s), n)
    BY DEF SeenBefore, SeenAhead
  <2>3. QED
    BY <2>1, <2>2, FeedIs DEF RowHolds, Since
<1>2. QED
  BY EnginesInductive, <1>1, PTL

\* At the end of a run the rows of every sampler add up to what was traded since the
\* last Clear: no trade is left in a bar that was never emitted.
THEOREM EverythingReported == Spec => []AllReported
<1>1. TInv => AllReported
  <2> SUFFICES ASSUME TInv, closed, NEW i \in Live, NEW s \in Names
               PROVE  SumFunctionOnSet(Volumes(Rows(i, s)),
                        {n \in DOMAIN Rows(i, s) : Rows(i, s)[n].seen >= LastClear(i, Len(log))})
                      = Volume(i, Len(log))
    BY DEF AllReported
  <2> DEFINE r == pipe[i].engine.samplers[s]
  <2>1. Holds(log, i, r.rows, r.last) /\ r.last = Now(log, i).volume
    BY DEF TInv, EnginesHold, EngineHolds, SamplersHold, SamplerHolds
  <2>2. log \in Seq(FeedEvents)
    BY DEF TInv, Typed
  <2>3. Now(log, i).volume = Volume(i, Len(log))
    BY <2>2, NowIs, FeedIs
  <2>4. r.last = SumFunctionOnSet(Volumes(r.rows), ReportedRows(log, i, r.rows)) /\ Rows(i, s) = r.rows
    BY <2>1 DEF Holds, Rows
  <2> HIDE DEF r
  <2>5. QED
    BY <2>1, <2>3, <2>4, FeedIs DEF ReportedRows
<1>2. QED
  BY EnginesInductive, <1>1, PTL

-----------------------------------------------------------------------------
(* What an event, and Close, make of one sampler.                          *)

SamplerOf(i, s) == Entry(i).engine.samplers[s]

LEMMA ApplySamplers ==
  ASSUME TInv, NEW m \in FeedEvents, Apply(m), NEW j \in Live', NEW s \in Names
  PROVE  LET r == SamplerOf(j, s)
             advanced == Advance(Samplers[s], r, m.ts, Now(log, j))
         IN  /\ j \in Instruments /\ r \in SamplerType /\ advanced \in SamplerType
             /\ pipe'[j].engine.samplers[s] =
                  IF j = m.instrument
                  THEN OnEvent(Samplers[s], Rebased(advanced, m.action), m.ts, m.action,
                               Now(Append(log, m), j))
                  ELSE advanced
<1> DEFINE e == EngineAdvance(Entry(j).engine, m.ts)
           k == Len(log) + 1
           r == SamplerOf(j, s)
           advanced == Advance(Samplers[s], r, m.ts, Now(log, j))
           g == EngineApply(e, k, m)
<1>1. log \in Seq(FeedEvents) /\ m.ts \in Int /\ Live' = DOMAIN pipe' /\ Typed
  BY DEF TInv, Typed, FeedEvents, Live
<1>2. j \in Instruments
  BY <1>1, ApplyEntries
<1>3. EngineHolds(log, j, Entry(j).engine)
  BY <1>2, EntryHolds
<1>4. /\ EngineHolds(log, j, e) /\ Started(e)
      /\ \A t \in Names : e.samplers[t] = Advance(Samplers[t], Entry(j).engine.samplers[t], m.ts, Now(log, j))
  BY <1>1, <1>3, EngineAdvanceHolds
<1>5. e.samplers[s] = advanced
  BY <1>4 DEF SamplerOf
<1>6. r \in SamplerType /\ advanced \in SamplerType
  <2>1. r \in SamplerType
    BY <1>3 DEF EngineHolds, SamplersHold, SamplerHolds, SamplerOf
  <2> HIDE DEF e, advanced
  <2>2. e.samplers[s] \in SamplerType
    BY <1>4 DEF EngineHolds, SamplersHold, SamplerHolds
  <2>3. QED
    BY <1>5, <2>1, <2>2
<1>7. pipe'[j].engine = IF j = m.instrument THEN g ELSE e
  <2> HIDE DEF e, g
  <2>1. pipe'[j] = IF j = m.instrument
                   THEN RecordOf(Entry(j).resolved, Counted(Entry(j).stats, m.ts), g)
                   ELSE RecordOf(Entry(j).resolved, Entry(j).stats, e)
    BY <1>1, ApplyEntries DEF e, g, k
  <2>2. QED
    BY <2>1 DEF RecordOf
<1> HIDE DEF e, advanced, r
<1>8. CASE j = m.instrument
  <2>1. \A t \in Names : g.samplers[t] = OnEvent(Samplers[t], Rebased(e.samplers[t], m.action), m.ts,
                                                 m.action, Now(Append(log, m), j))
    BY <1>1, <1>4, <1>8, EngineApplyHolds
  <2>2. g.samplers[s] = OnEvent(Samplers[s], Rebased(advanced, m.action), m.ts, m.action,
                                Now(Append(log, m), j))
    BY <1>5, <2>1
  <2> HIDE DEF g
  <2>3. QED
    BY <1>2, <1>6, <1>7, <1>8, <2>2 DEF advanced, r
<1>9. CASE j # m.instrument
  BY <1>2, <1>5, <1>6, <1>7, <1>9 DEF advanced, r
<1>10. QED
  BY <1>8, <1>9

LEMMA CloseSamplers ==
  ASSUME TInv, CloseTable, NEW j \in Live, NEW s \in Names
  PROVE  LET r == SamplerOf(j, s)
         IN  /\ r = pipe[j].engine.samplers[s] /\ r \in SamplerType
             /\ Live' = Live /\ log' = log
             /\ pipe'[j].engine.samplers[s] = Close(Samplers[s], r, Now(log, j))
<1> DEFINE g == EngineClose(pipe[j].engine)
<1>1. /\ log \in Seq(FeedEvents) /\ pipe[j] \in EntryType
      /\ EngineHolds(log, j, pipe[j].engine) /\ Started(pipe[j].engine)
  BY DEF TInv, Typed, EnginesHold
<1>2. g.samplers[s] = Close(Samplers[s], pipe[j].engine.samplers[s], Now(log, j))
  BY <1>1, EngineCloseHolds
<1>3. /\ pipe' = [i \in Live |-> [pipe[i] EXCEPT !.engine = EngineClose(@)]] /\ log' = log
  BY DEF CloseTable, Live
<1>4. pipe'[j] = [pipe[j] EXCEPT !.engine = g] /\ Live' = Live
  BY <1>3 DEF Live
<1> HIDE DEF g
<1>5. pipe'[j].engine = g
  BY <1>1, <1>4 DEF EntryType
<1>6. SamplerOf(j, s) = pipe[j].engine.samplers[s]
  BY DEF SamplerOf, Entry
<1>7. SamplerOf(j, s) \in SamplerType
  BY <1>1, <1>6 DEF EngineHolds, SamplersHold, SamplerHolds
<1>8. QED
  BY <1>2, <1>3, <1>4, <1>5, <1>6, <1>7

-----------------------------------------------------------------------------
(* Multiples of the length of a bar.                                       *)

LEMMA Division ==
  ASSUME NEW a \in Int, NEW e \in Nat \ {0}
  PROVE  /\ a \div e \in Int /\ a % e \in 0..e - 1 /\ a = (a \div e) * e + (a % e)
         /\ a \in Nat => a \div e \in Nat
<1>1. a \div e \in Int
  OBVIOUS
<1>2. a % e \in 0..e - 1
  OBVIOUS
<1>3. a = (a \div e) * e + (a % e)
  OBVIOUS
<1>4. a \in Nat => a \div e \in Nat
  OBVIOUS
<1>5. QED
  BY <1>1, <1>2, <1>3, <1>4

LEMMA DivisionIs ==
  ASSUME NEW a \in Int, NEW e \in Nat \ {0}, NEW q \in Int, q * e <= a, a < q * e + e
  PROVE  a \div e = q
<1>1. PICK d \in Int : d = a \div e /\ d * e <= a /\ a < d * e + e
  BY Division
<1>2. ~(d < q)
  <2> SUFFICES ASSUME d < q PROVE FALSE
    OBVIOUS
  <2>1. PICK x \in Nat : q = d + 1 + x
    <3>1. q - d - 1 \in Nat /\ q = d + 1 + (q - d - 1)
      OBVIOUS
    <3>2. QED
      BY <3>1
  <2>2. q * e = d * e + e + x * e /\ x * e >= 0
    BY <2>1
  <2>3. QED
    BY <1>1, <2>2
<1>3. ~(q < d)
  <2> SUFFICES ASSUME q < d PROVE FALSE
    OBVIOUS
  <2>1. PICK x \in Nat : d = q + 1 + x
    <3>1. d - q - 1 \in Nat /\ d = q + 1 + (d - q - 1)
      OBVIOUS
    <3>2. QED
      BY <3>1
  <2>2. d * e = q * e + e + x * e /\ x * e >= 0
    BY <2>1
  <2>3. QED
    BY <1>1, <2>2
<1>4. QED
  BY <1>1, <1>2, <1>3

LEMMA Multiple ==
  ASSUME NEW e \in Nat \ {0}, NEW q \in Int
  PROVE  (q * e) % e = 0 /\ (q * e) \div e = q /\ q * e \in Int
<1>1. q * e \in Int /\ q * e <= q * e /\ q * e < q * e + e
  OBVIOUS
<1>2. PICK a \in Int : a = q * e
  BY <1>1
<1>3. a \div e = q
  BY <1>1, <1>2, DivisionIs
<1>4. a = (a \div e) * e + (a % e) /\ a % e \in 0..e - 1
  BY Division
<1>5. QED
  BY <1>2, <1>3, <1>4

LEMMA MultipleOf ==
  ASSUME NEW e \in Nat \ {0}, NEW x \in Int, x % e = 0
  PROVE  x \div e \in Int /\ x = (x \div e) * e
<1>1. x \div e \in Int /\ x = (x \div e) * e + (x % e)
  BY Division
<1>2. PICK p \in Int : p = (x \div e) * e
  BY <1>1
<1>3. QED
  BY <1>1, <1>2

\* The next multiple, and that there is none between two that follow each other.
LEMMA Multiples ==
  ASSUME NEW e \in Nat \ {0}, NEW x \in Int, x % e = 0
  PROVE  /\ (x + e) % e = 0
         /\ \A y \in Int : y % e = 0 /\ x < y => x + e <= y
<1>1. PICK q \in Int : x = q * e
  BY MultipleOf
<1>2. (x + e) % e = 0
  <2>1. x + e = (q + 1) * e /\ q + 1 \in Int
    BY <1>1
  <2>2. QED
    BY <2>1, Multiple
<1>3. ASSUME NEW y \in Int, y % e = 0, x < y PROVE x + e <= y
  <2>1. PICK d \in Int : y = d * e
    BY <1>3, MultipleOf
  <2>2. q < d
    <3> SUFFICES ASSUME d <= q PROVE FALSE
      BY <2>1
    <3>1. PICK z \in Nat : q = d + z
      <4>1. q - d \in Nat /\ q = d + (q - d)
        OBVIOUS
      <4>2. QED
        BY <4>1
    <3>2. q * e = d * e + z * e /\ z * e >= 0
      BY <3>1
    <3>3. QED
      BY <1>1, <1>3, <2>1, <3>2
  <2>3. PICK z \in Nat : d = q + 1 + z
    <3>1. d - q - 1 \in Nat /\ d = q + 1 + (d - q - 1)
      BY <2>2
    <3>2. QED
      BY <3>1
  <2>4. d * e = q * e + e + z * e /\ z * e >= 0
    BY <2>3
  <2>5. QED
    BY <1>1, <2>1, <2>4
<1>4. QED
  BY <1>2, <1>3

\* The end of the bar of an event is the first multiple after it, if its ts is not
\* negative.
LEMMA BarEndIs ==
  ASSUME NEW a \in Nat, NEW e \in Nat \ {0}
  PROVE  /\ BarEnd(a, e) \in Nat /\ BarEnd(a, e) % e = 0
         /\ BarEnd(a, e) - e <= a /\ a < BarEnd(a, e)
<1>1. PICK q \in Nat : q = a \div e /\ q * e <= a /\ a < q * e + e
  BY Division
<1>2. BarEnd(a, e) = (q + 1) * e
  BY <1>1 DEF BarEnd, Quotient
<1>3. (q + 1) * e = q * e + e /\ q * e \in Nat /\ q + 1 \in Int
  OBVIOUS
<1>4. ((q + 1) * e) % e = 0
  BY <1>3, Multiple
<1>5. QED
  BY <1>1, <1>2, <1>3, <1>4

LEMMA BarEndOnly ==
  ASSUME NEW a \in Nat, NEW e \in Nat \ {0}, NEW x \in Int, x % e = 0, x - e <= a, a < x
  PROVE  x = BarEnd(a, e)
<1> DEFINE b == BarEnd(a, e)
<1>1. b \in Int /\ b % e = 0 /\ b - e <= a /\ a < b
  BY BarEndIs
<1> HIDE DEF b
<1>2. ~(x < b)
  <2>1. x < b => x + e <= b
    BY <1>1, Multiples
  <2>2. QED
    BY <1>1, <2>1
<1>3. ~(b < x)
  <2>1. b < x => b + e <= x
    BY <1>1, Multiples
  <2>2. QED
    BY <1>1, <2>1
<1>4. QED
  BY <1>1, <1>2, <1>3 DEF b

\* Two events in one bar.
LEMMA SameBar ==
  ASSUME NEW a \in Nat, NEW b \in Nat, NEW e \in Nat \ {0}, a <= b, b < BarEnd(a, e)
  PROVE  BarEnd(b, e) = BarEnd(a, e) /\ b \div e = a \div e
<1>1. BarEnd(a, e) \in Int /\ BarEnd(a, e) % e = 0 /\ BarEnd(a, e) - e <= b
  BY BarEndIs
<1>2. BarEnd(a, e) = BarEnd(b, e)
  BY <1>1, BarEndOnly
<1>3. PICK q \in Nat : q = a \div e /\ q * e <= a /\ BarEnd(a, e) = q * e + e
  <2>1. PICK q \in Nat : q = a \div e /\ q * e <= a
    <3>1. a \div e \in Nat /\ a = (a \div e) * e + (a % e) /\ a % e \in 0..e - 1
      <4>1. a \in Int
        OBVIOUS
      <4>2. QED
        BY <4>1, Division, Zenon
    <3>2. PICK p \in Int : p = (a \div e) * e
      BY <3>1
    <3>3. (a \div e) * e <= a
      BY <3>1, <3>2
    <3>4. QED
      BY <3>1, <3>3
  <2>2. BarEnd(a, e) = (q + 1) * e
    BY <2>1 DEF BarEnd, Quotient
  <2>3. (q + 1) * e = q * e + e
    OBVIOUS
  <2>4. QED
    BY <2>1, <2>2, <2>3
<1>4. q * e \in Nat /\ q * e <= b /\ b < q * e + e
  BY <1>3
<1>5. b \div e = q
  BY <1>4, DivisionIs
<1>6. QED
  BY <1>2, <1>3, <1>5

-----------------------------------------------------------------------------
(* The clock of an instrument.                                             *)

MyFirst(feed, i, k) == Min(Mine(feed, i, k))
ClockOf(feed, i, k) == Max({feed[j].ts : j \in MyFirst(feed, i, k)..k})
NoNegative(feed) == \A j \in DOMAIN feed : feed[j].ts \in Nat

LEMMA ClockIs == \A i, k : Clock(i, k) = ClockOf(log, i, k)
BY FeedIs DEF Clock, ClockOf, MyFirst

LEMMA MinIs ==
  ASSUME NEW S \in SUBSET Nat, S # {}
  PROVE  Min(S) \in S /\ \A x \in S : Min(S) <= x
<1>1. PICK n \in S : \A m \in S : ~(<<m, n>> \in OpToRel(<, Nat))
  BY NatLessThanWellFounded, WFMin, Zenon
<1>2. \A m \in S : n <= m
  <2> SUFFICES ASSUME NEW m \in S, ~(n <= m) PROVE FALSE
    OBVIOUS
  <2>1. m \in Nat /\ n \in Nat
    OBVIOUS
  <2>2. m < n
    BY <2>1
  <2>3. ~(<<m, n>> \in OpToRel(<, Nat))
    BY <1>1, Zenon
  <2>4. QED
    BY <2>1, <2>2, <2>3 DEF OpToRel
<1>3. QED
  BY <1>2 DEF Min

\* The first event of an instrument stays the first.
LEMMA FirstIs ==
  ASSUME NEW feed \in Seq(FeedEvents), NEW i, NEW k \in 0..Len(feed), Mine(feed, i, k) # {}
  PROVE  /\ MyFirst(feed, i, k) \in Mine(feed, i, k) /\ MyFirst(feed, i, k) \in 1..k
         /\ \A j \in Mine(feed, i, k) : MyFirst(feed, i, k) <= j
         /\ \A h \in k..Len(feed) : MyFirst(feed, i, h) = MyFirst(feed, i, k)
<1> DEFINE f == MyFirst(feed, i, k)
<1>1. Mine(feed, i, k) \in SUBSET (1..k) /\ 1..k \subseteq Nat /\ k \in Nat /\ Len(feed) \in Nat
  BY FeedFacts
<1>2. f \in Mine(feed, i, k) /\ \A j \in Mine(feed, i, k) : f <= j
  BY <1>1, MinIs DEF MyFirst
<1>3. f \in 1..k
  BY <1>1, <1>2
<1>4. ASSUME NEW h \in k..Len(feed) PROVE MyFirst(feed, i, h) = f
  <2> DEFINE g == MyFirst(feed, i, h)
  <2>1. h \in 0..Len(feed) /\ h \in Nat
    BY <1>1
  <2>2. Mine(feed, i, h) \in SUBSET (1..h) /\ 1..h \subseteq Nat /\ f \in Mine(feed, i, h)
    BY <1>1, <1>2, <1>3, <2>1 DEF Mine
  <2>3. g \in Mine(feed, i, h) /\ \A j \in Mine(feed, i, h) : g <= j
    BY <2>2, MinIs DEF MyFirst
  <2> HIDE DEF f, g
  <2>4. g <= f /\ g \in 1..h
    BY <2>2, <2>3
  <2>5. g \in Mine(feed, i, k)
    BY <1>1, <1>3, <2>1, <2>3, <2>4 DEF Mine
  <2>6. QED
    BY <1>2, <1>3, <2>4, <2>5 DEF g
<1>5. QED
  BY <1>2, <1>3, <1>4

\* The latest ts of events a to k.
LEMMA LatestIs ==
  ASSUME NEW feed \in Seq(FeedEvents), NEW k \in 1..Len(feed), NEW a \in 1..k
  PROVE  LET c == Max({feed[j].ts : j \in a..k})
         IN  c \in Int /\ (\E j \in a..k : c = feed[j].ts) /\ \A j \in a..k : feed[j].ts <= c
<1> DEFINE Top(n) == \E j \in a..n : \A h \in a..n : feed[j].ts >= feed[h].ts
           T == {n \in Nat : a + n <= k => Top(a + n)}
<1>1. a \in Nat /\ k \in Nat /\ Len(feed) \in Nat /\ \A j \in a..k : feed[j].ts \in Int
  <2>1. \A j \in a..k : j \in 1..Len(feed) /\ feed[j] \in FeedEvents
    OBVIOUS
  <2>2. QED
    BY <2>1 DEF FeedEvents
<1>2. 0 \in T
  <2>1. a \in a..k /\ feed[a].ts >= feed[a].ts
    BY <1>1
  <2>2. a + 0 = a /\ a \in a..a /\ \A h \in a..a : h = a
    BY <1>1
  <2>3. Top(a + 0)
    BY <2>1, <2>2
  <2>4. QED
    BY <2>3
<1>3. ASSUME NEW n \in T PROVE n + 1 \in T
  <2> SUFFICES ASSUME a + (n + 1) <= k PROVE Top(a + (n + 1))
    OBVIOUS
  <2>1. PICK b \in Nat : b = a + n /\ b + 1 = a + (n + 1) /\ b + 1 <= k /\ a <= b
    BY <1>1
  <2>2. PICK j \in a..b : \A h \in a..b : feed[j].ts >= feed[h].ts
    BY <1>1, <2>1
  <2>3. /\ j \in a..b + 1 /\ b + 1 \in a..b + 1 /\ \A h \in a..b + 1 : h \in a..b \/ h = b + 1
        /\ \A h \in a..b + 1 : feed[h].ts \in Int
    BY <1>1, <2>1
  <2>4. CASE feed[b + 1].ts <= feed[j].ts
    <3>1. \A h \in a..b + 1 : feed[j].ts >= feed[h].ts
      BY <2>2, <2>3, <2>4
    <3>2. QED
      BY <2>1, <2>3, <3>1
  <2>5. CASE ~(feed[b + 1].ts <= feed[j].ts)
    <3>1. \A h \in a..b + 1 : feed[b + 1].ts >= feed[h].ts
      BY <2>2, <2>3, <2>5
    <3>2. QED
      BY <2>1, <2>3, <3>1
  <2>6. QED
    BY <2>4, <2>5
<1>4. T = Nat
  <2> HIDE DEF T
  <2>1. T \in SUBSET Nat
    BY DEF T
  <2>2. QED
    BY <1>2, <1>3, <2>1, Induct
<1>5. PICK j \in a..k : \A h \in a..k : feed[j].ts >= feed[h].ts
  <2>1. PICK n \in Nat : a + n = k
    <3>1. k - a \in Nat /\ a + (k - a) = k
      BY <1>1
    <3>2. QED
      BY <3>1
  <2>2. Top(a + n)
    <3>1. a + n <= k
      BY <1>1, <2>1
    <3> HIDE DEF T, Top
    <3>2. n \in T
      BY <1>4
    <3>3. QED
      BY <3>1, <3>2 DEF T
  <2>3. QED
    BY <2>1, <2>2
<1> DEFINE S == {feed[h].ts : h \in a..k}
<1>6. Max(S) \in S /\ \A x \in S : Max(S) >= x
  <2>1. feed[j].ts \in S /\ \A x \in S : feed[j].ts >= x
    BY <1>5
  <2>2. QED
    BY <2>1 DEF Max
<1> HIDE DEF S
<1>7. \A h \in a..k : Max(S) >= feed[h].ts
  BY <1>6 DEF S
<1>8. \E h \in a..k : Max(S) = feed[h].ts
  BY <1>6 DEF S
<1>9. Max(S) \in Int
  BY <1>1, <1>8
<1>10. \A h \in a..k : feed[h].ts <= Max(S)
  BY <1>1, <1>7, <1>9
<1>11. QED
  BY <1>8, <1>9, <1>10 DEF S

LEMMA ClockFacts ==
  ASSUME NEW feed \in Seq(FeedEvents), NEW i, NEW k \in 0..Len(feed), Mine(feed, i, k) # {}
  PROVE  LET c == ClockOf(feed, i, k)
             f == MyFirst(feed, i, k)
         IN  /\ c \in Int /\ \E j \in f..k : c = feed[j].ts
             /\ \A j \in f..k : feed[j].ts <= c
             /\ NoNegative(feed) => c \in Nat
<1>1. MyFirst(feed, i, k) \in 1..k /\ k \in 1..Len(feed)
  <2>1. MyFirst(feed, i, k) \in 1..k
    BY FirstIs
  <2>2. QED
    BY <2>1
<1> DEFINE c == ClockOf(feed, i, k)
           f == MyFirst(feed, i, k)
<1>2. /\ c \in Int /\ \E j \in f..k : c = feed[j].ts
      /\ \A j \in f..k : feed[j].ts <= c
  BY <1>1, LatestIs DEF ClockOf
<1> HIDE DEF c
<1>3. \A j \in f..k : j \in DOMAIN feed
  BY <1>1
<1>4. NoNegative(feed) => c \in Nat
  BY <1>2, <1>3 DEF NoNegative
<1>5. QED
  BY <1>2, <1>4 DEF c

\* What is enough to be the clock.
LEMMA ClockOnly ==
  ASSUME NEW feed \in Seq(FeedEvents), NEW i, NEW k \in 0..Len(feed), Mine(feed, i, k) # {},
         NEW c \in Int, \E j \in MyFirst(feed, i, k)..k : c = feed[j].ts,
         \A j \in MyFirst(feed, i, k)..k : feed[j].ts <= c
  PROVE  ClockOf(feed, i, k) = c
<1> DEFINE d == ClockOf(feed, i, k)
           f == MyFirst(feed, i, k)
<1>1. d \in Int /\ (\E j \in f..k : d = feed[j].ts) /\ \A j \in f..k : feed[j].ts <= d
  BY ClockFacts
<1> HIDE DEF d, f
<1>2. c <= d /\ d <= c
  BY <1>1 DEF f
<1>3. QED
  BY <1>1, <1>2 DEF d

\* The clock does not go back.
LEMMA ClockAhead ==
  ASSUME NEW feed \in Seq(FeedEvents), NEW i, NEW k \in 0..Len(feed), NEW h \in 0..k,
         Mine(feed, i, h) # {}
  PROVE  ClockOf(feed, i, h) <= ClockOf(feed, i, k) /\ Mine(feed, i, k) # {}
<1>1. k \in Nat /\ h \in Nat /\ h <= k /\ k \in h..Len(feed) /\ h \in 0..Len(feed)
  OBVIOUS
<1>2. MyFirst(feed, i, k) = MyFirst(feed, i, h) /\ MyFirst(feed, i, h) \in 1..h
  BY <1>1, FirstIs
<1>3. Mine(feed, i, k) # {}
  BY <1>1 DEF Mine
<1>4. PICK j \in MyFirst(feed, i, h)..h : ClockOf(feed, i, h) = feed[j].ts
  BY <1>1, ClockFacts
<1>5. j \in MyFirst(feed, i, k)..k
  BY <1>1, <1>2
<1>6. feed[j].ts <= ClockOf(feed, i, k)
  BY <1>3, <1>5, ClockFacts
<1>7. QED
  BY <1>3, <1>4, <1>6

\* An event moves the clocks of all instruments that have begun.
LEMMA ClockMoves ==
  ASSUME NEW feed \in Seq(FeedEvents), NEW m \in FeedEvents, NEW i
  PROVE  LET more == Append(feed, m)
             n == Len(feed)
             k == Len(feed) + 1
         IN  /\ \A h \in 0..n : Mine(feed, i, h) # {} => ClockOf(more, i, h) = ClockOf(feed, i, h)
             /\ Mine(feed, i, n) # {} =>
                  /\ ClockOf(more, i, k) = Larger(ClockOf(feed, i, n), m.ts)
                  /\ MyFirst(more, i, k) = MyFirst(feed, i, n)
             /\ Mine(feed, i, n) = {} /\ m.instrument = i =>
                  ClockOf(more, i, k) = m.ts /\ MyFirst(more, i, k) = k
<1> DEFINE more == Append(feed, m)
           n == Len(feed)
           k == n + 1
<1>1. /\ n \in Nat /\ k \in Nat /\ more \in Seq(FeedEvents) /\ Len(more) = k /\ more[k] = m
      /\ m.ts \in Int /\ n \in 0..n /\ n \in 0..Len(more) /\ k \in 0..Len(more) /\ k \in n..Len(more)
      /\ \A j \in 1..n : more[j] = feed[j]
  BY DEF FeedEvents
<1>2. \A h \in 0..n : Mine(more, i, h) = Mine(feed, i, h)
  BY FeedPrefix
<1> HIDE DEF more, n, k
<1>3. ASSUME NEW h \in 0..n, Mine(feed, i, h) # {}
      PROVE  ClockOf(more, i, h) = ClockOf(feed, i, h)
  <2>1. MyFirst(more, i, h) = MyFirst(feed, i, h)
    BY <1>2 DEF MyFirst
  <2>2. MyFirst(feed, i, h) \in 1..h
    BY <1>3, FirstIs DEF n
  <2>3. \A j \in MyFirst(feed, i, h)..h : more[j] = feed[j]
    BY <1>1, <2>2
  <2>4. {more[j].ts : j \in MyFirst(feed, i, h)..h} = {feed[j].ts : j \in MyFirst(feed, i, h)..h}
    BY <2>3
  <2>5. QED
    BY <2>1, <2>4 DEF ClockOf
<1>4. ASSUME Mine(feed, i, n) # {}
      PROVE  /\ ClockOf(more, i, k) = Larger(ClockOf(feed, i, n), m.ts)
             /\ MyFirst(more, i, k) = MyFirst(feed, i, n)
  <2> DEFINE f == MyFirst(feed, i, n)
             c == ClockOf(feed, i, n)
             d == Larger(c, m.ts)
  <2>1. f \in 1..n /\ MyFirst(more, i, n) = f
    BY <1>1, <1>2, <1>4, FirstIs DEF MyFirst, n
  <2>2. MyFirst(more, i, k) = f
    BY <1>1, <1>2, <1>4, <2>1, FirstIs
  <2>3. Mine(more, i, k) # {}
    <3>1. Mine(more, i, n) # {}
      BY <1>1, <1>2, <1>4
    <3>2. QED
      BY <1>1, <3>1 DEF Mine, k
  <2>4. c \in Int /\ (\E j \in f..n : c = feed[j].ts) /\ \A j \in f..n : feed[j].ts <= c
    BY <1>1, <1>4, ClockFacts DEF n
  <2> HIDE DEF c, f
  <2>5. d \in Int /\ d >= c /\ d >= m.ts /\ d \in {c, m.ts}
    BY <1>1, <2>4 DEF Larger
  <2> HIDE DEF d
  <2>6. \A j \in f..k : IF j = k THEN more[j] = m ELSE j \in f..n /\ more[j] = feed[j]
    BY <1>1, <2>1 DEF k
  <2>7. \E j \in f..k : d = more[j].ts
    <3>1. CASE d = m.ts
      <4>1. k \in f..k
        BY <1>1, <2>1 DEF k
      <4>2. QED
        BY <1>1, <3>1, <4>1
    <3>2. CASE d = c
      <4>1. PICK j \in f..n : c = feed[j].ts
        BY <2>4
      <4>2. j \in f..k /\ more[j] = feed[j]
        BY <1>1, <2>1 DEF k
      <4>3. QED
        BY <3>2, <4>1, <4>2
    <3>3. QED
      BY <2>5, <3>1, <3>2
  <2>8. \A j \in f..k : more[j].ts <= d
    <3> SUFFICES ASSUME NEW j \in f..k PROVE more[j].ts <= d
      OBVIOUS
    <3>1. CASE j = k
      BY <1>1, <2>5, <3>1
    <3>2. CASE j # k
      <4>1. j \in f..n /\ more[j] = feed[j]
        BY <2>6, <3>2
      <4>2. feed[j].ts <= c /\ feed[j].ts \in Int
        <5>1. feed[j] \in FeedEvents
          BY <2>1, <4>1 DEF n
        <5>2. QED
          BY <2>4, <4>1, <5>1 DEF FeedEvents
      <4>3. QED
        BY <2>4, <2>5, <4>1, <4>2
    <3>3. QED
      BY <3>1, <3>2
  <2>9. ClockOf(more, i, k) = d
    BY <1>1, <2>2, <2>3, <2>5, <2>7, <2>8, ClockOnly
  <2>10. QED
    BY <2>2, <2>9 DEF c, d, f
<1>5. ASSUME Mine(feed, i, n) = {}, m.instrument = i
      PROVE  ClockOf(more, i, k) = m.ts /\ MyFirst(more, i, k) = k
  <2>1. Mine(more, i, k) = {k}
    <3>1. Mine(more, i, k) = Mine(feed, i, n) \cup {k}
      BY <1>5, FeedGrows, Zenon DEF more, n, k
    <3>2. QED
      BY <1>5, <3>1
  <2>2. MyFirst(more, i, k) = k
    BY <1>1, <2>1, FirstIs
  <2>3. \A j \in k..k : more[j] = m
    BY <1>1
  <2>4. k \in k..k
    BY <1>1
  <2>5. ClockOf(more, i, k) = m.ts
    <3>1. \E j \in MyFirst(more, i, k)..k : m.ts = more[j].ts
      BY <2>2, <2>3, <2>4
    <3>2. \A j \in MyFirst(more, i, k)..k : more[j].ts <= m.ts
      BY <1>1, <2>2, <2>3
    <3>3. Mine(more, i, k) # {}
      BY <2>1
    <3>4. QED
      BY <1>1, <3>1, <3>2, <3>3, ClockOnly
  <2>6. QED
    BY <2>2, <2>5
<1>6. QED
  BY <1>3, <1>4, <1>5 DEF more, n, k

-----------------------------------------------------------------------------
(* Bars.                                                                   *)

GridRow(spec, start, rows, n) ==
  /\ rows[n].ts % spec.every = 0
  /\ n = 1 => start < rows[n].ts /\ rows[n].ts <= start + spec.every
  /\ n > 1 => /\ rows[n].ts > rows[n - 1].ts
              /\ spec.fill_gaps => rows[n].ts = rows[n - 1].ts + spec.every

\* The events of i at which its clock had not reached ts.
Before(feed, i, ts) == {j \in Mine(feed, i, Len(feed)) : ClockOf(feed, i, j) < ts}

BarRows(feed, i, spec, start, rows) ==
  \A n \in DOMAIN rows :
    GridRow(spec, start, rows, n) /\ rows[n].seen = Highest(Before(feed, i, rows[n].ts))

\* An event that no row has seen is in the bar of clock c.
CaughtUp(feed, i, spec, rows, c) ==
  \A j \in Mine(feed, i, Len(feed)) :
    \/ \E n \in DOMAIN rows : rows[n].seen >= j
    \/ ClockOf(feed, i, j) \div spec.every = c \div spec.every

\* The open bar ends at nxt, and every row is for an earlier one.
Filling(feed, i, spec, start, r, nxt) ==
  /\ r \in SamplerType /\ r.started /\ r.next = nxt /\ nxt % spec.every = 0
  /\ BarRows(feed, i, spec, start, r.rows)
  /\ \A n \in DOMAIN r.rows : r.rows[n].ts <= nxt - spec.every
  /\ IF r.rows = <<>> THEN start < nxt /\ nxt <= start + spec.every
     ELSE spec.fill_gaps => r.rows[Len(r.rows)].ts = nxt - spec.every

BarsHold(feed, i, spec, start, r, c) ==
  Filling(feed, i, spec, start, r, BarEnd(c, spec.every)) /\ CaughtUp(feed, i, spec, r.rows, c)

\* An instrument that has begun, and its clock.
Begun(feed, i, c) ==
  /\ feed \in Seq(FeedEvents) /\ NoNegative(feed) /\ Mine(feed, i, Len(feed)) # {}
  /\ c = ClockOf(feed, i, Len(feed))

LEMMA BegunClock ==
  ASSUME NEW feed, NEW i, NEW c, Begun(feed, i, c)
  PROVE  /\ c \in Nat /\ MyLast(feed, i, Len(feed)) \in 0..Len(feed)
         /\ \A j \in Mine(feed, i, Len(feed)) : /\ j \in 1..Len(feed) /\ ClockOf(feed, i, j) \in Nat
                                                /\ ClockOf(feed, i, j) <= c
                                                /\ j <= MyLast(feed, i, Len(feed))
<1>1. /\ feed \in Seq(FeedEvents) /\ Len(feed) \in 0..Len(feed) /\ Len(feed) \in Nat
      /\ Mine(feed, i, Len(feed)) \in SUBSET (1..Len(feed))
      /\ MyLast(feed, i, Len(feed)) \in 0..Len(feed)
  <2>1. feed \in Seq(FeedEvents) /\ Len(feed) \in 0..Len(feed) /\ Len(feed) \in Nat
    BY DEF Begun
  <2>2. QED
    BY <2>1, FeedFacts
<1>2. c \in Nat
  BY <1>1, ClockFacts DEF Begun
<1>3. ASSUME NEW j \in Mine(feed, i, Len(feed))
      PROVE  /\ j \in 1..Len(feed) /\ ClockOf(feed, i, j) \in Nat /\ ClockOf(feed, i, j) <= c
             /\ j <= MyLast(feed, i, Len(feed))
  <2>1. j \in 1..Len(feed) /\ j \in 0..Len(feed)
    BY <1>1
  <2>2. j \in Mine(feed, i, j)
    BY <2>1 DEF Mine
  <2>3. ClockOf(feed, i, j) \in Nat
    BY <1>1, <2>1, <2>2, ClockFacts DEF Begun
  <2>4. ClockOf(feed, i, j) <= c
    <3>1. Len(feed) \in 0..Len(feed) /\ j \in 0..Len(feed) /\ Mine(feed, i, j) # {}
      BY <1>1, <2>1, <2>2
    <3>2. ClockOf(feed, i, j) <= ClockOf(feed, i, Len(feed))
      BY <1>1, <3>1, ClockAhead
    <3>3. QED
      BY <3>2 DEF Begun
  <2>5. j <= MyLast(feed, i, Len(feed))
    BY <1>1, HighestIs DEF MyLast
  <2>6. QED
    BY <2>1, <2>3, <2>4, <2>5
<1>4. QED
  BY <1>1, <1>2, <1>3

\* The row of the open bar: its end has not been reached, so it has seen every event.
LEMMA AppendBar ==
  ASSUME NEW feed, NEW i, NEW c, Begun(feed, i, c), NEW spec \in Specs, NEW start \in Int,
         NEW r, NEW nxt \in Int, Filling(feed, i, spec, start, r, nxt), c < nxt,
         NEW row \in RowType, row.ts = nxt, row.seen = MyLast(feed, i, Len(feed))
  PROVE  LET rows == Append(r.rows, row)
         IN  /\ BarRows(feed, i, spec, start, rows) /\ rows # <<>> /\ rows[Len(rows)].ts = nxt
             /\ \A n \in DOMAIN rows : rows[n].ts <= nxt
             /\ \A d : CaughtUp(feed, i, spec, rows, d)
<1> DEFINE rows == Append(r.rows, row)
           N == Len(r.rows)
<1>1. /\ r.rows \in Seq(RowType) /\ N \in Nat /\ DOMAIN r.rows = 1..N /\ DOMAIN rows = 1..N + 1
      /\ Len(rows) = N + 1 /\ rows[N + 1] = row /\ \A n \in 1..N : rows[n] = r.rows[n]
      /\ rows \in Seq(RowType)
  <2>1. r.rows \in Seq(RowType)
    BY DEF Filling, SamplerType
  <2>2. QED
    BY <2>1
<1>2. spec.every \in Nat \ {0} /\ nxt % spec.every = 0
  BY DEF Filling, Specs
<1>3. \A n \in 1..N : r.rows[n].ts \in Int /\ r.rows[n].ts <= nxt - spec.every
  <2>1. \A n \in 1..N : r.rows[n] \in RowType
    BY <1>1
  <2>2. QED
    BY <1>1, <2>1 DEF Filling, RowType
<1> HIDE DEF rows, N
<1>4. \A n \in DOMAIN rows : rows[n].ts <= nxt
  <2> SUFFICES ASSUME NEW n \in DOMAIN rows PROVE rows[n].ts <= nxt
    OBVIOUS
  <2>1. CASE n = N + 1
    BY <1>1, <2>1
  <2>2. CASE n # N + 1
    <3>1. n \in 1..N
      BY <1>1, <2>2
    <3>2. r.rows[n].ts <= nxt
      BY <1>2, <1>3, <3>1
    <3>3. QED
      BY <1>1, <3>1, <3>2
  <2>3. QED
    BY <2>1, <2>2
<1>5. ASSUME NEW n \in DOMAIN rows
      PROVE  GridRow(spec, start, rows, n) /\ rows[n].seen = Highest(Before(feed, i, rows[n].ts))
  <2>1. CASE n = N + 1
    <3>1. Before(feed, i, nxt) = Mine(feed, i, Len(feed))
      BY BegunClock DEF Before
    <3>2. rows[n].seen = Highest(Before(feed, i, rows[n].ts))
      BY <1>1, <2>1, <3>1 DEF MyLast
    <3>3. CASE N = 0
      <4>1. r.rows = <<>>
        BY <1>1, <3>3 DEF N
      <4>2. start < nxt /\ nxt <= start + spec.every
        BY <4>1 DEF Filling
      <4>3. n = 1
        BY <2>1, <3>3
      <4>4. QED
        BY <1>1, <1>2, <2>1, <3>2, <4>2, <4>3 DEF GridRow
    <3>4. CASE N # 0
      <4>1. N \in 1..N /\ n - 1 = N /\ n # 1 /\ n > 1 /\ r.rows # <<>>
        BY <1>1, <2>1, <3>4 DEF N
      <4>2. rows[n - 1] = r.rows[N]
        BY <1>1, <4>1
      <4>3. r.rows[N].ts \in Int /\ r.rows[N].ts <= nxt - spec.every
        BY <1>3, <4>1
      <4>4. r.rows[N].ts < nxt
        BY <1>2, <4>3
      <4>5. spec.fill_gaps => r.rows[N].ts = nxt - spec.every
        BY <4>1 DEF Filling, N
      <4>6. spec.fill_gaps => nxt = r.rows[N].ts + spec.every
        BY <1>2, <4>5
      <4>7. QED
        BY <1>1, <1>2, <2>1, <3>2, <4>1, <4>2, <4>3, <4>4, <4>6 DEF GridRow
    <3>5. QED
      BY <3>3, <3>4
  <2>2. CASE n # N + 1
    <3>1. n \in 1..N /\ (n > 1 => n - 1 \in 1..N)
      BY <1>1, <2>2
    <3>2. GridRow(spec, start, r.rows, n) /\ r.rows[n].seen = Highest(Before(feed, i, r.rows[n].ts))
      BY <1>1, <3>1 DEF Filling, BarRows
    <3>3. rows[n] = r.rows[n] /\ (n > 1 => rows[n - 1] = r.rows[n - 1])
      BY <1>1, <3>1
    <3>4. GridRow(spec, start, rows, n)
      BY <3>2, <3>3 DEF GridRow
    <3>5. QED
      BY <3>2, <3>3, <3>4
  <2>3. QED
    BY <2>1, <2>2
<1>6. ASSUME NEW d PROVE CaughtUp(feed, i, spec, rows, d)
  <2>1. N + 1 \in DOMAIN rows /\ rows[N + 1].seen = MyLast(feed, i, Len(feed))
    BY <1>1
  <2>2. \A j \in Mine(feed, i, Len(feed)) : rows[N + 1].seen >= j
    BY <2>1, BegunClock
  <2>3. QED
    BY <2>1, <2>2 DEF CaughtUp
<1>7. rows # <<>> /\ rows[Len(rows)].ts = nxt
  BY <1>1
<1>8. QED
  BY <1>4, <1>5, <1>6, <1>7 DEF BarRows, rows

\* The first event starts the first bar.
LEMMA FirstBar ==
  ASSUME NEW feed, NEW i, NEW c, Begun(feed, i, c), Mine(feed, i, Len(feed)) = {Len(feed)},
         NEW spec \in Specs, NEW r \in SamplerType, r.rows = <<>>, r.started,
         r.next = BarEnd(c, spec.every)
  PROVE  BarsHold(feed, i, spec, c, r, c)
<1>1. spec.every \in Nat \ {0} /\ c \in Nat
  BY BegunClock DEF Specs
<1> DEFINE b == BarEnd(c, spec.every)
<1>2. b \in Nat /\ b % spec.every = 0 /\ b - spec.every <= c /\ c < b
  BY <1>1, BarEndIs
<1> HIDE DEF b
<1>3. c < b /\ b <= c + spec.every
  BY <1>1, <1>2
<1>4. Filling(feed, i, spec, c, r, b)
  BY <1>2, <1>3 DEF Filling, BarRows, b
<1>5. CaughtUp(feed, i, spec, r.rows, c)
  BY DEF CaughtUp, Begun
<1>6. QED
  BY <1>4, <1>5 DEF BarsHold, b

\* The loop runs once for each boundary up to ts.
LEMMA Boundaries ==
  ASSUME NEW e \in Nat \ {0}, NEW nxt \in Int, NEW ts \in Int, ts >= nxt
  PROVE  LET d == Quotient(ts - nxt, e)
         IN  /\ d \in Nat /\ nxt + (d + 1) * e \in Int
             /\ nxt + (d + 1) * e - e <= ts /\ ts < nxt + (d + 1) * e
<1>1. PICK a \in Nat : a = ts - nxt
  OBVIOUS
<1>2. PICK q \in Nat : q = a \div e /\ q * e <= a /\ a < q * e + e
  <2>1. a \div e \in Nat /\ a = (a \div e) * e + (a % e) /\ a % e \in 0..e - 1
    <3>1. a \in Int
      OBVIOUS
    <3>2. QED
      BY <3>1, Division, Zenon
  <2>2. PICK q \in Nat : q = a \div e
    BY <2>1
  <2>3. a = q * e + (a % e) /\ a % e \in Int /\ 0 <= a % e /\ a % e < e
    BY <2>1, <2>2
  <2>4. PICK p \in Int : p = q * e
    BY <2>2
  <2>5. q * e <= a /\ a < q * e + e
    BY <2>3, <2>4
  <2>6. QED
    BY <2>2, <2>5
<1>3. Quotient(ts - nxt, e) = q
  BY <1>1, <1>2 DEF Quotient
<1>4. PICK p \in Int : p = q * e /\ (q + 1) * e = p + e
  OBVIOUS
<1>5. q \in Nat /\ nxt + (q + 1) * e \in Int /\ nxt + (q + 1) * e - e <= ts /\ ts < nxt + (q + 1) * e
  BY <1>1, <1>2, <1>4
<1>6. QED
  BY <1>3, <1>5

LEMMA NextBoundary ==
  ASSUME NEW e \in Nat \ {0}, NEW nxt \in Int, NEW h \in Nat
  PROVE  /\ nxt + h * e \in Int /\ nxt + (h + 1) * e = nxt + h * e + e
         /\ nxt <= nxt + h * e /\ nxt + 0 * e = nxt
<1>1. PICK p \in Nat : p = h * e /\ (h + 1) * e = p + e
  OBVIOUS
<1>2. QED
  BY <1>1

\* One pass of the loop.
LEMMA OnePass ==
  ASSUME NEW feed, NEW i, NEW c, Begun(feed, i, c), NEW spec \in Specs, NEW start \in Int,
         NEW r, NEW z \in Int, Filling(feed, i, spec, start, r, z), c < z,
         NEW v \in Snapshots, v.seen = MyLast(feed, i, Len(feed))
  PROVE  LET f == FilledOnce(spec, r, v)
         IN  /\ Filling(feed, i, spec, start, f, z + spec.every)
             /\ \A y : CaughtUp(feed, i, spec, f.rows, y)
<1> DEFINE f == FilledOnce(spec, r, v)
           row == RowOf(r, z, v)
<1>1. r \in SamplerType /\ r.next = z /\ r.started /\ z % spec.every = 0
  BY DEF Filling
<1>2. /\ f \in SamplerType /\ f.next = z + spec.every /\ f.started = r.started
      /\ f.rows = Append(r.rows, row)
  BY <1>1, FilledOnceIs
<1>3. row \in RowType
  BY <1>1, EmitIs
<1>4. row.ts = z /\ row.seen = MyLast(feed, i, Len(feed))
  BY DEF RowOf
<1> HIDE DEF f, row
<1>5. /\ BarRows(feed, i, spec, start, f.rows) /\ f.rows # <<>> /\ f.rows[Len(f.rows)].ts = z
      /\ \A n \in DOMAIN f.rows : f.rows[n].ts <= z
      /\ \A y : CaughtUp(feed, i, spec, f.rows, y)
  <2> DEFINE rows == Append(r.rows, row)
  <2>1. /\ BarRows(feed, i, spec, start, rows) /\ rows # <<>> /\ rows[Len(rows)].ts = z
        /\ \A n \in DOMAIN rows : rows[n].ts <= z
        /\ \A y : CaughtUp(feed, i, spec, rows, y)
    BY <1>3, <1>4, AppendBar
  <2>2. f.rows = rows
    BY <1>2
  <2> HIDE DEF rows
  <2>3. QED
    BY <2>1, <2>2
<1>6. spec.every \in Nat \ {0}
  BY DEF Specs
<1>7. (z + spec.every) % spec.every = 0 /\ z + spec.every - spec.every = z
  BY <1>1, <1>6, Multiples
<1>8. Filling(feed, i, spec, start, f, z + spec.every)
  <2> DEFINE w == z + spec.every
  <2>1. /\ f \in SamplerType /\ f.started /\ f.next = w /\ w % spec.every = 0
        /\ w - spec.every = z
    BY <1>1, <1>2, <1>6, <1>7
  <2> HIDE DEF w
  <2>2. \A n \in DOMAIN f.rows : f.rows[n].ts <= w - spec.every
    BY <1>5, <2>1
  <2>3. f.rows # <<>> /\ f.rows[Len(f.rows)].ts = w - spec.every
    BY <1>5, <2>1
  <2>4. Filling(feed, i, spec, start, f, w)
    BY <1>5, <2>2, <2>3, <2>1 DEF Filling
  <2>5. QED
    BY <2>4 DEF w
<1>9. QED
  BY <1>5, <1>8 DEF f

\* The bars passed over by the clock, one row each.
LEMMA FillGapsBars ==
  ASSUME NEW feed, NEW i, NEW c, Begun(feed, i, c), NEW spec \in Specs,
         NEW start \in Int,
         NEW r, BarsHold(feed, i, spec, start, r, c), NEW ts \in Nat, ts >= r.next
  PROVE  BarsHold(feed, i, spec, start, FillGaps(spec, r, ts, Now(feed, i)), ts)
<1>1. PICK e \in Nat \ {0}, nxt \in Int : e = spec.every /\ nxt = r.next
  BY DEF BarsHold, Filling, SamplerType, Specs
<1>2. PICK v \in Snapshots : v = Now(feed, i) /\ v.seen = MyLast(feed, i, Len(feed))
  <2>1. feed \in Seq(FeedEvents)
    BY DEF Begun
  <2>2. QED
    BY <2>1, NowIs
<1>3. PICK d \in Nat : /\ d = Quotient(ts - nxt, e) /\ nxt + (d + 1) * e \in Int
                       /\ nxt + (d + 1) * e - e <= ts /\ ts < nxt + (d + 1) * e
  <2>1. ts \in Int /\ ts >= nxt
    BY <1>1
  <2>2. QED
    BY <2>1, Boundaries, Zenon
<1>4. PICK passes \in Nat : passes = d + 1 /\ passes # 0
  <2>1. d + 1 \in Nat /\ d + 1 # 0
    OBVIOUS
  <2>2. QED
    BY <2>1
<1>5. /\ r \in SamplerType /\ c \in Nat /\ c < nxt
      /\ Filling(feed, i, spec, start, r, nxt)
  <2>1. c \in Nat
    BY BegunClock
  <2>2. nxt = BarEnd(c, e)
    BY <1>1 DEF BarsHold, Filling
  <2>3. c < nxt
    BY <2>1, <2>2, BarEndIs
  <2>4. Filling(feed, i, spec, start, r, nxt)
    BY <1>1, <2>2 DEF BarsHold
  <2>5. QED
    BY <2>1, <2>3, <2>4 DEF Filling
<1> DEFINE All(x) == \A y : CaughtUp(feed, i, spec, x.rows, y)
           G == [k \in 0..passes |->
                   {x \in SamplerType : /\ Filling(feed, i, spec, start, x, nxt + k * e)
                                        /\ k # 0 => All(x)}]
           g == FillGaps(spec, r, ts, v)
<1> HIDE DEF All
<1>6. r \in G[0]
  <2>1. nxt + 0 * e = nxt
    BY NextBoundary
  <2>2. 0 \in 0..passes
    BY <1>4
  <2>3. QED
    BY <1>5, <2>1, <2>2
<1>7. ASSUME NEW k \in 1..passes, NEW x \in SamplerType, x \in G[k - 1]
      PROVE  FilledOnce(spec, x, v) \in G[k]
  <2> DEFINE f == FilledOnce(spec, x, v)
  <2>1. PICK h \in Nat : h = k - 1 /\ h + 1 = k /\ h \in 0..passes /\ k \in 0..passes /\ k # 0
    <3>1. k - 1 \in Nat /\ k - 1 + 1 = k /\ k - 1 \in 0..passes /\ k \in 0..passes /\ k # 0
      BY <1>4
    <3>2. QED
      BY <3>1
  <2>2. PICK z \in Int : z = nxt + h * e /\ nxt <= z /\ nxt + k * e = z + e
    <3>1. /\ nxt + h * e \in Int /\ nxt + (h + 1) * e = nxt + h * e + e
          /\ nxt <= nxt + h * e
      BY NextBoundary
    <3>2. QED
      BY <2>1, <3>1, Zenon
  <2>3. Filling(feed, i, spec, start, x, z)
    BY <1>7, <2>1, <2>2
  <2>4. c < z
    BY <1>5, <2>2
  <2> HIDE DEF G
  <2>5. /\ Filling(feed, i, spec, start, f, z + spec.every)
        /\ \A y : CaughtUp(feed, i, spec, f.rows, y)
    BY <1>2, <2>3, <2>4, OnePass
  <2> HIDE DEF f
  <2>6. f \in SamplerType
    BY <2>5 DEF Filling
  <2>7. Filling(feed, i, spec, start, f, nxt + k * e)
    BY <1>1, <2>2, <2>5, Zenon
  <2>8. All(f)
    BY <2>5 DEF All
  <2>9. f \in G[k]
    BY <2>1, <2>6, <2>7, <2>8 DEF G
  <2>10. QED
    BY <2>9 DEF f
<1>8. g \in SamplerType /\ g \in G[passes]
  <2>1. \A k \in 1..passes : \A x \in SamplerType :
          x \in G[k - 1] => FilledOnce(spec, x, v) \in G[k]
    BY <1>7
  <2>2. passes = Quotient(ts - r.next, spec.every) + 1
    BY <1>1, <1>3, <1>4
  <2> HIDE DEF G
  <2>3. QED
    BY <1>2, <1>4, <1>5, <1>6, <2>1, <2>2, FillGapsIn
<1> HIDE DEF g
<1>9. Filling(feed, i, spec, start, g, nxt + passes * e) /\ All(g)
  <2>1. passes \in 0..passes
    BY <1>4
  <2>2. QED
    BY <1>4, <1>8, <2>1
<1>10. nxt + passes * e = BarEnd(ts, e)
  <2>1. PICK z \in Int : z = nxt + passes * e /\ z - e <= ts /\ ts < z
    BY <1>3, <1>4
  <2>2. z % e = 0
    BY <1>1, <1>9, <2>1 DEF Filling
  <2>3. QED
    BY <2>1, <2>2, BarEndOnly
<1>11. Filling(feed, i, spec, start, g, BarEnd(ts, spec.every)) /\ CaughtUp(feed, i, spec, g.rows, ts)
  BY <1>1, <1>9, <1>10 DEF All
<1>12. QED
  BY <1>2, <1>11 DEF BarsHold, g

\* Advance keeps the bars, for an event of any instrument.
LEMMA AdvanceBars ==
  ASSUME NEW feed, NEW i, NEW c, Begun(feed, i, c), NEW spec \in Specs, spec.trigger = "time",
         NEW start \in Int, NEW r, BarsHold(feed, i, spec, start, r, c), NEW ts \in Nat
  PROVE  BarsHold(feed, i, spec, start, Advance(spec, r, ts, Now(feed, i)), Larger(c, ts))
<1>1. PICK e \in Nat \ {0}, nxt \in Int : e = spec.every /\ nxt = r.next /\ nxt = BarEnd(c, e)
  <2>1. spec.every \in Nat \ {0} /\ r.next \in Int /\ r.next = BarEnd(c, spec.every)
    BY DEF BarsHold, Filling, SamplerType, Specs
  <2>2. QED
    BY <2>1
<1>2. c \in Nat
  BY BegunClock
<1>3. nxt % e = 0 /\ nxt - e <= c /\ c < nxt
  BY <1>1, <1>2, BarEndIs
<1>4. /\ r \in SamplerType /\ r.started /\ CaughtUp(feed, i, spec, r.rows, c)
      /\ Filling(feed, i, spec, start, r, nxt)
  BY <1>1 DEF BarsHold, Filling
<1>5. PICK v \in Snapshots : v = Now(feed, i) /\ v.seen = MyLast(feed, i, Len(feed))
  <2>1. feed \in Seq(FeedEvents)
    BY DEF Begun
  <2>2. QED
    BY <2>1, NowIs
<1> DEFINE adv == Advance(spec, r, ts, v)
           d == Larger(c, ts)
<1>6. CASE ts < nxt
  <2>1. adv = r
    <3>1. ~Due(spec, r, ts)
      BY <1>1, <1>6 DEF Due
    <3>2. QED
      BY <1>4, <3>1 DEF Advance
  <2>2. d \in Nat /\ c <= d /\ d < nxt
    BY <1>2, <1>3, <1>6 DEF Larger
  <2> HIDE DEF d, adv
  <2>3. BarEnd(d, e) = nxt /\ d \div e = c \div e
    BY <1>1, <1>2, <2>2, SameBar
  <2>4. CaughtUp(feed, i, spec, r.rows, d)
    BY <1>1, <1>4, <2>3 DEF CaughtUp
  <2>5. QED
    BY <1>1, <1>4, <1>5, <2>1, <2>3, <2>4 DEF BarsHold, adv, d
<1>7. CASE ~(ts < nxt) /\ spec.fill_gaps
  <2>1. d = ts /\ ts >= r.next
    BY <1>1, <1>2, <1>3, <1>7 DEF Larger
  <2>2. adv = FillGaps(spec, r, ts, v)
    BY <1>4, <1>7, <2>1 DEF Advance, Due
  <2> HIDE DEF d, adv
  <2>3. BarsHold(feed, i, spec, start, FillGaps(spec, r, ts, Now(feed, i)), ts)
    BY <2>1, FillGapsBars
  <2>4. QED
    BY <1>5, <2>1, <2>2, <2>3 DEF adv, d
<1>8. CASE ~(ts < nxt) /\ ~spec.fill_gaps
  <2> DEFINE em == Emit(r, r.next, v)
             row == RowOf(r, r.next, v)
             end == BarEnd(ts, e)
             rows == Append(r.rows, row)
  <2>1. d = ts /\ ts >= r.next
    BY <1>1, <1>2, <1>3, <1>8 DEF Larger
  <2>2. adv = [em EXCEPT !.next = end]
    BY <1>1, <1>4, <1>8, <2>1 DEF Advance, Due
  <2>3. em \in SamplerType /\ row \in RowType /\ em.started = r.started /\ em.rows = rows
    <3>1. r.next \in Int
      BY <1>1
    <3>2. QED
      BY <1>4, <3>1, EmitIs
  <2>4. row.ts = nxt /\ row.seen = MyLast(feed, i, Len(feed))
    BY <1>1, <1>5 DEF RowOf
  <2>5. end \in Nat /\ end % e = 0 /\ end - e <= ts /\ ts < end
    BY BarEndIs
  <2>6. nxt + e <= end
    <3> HIDE DEF end
    <3>1. nxt < end
      BY <1>8, <2>5
    <3>2. \A y \in Int : y % e = 0 /\ nxt < y => nxt + e <= y
      <4>1. nxt % e = 0
        BY <1>3
      <4>2. QED
        BY <4>1, Multiples, Zenon
    <3>3. QED
      BY <2>5, <3>1, <3>2
  <2> HIDE DEF d, adv, em, row, end
  <2>7. /\ BarRows(feed, i, spec, start, rows) /\ rows # <<>>
        /\ \A n \in DOMAIN rows : rows[n].ts <= nxt
        /\ \A y : CaughtUp(feed, i, spec, rows, y)
    BY <1>3, <1>4, <2>3, <2>4, AppendBar
  <2>8. rows \in Seq(RowType)
    BY <1>4, <2>3 DEF SamplerType
  <2> HIDE DEF rows
  <2>9. \A n \in DOMAIN rows : rows[n].ts <= end - spec.every
    <3>1. \A n \in DOMAIN rows : rows[n].ts \in Int
      <4>1. \A n \in DOMAIN rows : rows[n] \in RowType
        BY <2>8
      <4>2. QED
        BY <4>1 DEF RowType
    <3>2. \A n \in DOMAIN rows : rows[n].ts <= end - e
      BY <2>5, <2>6, <2>7, <3>1
    <3>3. QED
      BY <1>1, <3>2
  <2>10. adv \in SamplerType /\ adv.started /\ adv.next = end /\ adv.rows = rows
    <3>1. em \in SamplerType /\ em.started /\ em.rows = rows /\ end \in Int
      BY <1>4, <2>3, <2>5
    <3>2. QED
      BY <2>2, <3>1 DEF SamplerType
  <2>11. Filling(feed, i, spec, start, adv, end)
    BY <1>1, <1>8, <2>5, <2>7, <2>9, <2>10 DEF Filling
  <2>12. CaughtUp(feed, i, spec, adv.rows, ts)
    BY <2>7, <2>10
  <2>13. QED
    BY <1>1, <1>5, <2>1, <2>11, <2>12 DEF BarsHold, adv, d, end
<1>9. QED
  BY <1>6, <1>7, <1>8

\* The event itself comes after every row: the clock has reached their ends.
LEMMA FeedBars ==
  ASSUME NEW feed, NEW m \in FeedEvents, m.ts \in Nat, NEW i, NEW c, Begun(feed, i, c),
         NEW spec \in Specs, NEW start, NEW r,
         BarsHold(feed, i, spec, start, r, Larger(c, m.ts))
  PROVE  LET more == Append(feed, m)
             d == Larger(c, m.ts)
         IN  /\ Begun(more, i, d) /\ BarsHold(more, i, spec, start, r, d)
             /\ MyFirst(more, i, Len(more)) = MyFirst(feed, i, Len(feed))
<1> DEFINE more == Append(feed, m)
           n == Len(feed)
           k == n + 1
           d == Larger(c, m.ts)
<1>1. /\ feed \in Seq(FeedEvents) /\ NoNegative(feed) /\ Mine(feed, i, n) # {}
      /\ c = ClockOf(feed, i, n) /\ c \in Nat
  BY BegunClock DEF Begun
<1>2. /\ n \in Nat /\ more \in Seq(FeedEvents) /\ Len(more) = k /\ more[k] = m
      /\ k \in Nat /\ \A j \in DOMAIN more : IF j = k THEN more[j] = m
                                             ELSE j \in DOMAIN feed /\ more[j] = feed[j]
  BY <1>1
<1>3. d \in Nat
  BY <1>1 DEF Larger
<1>4. /\ \A h \in 0..n : Mine(feed, i, h) # {} => ClockOf(more, i, h) = ClockOf(feed, i, h)
      /\ ClockOf(more, i, k) = d /\ MyFirst(more, i, k) = MyFirst(feed, i, n)
  BY <1>1, ClockMoves
<1>5. Mine(more, i, k) = Mine(feed, i, n) \cup (IF m.instrument = i THEN {k} ELSE {})
  BY <1>1, FeedGrows
<1> HIDE DEF more, n, k, d
<1>6. NoNegative(more)
  BY <1>1, <1>2 DEF NoNegative
<1>7. Begun(more, i, d)
  BY <1>1, <1>2, <1>4, <1>5, <1>6 DEF Begun
<1>8. \A j \in Mine(feed, i, n) : ClockOf(more, i, j) = ClockOf(feed, i, j)
  <2> SUFFICES ASSUME NEW j \in Mine(feed, i, n) PROVE ClockOf(more, i, j) = ClockOf(feed, i, j)
    OBVIOUS
  <2>1. j \in 0..n /\ j \in Mine(feed, i, j)
    BY <1>2 DEF Mine
  <2>2. QED
    BY <1>4, <2>1
<1>9. ASSUME NEW t \in Int, t <= d PROVE Before(more, i, t) = Before(feed, i, t)
  <2>1. ~(ClockOf(more, i, k) < t)
    BY <1>3, <1>4, <1>9
  <2>2. QED
    BY <1>2, <1>5, <1>8, <2>1 DEF Before, n
<1>10. r \in SamplerType /\ r.rows \in Seq(RowType)
  BY DEF BarsHold, Filling, SamplerType
<1>11. PICK e \in Nat \ {0} : e = spec.every
  BY DEF Specs
<1>12. \A h \in DOMAIN r.rows : r.rows[h].ts \in Int /\ r.rows[h].ts <= d
  <2>1. \A h \in DOMAIN r.rows : r.rows[h].ts \in Int
    <3>1. \A h \in DOMAIN r.rows : r.rows[h] \in RowType
      BY <1>10
    <3>2. QED
      BY <3>1 DEF RowType
  <2>2. \A h \in DOMAIN r.rows : r.rows[h].ts <= BarEnd(d, e) - e
    BY <1>11 DEF BarsHold, Filling, d
  <2>3. BarEnd(d, e) \in Int /\ BarEnd(d, e) - e <= d
    BY <1>3, BarEndIs
  <2>4. QED
    BY <1>3, <2>1, <2>2, <2>3
<1>13. BarRows(more, i, spec, start, r.rows)
  <2>1. BarRows(feed, i, spec, start, r.rows)
    BY DEF BarsHold, Filling
  <2>2. QED
    BY <1>9, <1>12, <2>1 DEF BarRows
<1>14. CaughtUp(more, i, spec, r.rows, d)
  <2>1. CaughtUp(feed, i, spec, r.rows, d)
    BY DEF BarsHold, d
  <2>2. QED
    BY <1>2, <1>4, <1>5, <1>8, <2>1 DEF CaughtUp, n
<1>15. BarsHold(more, i, spec, start, r, d)
  BY <1>13, <1>14 DEF BarsHold, Filling, d
<1>16. QED
  BY <1>2, <1>4, <1>7, <1>15 DEF more, n, k, d

\* OnEvent writes no row of a time sampler.
LEMMA OnEventBars ==
  ASSUME NEW r \in SamplerType, NEW spec \in Specs, spec.trigger = "time", NEW ts \in Int,
         NEW action, NEW v
  PROVE  LET e == OnEvent(spec, Rebased(r, action), ts, action, v)
         IN  /\ e \in SamplerType /\ e.rows = r.rows /\ e.next = r.next /\ e.started = r.started
<1> DEFINE r0 == Rebased(r, action)
           e == OnEvent(spec, r0, ts, action, v)
<1>1. /\ r0 \in SamplerType /\ r0.rows = r.rows /\ r0.started = r.started /\ r0.next = r.next
  BY DEF Rebased, ResetBaseline, SamplerType
<1> HIDE DEF r0
<1>2. ~Counts(spec, action) /\ ~Fires(spec, r0, action)
  BY DEF Counts, Fires
<1>3. e = [r0 EXCEPT !.last_ts = ts, !.dirty = @ \/ spec.trigger = "time", !.count = @]
  BY <1>2 DEF OnEvent
<1> HIDE DEF e
<1>4. e = [r0 EXCEPT !.last_ts = ts, !.dirty = TRUE, !.count = r0.count]
  BY <1>1, <1>3 DEF SamplerType
<1>5. QED
  BY <1>1, <1>4 DEF SamplerType, e, r0

LEMMA SameBars ==
  ASSUME NEW feed, NEW i, NEW spec, NEW start, NEW r, NEW c, BarsHold(feed, i, spec, start, r, c),
         NEW q \in SamplerType, q.rows = r.rows, q.next = r.next, q.started = r.started
  PROVE  BarsHold(feed, i, spec, start, q, c)
BY DEF BarsHold, Filling

LEMMA CloseBars ==
  ASSUME NEW feed, NEW i, NEW c, Begun(feed, i, c), NEW spec \in Specs, spec.trigger = "time",
         NEW start \in Int, NEW r, BarsHold(feed, i, spec, start, r, c)
  PROVE  LET rows == Close(spec, r, Now(feed, i)).rows
         IN  BarRows(feed, i, spec, start, rows) /\ CaughtUp(feed, i, spec, rows, c)
<1>1. PICK v \in Snapshots : v = Now(feed, i) /\ v.seen = MyLast(feed, i, Len(feed))
  <2>1. feed \in Seq(FeedEvents)
    BY DEF Begun
  <2>2. QED
    BY <2>1, NowIs
<1> DEFINE q == Close(spec, r, v)
<1>2. CASE ~Open(spec, r)
  <2>1. q = r
    BY <1>2 DEF Close
  <2> HIDE DEF q
  <2>2. QED
    BY <1>1, <2>1 DEF BarsHold, Filling, q
<1>3. CASE Open(spec, r)
  <2> DEFINE row == RowOf(r, r.next, v)
             rows == Append(r.rows, row)
  <2>1. q = Emit(r, r.next, v)
    BY <1>3 DEF Close
  <2>2. PICK nxt \in Int : nxt = r.next /\ nxt = BarEnd(c, spec.every) /\ r \in SamplerType
    BY DEF BarsHold, Filling, SamplerType
  <2>3. c < nxt
    <3>1. c \in Nat /\ spec.every \in Nat \ {0}
      BY BegunClock DEF Specs
    <3>2. QED
      BY <2>2, <3>1, BarEndIs
  <2>4. Filling(feed, i, spec, start, r, nxt)
    BY <2>2 DEF BarsHold
  <2>5. row \in RowType /\ Emit(r, r.next, v).rows = rows
    <3>1. r.next \in Int /\ r \in SamplerType
      BY <2>2
    <3>2. QED
      BY <3>1, EmitIs
  <2>6. row.ts = nxt /\ row.seen = MyLast(feed, i, Len(feed))
    BY <1>1, <2>2 DEF RowOf
  <2> HIDE DEF row, q
  <2>7. BarRows(feed, i, spec, start, rows) /\ \A y : CaughtUp(feed, i, spec, rows, y)
    BY <2>3, <2>4, <2>5, <2>6, AppendBar
  <2>8. q.rows = rows
    BY <2>1, <2>5
  <2> HIDE DEF rows
  <2>9. QED
    BY <1>1, <2>7, <2>8 DEF q
<1>4. QED
  BY <1>2, <1>3

\* The invariant: the bars of every time sampler hold at the clock of its instrument.
ClockNow(i) == ClockOf(log, i, Len(log))
StartOf(i) == log[MyFirst(log, i, Len(log))].ts

BarsTrue(i, s) ==
  LET r == SamplerOf(i, s)
  IN  /\ BarRows(log, i, Samplers[s], StartOf(i), r.rows)
      /\ CaughtUp(log, i, Samplers[s], r.rows, ClockNow(i))
      /\ ~closed => BarsHold(log, i, Samplers[s], StartOf(i), r, ClockNow(i))

BarsInv ==
  /\ NoNegative(log)
  /\ \A i \in Live : Mine(log, i, Len(log)) # {} /\ \A s \in TimeSamplers : BarsTrue(i, s)

LEMMA StartIs ==
  ASSUME NEW feed \in Seq(FeedEvents), NEW i, Mine(feed, i, Len(feed)) # {}
  PROVE  feed[MyFirst(feed, i, Len(feed))].ts \in Int
<1>1. Len(feed) \in 0..Len(feed) /\ Len(feed) \in Nat
  OBVIOUS
<1>2. MyFirst(feed, i, Len(feed)) \in 1..Len(feed)
  BY <1>1, FirstIs
<1>3. feed[MyFirst(feed, i, Len(feed))] \in FeedEvents
  BY <1>2
<1>4. QED
  BY <1>3 DEF FeedEvents

LEMMA LiveBars ==
  ASSUME TInv, BarsInv, ~closed, NEW m \in FeedEvents, m.ts \in Nat, NEW j \in Live,
         NEW spec \in Specs, spec.trigger = "time", NEW r,
         BarsHold(log, j, spec, StartOf(j), r, ClockNow(j)),
         NEW q \in SamplerType, NEW adv, adv = Advance(spec, r, m.ts, Now(log, j)),
         q.rows = adv.rows, q.next = adv.next, q.started = adv.started
  PROVE  LET more == Append(log, m)
             d == Larger(ClockNow(j), m.ts)
             start == more[MyFirst(more, j, Len(more))].ts
         IN  Begun(more, j, d) /\ BarsHold(more, j, spec, start, q, d)
<1> DEFINE c == ClockNow(j)
           start == StartOf(j)
           more == Append(log, m)
           d == Larger(c, m.ts)
<1>1. log \in Seq(FeedEvents) /\ Len(log) \in Nat /\ Len(log) \in 0..Len(log)
  BY DEF TInv, Typed
<1>2. Begun(log, j, c)
  BY <1>1 DEF BarsInv, Begun, ClockNow
<1>3. start \in Int
  BY <1>1, <1>2, StartIs DEF StartOf, Begun
<1>4. BarsHold(log, j, spec, start, adv, d)
  <2> HIDE DEF c, start, d
  <2>1. BarsHold(log, j, spec, start, r, c)
    BY DEF c, start
  <2>2. BarsHold(log, j, spec, start, Advance(spec, r, m.ts, Now(log, j)), Larger(c, m.ts))
    BY <1>2, <1>3, <2>1, AdvanceBars
  <2>3. QED
    BY <2>2 DEF d
<1> HIDE DEF start
<1>5. /\ Begun(more, j, d) /\ BarsHold(more, j, spec, start, adv, d)
      /\ MyFirst(more, j, Len(more)) = MyFirst(log, j, Len(log))
  <2> HIDE DEF c
  <2>1. BarsHold(log, j, spec, start, adv, Larger(c, m.ts))
    BY <1>4
  <2>2. QED
    BY <1>2, <2>1, FeedBars
<1>6. more[MyFirst(more, j, Len(more))].ts = start
  <2>1. MyFirst(log, j, Len(log)) \in 1..Len(log)
    BY <1>1, <1>2, FirstIs DEF Begun
  <2>2. more[MyFirst(log, j, Len(log))] = log[MyFirst(log, j, Len(log))]
    BY <1>1, <2>1
  <2>3. QED
    BY <1>5, <2>2 DEF start, StartOf
<1>7. BarsHold(more, j, spec, start, q, d)
  BY <1>5, SameBars
<1>8. QED
  BY <1>5, <1>6, <1>7

LEMMA NewBars ==
  ASSUME TInv, BarsInv, NEW m \in FeedEvents, m.ts \in Nat, NEW j \in Instruments \ Live,
         m.instrument = j, NEW spec \in Specs, spec.trigger = "time",
         NEW q \in SamplerType, NEW adv, adv = Advance(spec, NewSampler, m.ts, Now(log, j)),
         q.rows = adv.rows, q.next = adv.next, q.started = adv.started
  PROVE  LET more == Append(log, m)
             start == more[MyFirst(more, j, Len(more))].ts
         IN  Begun(more, j, m.ts) /\ BarsHold(more, j, spec, start, q, m.ts)
<1> DEFINE more == Append(log, m)
<1>1. /\ log \in Seq(FeedEvents) /\ Len(log) \in Nat /\ more \in Seq(FeedEvents)
      /\ Len(more) = Len(log) + 1 /\ more[Len(log) + 1] = m
      /\ \A h \in DOMAIN more : IF h = Len(log) + 1 THEN more[h] = m
                                ELSE h \in DOMAIN log /\ more[h] = log[h]
  BY DEF TInv, Typed
<1>2. Mine(log, j, Len(log)) = {}
  BY DEF TInv, EnginesHold
<1>3. ClockOf(more, j, Len(more)) = m.ts /\ MyFirst(more, j, Len(more)) = Len(more)
  BY <1>1, <1>2, ClockMoves
<1>4. Mine(more, j, Len(more)) = {Len(more)}
  <2>1. Mine(more, j, Len(log) + 1) = Mine(log, j, Len(log)) \cup {Len(log) + 1}
    BY <1>1, FeedGrows
  <2>2. QED
    BY <1>1, <1>2, <2>1
<1> HIDE DEF more
<1>5. NoNegative(more)
  BY <1>1 DEF BarsInv, NoNegative
<1>6. Begun(more, j, m.ts)
  BY <1>1, <1>3, <1>4, <1>5 DEF Begun
<1>7. adv = [NewSampler EXCEPT !.started = TRUE, !.next = BarEnd(m.ts, spec.every)]
  BY DEF Advance, Due, NewSampler
<1>8. adv.rows = <<>> /\ adv.started /\ adv.next = BarEnd(m.ts, spec.every)
  BY <1>7 DEF NewSampler
<1>9. BarsHold(more, j, spec, m.ts, q, m.ts)
  <2>1. q.rows = <<>> /\ q.started /\ q.next = BarEnd(m.ts, spec.every)
    BY <1>8
  <2>2. QED
    BY <1>4, <1>6, <2>1, FirstBar
<1>10. more[MyFirst(more, j, Len(more))].ts = m.ts
  BY <1>1, <1>3
<1>11. QED
  BY <1>6, <1>9, <1>10 DEF more

LEMMA ApplyBars ==
  ASSUME TInv, BarsInv, NEW m \in FeedEvents, m.ts \in Nat, Apply(m)
  PROVE  BarsInv'
<1> DEFINE more == Append(log, m)
<1>1. /\ log \in Seq(FeedEvents) /\ log' = more /\ ~closed /\ ~closed' /\ Live' = DOMAIN pipe'
      /\ more \in Seq(FeedEvents) /\ m.ts \in Int
      /\ \A h \in DOMAIN more : more[h] = m \/ (h \in DOMAIN log /\ more[h] = log[h])
  BY DEF TInv, Typed, Apply, Live, FeedEvents
<1>2. NoNegative(more)
  BY <1>1 DEF BarsInv, NoNegative
<1>3. \A j \in Live' : /\ j \in Instruments
                       /\ j \in Live \/ (j \notin Live /\ j = m.instrument)
  <2>1. DOMAIN pipe' = Live \cup {m.instrument} /\ \A j \in DOMAIN pipe' : j \in Instruments
    BY ApplyEntries DEF TInv
  <2>2. QED
    BY <1>1, <2>1
<1> HIDE DEF more
<1>4. ASSUME NEW j \in Live', NEW s \in TimeSamplers, NEW q, q = pipe'[j].engine.samplers[s]
      PROVE  \E d : /\ Begun(more, j, d)
                    /\ BarsHold(more, j, Samplers[s], more[MyFirst(more, j, Len(more))].ts, q, d)
  <2> DEFINE spec == Samplers[s]
             r == SamplerOf(j, s)
             adv == Advance(spec, r, m.ts, Now(log, j))
  <2>1. s \in Names /\ spec \in Specs /\ spec.trigger = "time"
    BY SpecsAre DEF TimeSamplers
  <2>2. /\ r \in SamplerType /\ adv \in SamplerType
        /\ q = IF j = m.instrument
               THEN OnEvent(spec, Rebased(adv, m.action), m.ts, m.action, Now(Append(log, m), j))
               ELSE adv
    BY <1>4, <2>1, ApplySamplers
  <2> HIDE DEF spec, r, adv
  <2>3. q \in SamplerType /\ q.rows = adv.rows /\ q.next = adv.next /\ q.started = adv.started
    BY <1>1, <2>1, <2>2, OnEventBars
  <2>4. CASE j \in Live
    <3>1. BarsHold(log, j, spec, StartOf(j), r, ClockNow(j))
      BY <1>1, <2>4 DEF BarsInv, BarsTrue, spec, r
    <3>2. QED
      BY <1>1, <2>1, <2>3, <2>4, <3>1, LiveBars DEF adv, more, spec
  <2>5. CASE j \notin Live
    <3>1. j \in Instruments \ Live /\ m.instrument = j
      BY <1>3, <2>5
    <3>2. r = NewSampler
      BY <2>1, <2>5 DEF r, SamplerOf, Entry, NewEntry, NewEngine
    <3>3. adv = Advance(spec, NewSampler, m.ts, Now(log, j))
      BY <3>2 DEF adv
    <3>4. QED
      BY <2>1, <2>3, <3>1, <3>3, NewBars DEF more, spec
  <2>6. QED
    BY <2>4, <2>5
<1>5. ASSUME NEW j \in Live' PROVE Mine(more, j, Len(more)) # {}
  <2>1. CASE j \in Live
    <3>1. Mine(log, j, Len(log)) # {}
      BY <2>1 DEF BarsInv
    <3>2. QED
      BY <1>1, <3>1, FeedGrows DEF more
  <2>2. CASE j = m.instrument
    <3>1. Mine(more, j, Len(log) + 1) = Mine(log, j, Len(log)) \cup {Len(log) + 1}
      BY <1>1, <2>2, FeedGrows DEF more
    <3>2. Len(more) = Len(log) + 1
      BY <1>1 DEF more
    <3>3. QED
      BY <3>1, <3>2
  <2>3. QED
    BY <1>3, <2>1, <2>2
<1>6. ASSUME NEW j \in Live', NEW s \in TimeSamplers PROVE BarsTrue(j, s)'
  <2> DEFINE q == pipe'[j].engine.samplers[s]
             start == more[MyFirst(more, j, Len(more))].ts
  <2>1. SamplerOf(j, s)' = q
    BY DEF SamplerOf, Entry
  <2>2. PICK d : Begun(more, j, d) /\ BarsHold(more, j, Samplers[s], start, q, d)
    BY <1>4
  <2>3. StartOf(j)' = start /\ ClockNow(j)' = d
    BY <1>1, <2>2 DEF StartOf, ClockNow, Begun
  <2> HIDE DEF q, start
  <2>4. /\ BarRows(more, j, Samplers[s], start, q.rows) /\ CaughtUp(more, j, Samplers[s], q.rows, d)
        /\ BarsHold(more, j, Samplers[s], start, q, d)
    BY <2>2 DEF BarsHold, Filling
  <2>5. QED
    BY <1>1, <2>1, <2>3, <2>4 DEF BarsTrue
<1>7. QED
  BY <1>1, <1>2, <1>5, <1>6 DEF BarsInv, TimeSamplers

LEMMA CloseTableBars ==
  ASSUME TInv, BarsInv, CloseTable
  PROVE  BarsInv'
<1>1. /\ log \in Seq(FeedEvents) /\ log' = log /\ ~closed /\ closed' /\ Live' = Live
  <2>1. Live' = Live
    BY DEF CloseTable, Live
  <2>2. QED
    BY <2>1 DEF TInv, Typed, CloseTable
<1>2. ASSUME NEW j \in Live, NEW s \in TimeSamplers PROVE BarsTrue(j, s)'
  <2> DEFINE spec == Samplers[s]
             r == SamplerOf(j, s)
             q == pipe'[j].engine.samplers[s]
  <2>1. s \in Names /\ spec \in Specs /\ spec.trigger = "time"
    BY SpecsAre DEF TimeSamplers
  <2>2. q = Close(spec, r, Now(log, j))
    BY <2>1, CloseSamplers
  <2>3. BarsHold(log, j, spec, StartOf(j), r, ClockNow(j))
    BY <1>1 DEF BarsInv, BarsTrue
  <2>4. Begun(log, j, ClockNow(j))
    BY <1>1 DEF BarsInv, Begun, ClockNow
  <2>5. StartOf(j) \in Int
    BY <1>1, StartIs DEF BarsInv, StartOf
  <2>6. SamplerOf(j, s)' = q
    BY <1>1 DEF SamplerOf, Entry
  <2>7. StartOf(j)' = StartOf(j) /\ ClockNow(j)' = ClockNow(j)
    BY <1>1 DEF StartOf, ClockNow
  <2> HIDE DEF spec, r, q
  <2>8. /\ BarRows(log, j, spec, StartOf(j), q.rows)
        /\ CaughtUp(log, j, spec, q.rows, ClockNow(j))
    BY <2>1, <2>2, <2>3, <2>4, <2>5, CloseBars
  <2>9. QED
    BY <1>1, <2>6, <2>7, <2>8 DEF BarsTrue, spec
<1>3. QED
  BY <1>1, <1>2 DEF BarsInv, TimeSamplers

\* The invariant behind BarGrid and BarsAsOf.
THEOREM BarsInductive == ASSUME MinTs \in Nat PROVE Spec => [](TInv /\ BarsInv)
<1>1. Init => BarsInv
  BY DEF Init, BarsInv, NoNegative, Live
<1>2. TInv /\ BarsInv /\ [Next]_vars => BarsInv'
  <2> SUFFICES ASSUME TInv, BarsInv, [Next]_vars PROVE BarsInv'
    OBVIOUS
  <2>1. ASSUME NEW i \in Instruments, NEW jump \in Jumps, Feed(i, jump) PROVE BarsInv'
    <3>1. PICK m \in FeedEvents : m.ts >= MinTs /\ Apply(m)
      BY <2>1, FeedHands DEF TInv
    <3>2. m.ts \in Nat
      BY <3>1 DEF FeedEvents
    <3>3. QED
      BY <3>1, <3>2, ApplyBars
  <2>2. CASE CloseTable
    BY <2>2, CloseTableBars
  <2>3. CASE UNCHANGED vars
    BY <2>3 DEF vars, BarsInv, BarsTrue, TimeSamplers, SamplerOf, Entry, StartOf, ClockNow, Live
  <2>4. ASSUME NEW i \in Instruments, ResolveOutside(i) PROVE BarsInv'
    BY <2>4 DEF ResolveOutside, BarsInv, BarsTrue, TimeSamplers, SamplerOf, Entry, StartOf, ClockNow, Live
  <2>5. QED
    BY <2>1, <2>2, <2>3, <2>4 DEF Next
<1>3. QED
  BY EnginesInductive, <1>1, <1>2, PTL DEF Spec

\* Bars end at whole multiples of their length, in order, the first right after the
\* instrument's first event, and with fill_gaps none is left out, whatever the samplers,
\* the order of the instruments' events and their steps in time, forwards or back, as
\* long as no ts is negative.
THEOREM BarsOnGrid == ASSUME MinTs \in Nat PROVE Spec => []BarGrid
<1>1. TInv /\ BarsInv => BarGrid
  <2> SUFFICES ASSUME TInv, BarsInv, NEW i \in Live, NEW s \in TimeSamplers
               PROVE  \A n \in DOMAIN Rows(i, s) :
                        GridRow(Samplers[s], log[Min(EventsOf(i, Len(log)))].ts, Rows(i, s), n)
    BY DEF BarGrid, GridRow
  <2>1. SamplerOf(i, s).rows = Rows(i, s)
    BY DEF SamplerOf, Entry, Rows
  <2>2. StartOf(i) = log[Min(EventsOf(i, Len(log)))].ts
    BY FeedIs DEF StartOf, MyFirst
  <2>3. BarRows(log, i, Samplers[s], StartOf(i), Rows(i, s))
    BY <2>1 DEF BarsInv, BarsTrue
  <2>4. QED
    BY <2>2, <2>3 DEF BarRows
<1>2. QED
  BY BarsInductive, <1>1, PTL

\* The row of a bar shows exactly the events before the instrument's clock, which any
\* instrument moves, reached the end of the bar, and no bar whose end the clock has passed
\* waits for its row: `time samplers close bars before the event that crosses the boundary
\* is applied'.
THEOREM BarsBeforeTheirEnd == ASSUME MinTs \in Nat PROVE Spec => []BarsAsOf
<1>1. TInv /\ BarsInv => BarsAsOf
  <2> SUFFICES ASSUME TInv, BarsInv, NEW i \in Live, NEW s \in TimeSamplers
               PROVE  /\ \A n \in DOMAIN Rows(i, s) :
                           Rows(i, s)[n].seen = Highest({j \in EventsOf(i, Len(log)) :
                                                           Clock(i, j) < Rows(i, s)[n].ts})
                      /\ \A j \in EventsOf(i, Len(log)) :
                           \/ Clock(i, j) \div Samplers[s].every
                                = Clock(i, Len(log)) \div Samplers[s].every
                           \/ \E n \in DOMAIN Rows(i, s) : Rows(i, s)[n].seen >= j
    BY DEF BarsAsOf
  <2>1. SamplerOf(i, s).rows = Rows(i, s)
    BY DEF SamplerOf, Entry, Rows
  <2>2. /\ EventsOf(i, Len(log)) = Mine(log, i, Len(log))
        /\ \A j : Clock(i, j) = ClockOf(log, i, j)
    BY FeedIs, ClockIs
  <2>3. /\ BarRows(log, i, Samplers[s], StartOf(i), Rows(i, s))
        /\ CaughtUp(log, i, Samplers[s], Rows(i, s), ClockNow(i))
    BY <2>1 DEF BarsInv, BarsTrue
  <2>4. \A t : {j \in EventsOf(i, Len(log)) : Clock(i, j) < t} = Before(log, i, t)
    BY <2>2 DEF Before
  <2>5. QED
    BY <2>2, <2>3, <2>4 DEF BarRows, CaughtUp, ClockNow
<1>2. QED
  BY BarsInductive, <1>1, PTL

-----------------------------------------------------------------------------
(* The feed report.                                                        *)

\* The events of S before which time was later.
Back(feed, S) == {j \in S : \E h \in S : /\ h < j /\ feed[h].ts > feed[j].ts
                                         /\ \A g \in S : ~(h < g /\ g < j)}

LEMMA BackIs == \A S : Regressions(S) = Cardinality(Back(log, S))
BY DEF Regressions, Back

LEMMA BackGrows ==
  ASSUME NEW feed \in Seq(FeedEvents), NEW m \in FeedEvents, NEW S \in SUBSET (1..Len(feed))
  PROVE  LET more == Append(feed, m)
             k == Len(feed) + 1
         IN  /\ Back(more, S) = Back(feed, S)
             /\ Back(more, S \cup {k}) =
                  Back(feed, S) \cup IF S # {} /\ m.ts < feed[Highest(S)].ts THEN {k} ELSE {}
<1> DEFINE more == Append(feed, m)
           n == Len(feed)
           k == n + 1
           last == Highest(S)
<1>1. /\ n \in Nat /\ k \in Nat /\ more[k] = m /\ k \notin S
      /\ \A j \in S : j \in 1..n /\ j \in Nat /\ j < k /\ more[j] = feed[j]
  OBVIOUS
<1>2. m.ts \in Int /\ \A j \in S : feed[j].ts \in Int
  <2>1. \A j \in 1..n : feed[j] \in FeedEvents
    OBVIOUS
  <2>2. \A j \in S : feed[j] \in FeedEvents
    BY <2>1
  <2>3. QED
    BY <2>2 DEF FeedEvents
<1>3. S # {} => last \in S /\ \A j \in S : j <= last
  BY <1>1, HighestIs
<1> HIDE DEF more, n, k, last
<1>4. Back(more, S) = Back(feed, S)
  BY <1>1 DEF Back
<1>5. ASSUME NEW j \in S PROVE j \in Back(more, S \cup {k}) <=> j \in Back(feed, S)
  <2>1. \A h \in S \cup {k} : h < j => h \in S
    BY <1>1
  <2>2. \A h : ~(h < k /\ k < j)
    BY <1>1
  <2>3. \A h \in S : (\A g \in S \cup {k} : ~(h < g /\ g < j)) <=> (\A g \in S : ~(h < g /\ g < j))
    BY <1>1
  <2>4. j \in Back(more, S \cup {k}) <=> j \in Back(more, S)
    BY <2>1, <2>3 DEF Back
  <2>5. QED
    BY <1>4, <2>4
<1>6. k \in Back(more, S \cup {k}) <=> S # {} /\ m.ts < feed[last].ts
  <2>1. ASSUME k \in Back(more, S \cup {k}) PROVE S # {} /\ m.ts < feed[last].ts
    <3>1. PICK h \in S \cup {k} : /\ h < k /\ more[h].ts > more[k].ts
                                  /\ \A g \in S \cup {k} : ~(h < g /\ g < k)
      BY <2>1 DEF Back
    <3>2. h \in S
      BY <1>1, <3>1
    <3>3. last \in S /\ h <= last
      BY <1>3, <3>2
    <3>4. ~(h < last)
      BY <1>1, <3>1, <3>3
    <3>5. h = last
      BY <1>1, <3>2, <3>3, <3>4
    <3>6. QED
      BY <1>1, <1>2, <3>1, <3>2, <3>5
  <2>2. ASSUME S # {}, m.ts < feed[last].ts PROVE k \in Back(more, S \cup {k})
    <3>1. last \in S /\ \A j \in S : j <= last
      BY <1>3, <2>2
    <3>2. last < k /\ more[last].ts > more[k].ts
      BY <1>1, <1>2, <2>2, <3>1
    <3>3. \A g \in S \cup {k} : ~(last < g /\ g < k)
      BY <1>1, <3>1
    <3>4. last \in S \cup {k}
      BY <3>1
    <3>5. QED
      BY <3>2, <3>3, <3>4 DEF Back
  <2>3. QED
    BY <2>1, <2>2
<1>7. Back(more, S \cup {k}) \subseteq S \cup {k} /\ Back(feed, S) \subseteq S
  BY DEF Back
<1> DEFINE extra == IF S # {} /\ m.ts < feed[last].ts THEN {k} ELSE {}
<1>8. Back(more, S \cup {k}) = Back(feed, S) \cup extra
  <2>1. CASE S # {} /\ m.ts < feed[last].ts
    <3>1. extra = {k}
      BY <2>1
    <3> HIDE DEF extra
    <3>2. QED
      BY <1>1, <1>5, <1>6, <1>7, <2>1, <3>1
  <2>2. CASE ~(S # {} /\ m.ts < feed[last].ts)
    <3>1. extra = {}
      BY <2>2
    <3> HIDE DEF extra
    <3>2. QED
      BY <1>1, <1>5, <1>6, <1>7, <2>2, <3>1
  <2>3. QED
    BY <2>1, <2>2
<1>9. QED
  BY <1>4, <1>8 DEF more, n, k, last

\* The statistics st of the events in S.
StatsHold(feed, S, st) ==
  /\ S \in SUBSET (1..Len(feed)) /\ IsFiniteSet(S)
  /\ st.events = Cardinality(S) /\ st.ts_regressions = Cardinality(Back(feed, S))
  /\ S # {} => st.first_ts = feed[Min(S)].ts /\ st.last_ts = feed[Highest(S)].ts

LEMMA StatsKept ==
  ASSUME NEW feed \in Seq(FeedEvents), NEW m \in FeedEvents, NEW S, NEW st,
         StatsHold(feed, S, st)
  PROVE  StatsHold(Append(feed, m), S, st)
<1> DEFINE more == Append(feed, m)
<1>1. S \in SUBSET (1..Len(feed)) /\ Len(feed) \in Nat
  BY DEF StatsHold
<1>2. \A j \in 1..Len(feed) : more[j] = feed[j] /\ j \in 1..Len(more)
  OBVIOUS
<1>3. Back(more, S) = Back(feed, S)
  <2>1. \A j \in S : more[j] = feed[j]
    BY <1>1, <1>2
  <2> HIDE DEF more
  <2>2. QED
    BY <2>1 DEF Back
<1> HIDE DEF more
<1>4. S # {} => Min(S) \in 1..Len(feed) /\ Highest(S) \in 1..Len(feed)
  <2>1. \A j \in S : j \in 1..Len(feed) /\ j \in Nat
    BY <1>1
  <2>2. S \in SUBSET Nat
    BY <2>1
  <2>3. S # {} => Min(S) \in S /\ Highest(S) \in S
    BY <1>1, <2>2, MinIs, HighestIs
  <2>4. QED
    BY <2>1, <2>3
<1>5. S \in SUBSET (1..Len(more))
  BY <1>1, <1>2
<1>6. QED
  BY <1>2, <1>3, <1>4, <1>5 DEF StatsHold, more

\* One more event.
LEMMA StatsGrow ==
  ASSUME NEW feed \in Seq(FeedEvents), NEW m \in FeedEvents, NEW S,
         NEW st \in StatsType \cup FeedStatsType, StatsHold(feed, S, st)
  PROVE  StatsHold(Append(feed, m), S \cup {Len(feed) + 1}, Counted(st, m.ts))
<1> DEFINE more == Append(feed, m)
           n == Len(feed)
           k == n + 1
           U == S \cup {k}
           c == Counted(st, m.ts)
           back == IF S # {} /\ m.ts < feed[Highest(S)].ts THEN {k} ELSE {}
<1>1. /\ n \in Nat /\ k \in Nat /\ Len(more) = k /\ more[k] = m /\ m.ts \in Int
      /\ \A j \in 1..n : more[j] = feed[j]
  BY DEF FeedEvents
<1>2. S \in SUBSET (1..n) /\ IsFiniteSet(S) /\ \A j \in S : j \in 1..n /\ j \in Nat /\ j < k
  BY <1>1 DEF StatsHold
<1>3. /\ c.events = st.events + 1 /\ c.last_ts = m.ts
      /\ c.first_ts = IF st.events = 0 THEN m.ts ELSE st.first_ts
      /\ c.ts_regressions = st.ts_regressions
                              + IF st.events # 0 /\ m.ts < st.last_ts THEN 1 ELSE 0
  BY <1>1, CountedIs
<1>4. Back(more, U) = Back(feed, S) \cup back
  BY <1>2, BackGrows
<1> HIDE DEF c, more, n, k, back
<1>5. U \in SUBSET (1..k) /\ \A x \in U : x <= k
  <2>1. \A x \in U : x \in 1..k /\ x <= k
    BY <1>1, <1>2 DEF k
  <2>2. QED
    BY <2>1
<1>6. IsFiniteSet(U) /\ Cardinality(U) = Cardinality(S) + 1
  <2>1. k \notin S
    BY <1>1, <1>2
  <2>2. QED
    BY <1>2, <2>1, FS_AddElement
<1>7. Cardinality(S) \in Nat /\ (Cardinality(S) = 0 <=> S = {})
  BY <1>2, FS_CardinalityType, FS_EmptySet
<1>8. Highest(U) = k
  BY <1>1, <1>5, HighestWith
<1>9. c.first_ts = more[Min(U)].ts
  <2>1. U \in SUBSET Nat
    BY <1>1, <1>2
  <2>2. Min(U) \in U /\ \A x \in U : Min(U) <= x
    BY <2>1, MinIs
  <2>3. CASE S = {}
    <3>1. Min(U) = k
      BY <2>2, <2>3
    <3>2. QED
      BY <1>1, <1>3, <1>7, <2>3, <3>1 DEF StatsHold
  <2>4. CASE S # {}
    <3>1. S \in SUBSET Nat
      BY <1>2
    <3>2. Min(S) \in S /\ \A x \in S : Min(S) <= x
      BY <2>4, <3>1, MinIs
    <3> HIDE DEF U
    <3>3. Min(U) = Min(S)
      <4>1. Min(S) \in U /\ Min(U) <= Min(S) /\ Min(S) < k /\ Min(S) \in Nat
        BY <1>2, <2>2, <3>2 DEF U
      <4>2. Min(U) \in S /\ Min(U) \in Nat
        <5>1. Min(U) \in Nat
          BY <2>1, <2>2
        <5>2. Min(U) # k
          BY <1>1, <4>1, <5>1
        <5>3. Min(U) \in S \cup {k}
          BY <2>2 DEF U
        <5>4. QED
          BY <5>1, <5>2, <5>3
      <4>3. Min(S) <= Min(U)
        BY <3>2, <4>2
      <4>4. QED
        BY <4>1, <4>2, <4>3
    <3>4. more[Min(S)] = feed[Min(S)]
      BY <1>1, <1>2, <3>2
    <3>5. QED
      BY <1>3, <1>7, <2>4, <3>3, <3>4 DEF StatsHold
  <2>5. QED
    BY <2>3, <2>4
<1>10. c.ts_regressions = Cardinality(Back(more, U))
  <2>1. IsFiniteSet(Back(feed, S)) /\ k \notin Back(feed, S)
    <3>1. Back(feed, S) \in SUBSET S
      BY DEF Back
    <3>2. k \notin S
      BY <1>1, <1>2
    <3>3. QED
      BY <1>2, <3>1, <3>2, FS_Subset
  <2>2. Cardinality(Back(feed, S)) \in Nat
    BY <2>1, FS_CardinalityType
  <2>3. (st.events # 0 /\ m.ts < st.last_ts) <=> (S # {} /\ m.ts < feed[Highest(S)].ts)
    BY <1>7 DEF StatsHold
  <2>4. CASE S # {} /\ m.ts < feed[Highest(S)].ts
    <3>1. Cardinality(Back(feed, S) \cup {k}) = Cardinality(Back(feed, S)) + 1
      BY <2>1, FS_AddElement
    <3>2. back = {k}
      BY <2>4 DEF back
    <3>3. QED
      BY <1>3, <1>4, <2>3, <2>4, <3>1, <3>2 DEF StatsHold
  <2>5. CASE ~(S # {} /\ m.ts < feed[Highest(S)].ts)
    <3>1. back = {}
      BY <2>5 DEF back
    <3>2. Back(more, U) = Back(feed, S)
      BY <1>4, <3>1
    <3>3. c.ts_regressions = st.ts_regressions + 0
      BY <1>3, <2>3, <2>5
    <3>4. QED
      BY <2>2, <3>2, <3>3 DEF StatsHold
  <2>6. QED
    BY <2>4, <2>5
<1>11. c.events = Cardinality(U)
  BY <1>3, <1>6 DEF StatsHold
<1>12. QED
  BY <1>1, <1>3, <1>5, <1>6, <1>8, <1>9, <1>10, <1>11 DEF StatsHold, more, n, k, c

\* The invariant: the statistics of the feed and of every instrument hold.
StatsInv ==
  /\ StatsHold(log, 1..Len(log), stats)
  /\ IsFiniteSet(Live) /\ stats.unknown = Cardinality(Live \ Named)
  /\ \A i \in Live : /\ Mine(log, i, Len(log)) # {}
                     /\ StatsHold(log, Mine(log, i, Len(log)), pipe[i].stats)

LEMMA NoStats ==
  ASSUME NEW feed \in Seq(FeedEvents), NEW st, st.events = 0, st.ts_regressions = 0
  PROVE  StatsHold(feed, {}, st)
<1>1. Back(feed, {}) = {}
  BY DEF Back
<1>2. QED
  BY <1>1, FS_EmptySet DEF StatsHold

LEMMA MineGrows ==
  ASSUME NEW feed \in Seq(FeedEvents), NEW m \in FeedEvents, NEW i
  PROVE  Mine(Append(feed, m), i, Len(feed) + 1) =
           IF m.instrument # i THEN Mine(feed, i, Len(feed))
           ELSE Mine(feed, i, Len(feed)) \cup {Len(feed) + 1}
<1>1. CASE m.instrument # i
  BY <1>1, FeedGrows
<1>2. CASE m.instrument = i
  BY <1>2, FeedGrows
<1>3. QED
  BY <1>1, <1>2

LEMMA ApplyStats ==
  ASSUME Typed, \A i \in Instruments \ Live : Mine(log, i, Len(log)) = {}, StatsInv,
         NEW m \in FeedEvents, Apply(m)
  PROVE  StatsInv'
<1> DEFINE i == m.instrument
           k == Len(log) + 1
           more == Append(log, m)
           c == Counted(stats, m.ts)
           unknown == stats.unknown + IF i \in Named \/ i \in Live THEN 0 ELSE 1
<1>1. /\ log \in Seq(FeedEvents) /\ more \in Seq(FeedEvents) /\ Len(log) \in Nat /\ Len(more) = k
      /\ k \in Nat /\ log' = more /\ Live' = DOMAIN pipe' /\ m.ts \in Int /\ stats \in FeedStatsType
  BY DEF Typed, Apply, Live, FeedEvents
<1>2. stats' = [c EXCEPT !.unknown = unknown]
  BY DEF Apply, Live
<1>3. c \in FeedStatsType
  BY <1>1, CountedIs
<1>4. Live' = Live \cup {i} /\ \A j \in Live' : j \in Instruments
  BY <1>1, ApplyEntries
<1>5. \A j \in Live' : pipe'[j].stats = IF j = i THEN Counted(Entry(j).stats, m.ts)
                                        ELSE Entry(j).stats
  <2> SUFFICES ASSUME NEW j \in Live'
               PROVE  pipe'[j].stats = IF j = i THEN Counted(Entry(j).stats, m.ts)
                                       ELSE Entry(j).stats
    OBVIOUS
  <2> DEFINE g == EngineApply(EngineAdvance(Entry(j).engine, m.ts), Len(log) + 1, m)
             e == EngineAdvance(Entry(j).engine, m.ts)
             c0 == Counted(Entry(j).stats, m.ts)
  <2> HIDE DEF g, e, c0
  <2>1. pipe'[j] = IF j = i THEN RecordOf(Entry(j).resolved, c0, g)
                   ELSE RecordOf(Entry(j).resolved, Entry(j).stats, e)
    BY <1>1, ApplyEntries DEF g, e, c0
  <2>2. pipe'[j].stats = IF j = i THEN c0 ELSE Entry(j).stats
    BY <2>1 DEF RecordOf
  <2>3. QED
    BY <2>2 DEF c0
<1>6. StatsHold(more, 1..k, c)
  <2>1. StatsHold(more, 1..Len(log) \cup {k}, c)
    BY <1>1, StatsGrow DEF StatsInv
  <2>2. 1..Len(log) \cup {k} = 1..k
    BY <1>1
  <2> HIDE DEF more, c, k
  <2>3. QED
    BY <2>1, <2>2
<1> HIDE DEF more, c, k, unknown
<1>7. StatsHold(more, 1..k, stats')
  <2>1. /\ stats'.events = c.events /\ stats'.ts_regressions = c.ts_regressions
        /\ stats'.first_ts = c.first_ts /\ stats'.last_ts = c.last_ts
    BY <1>2, <1>3 DEF FeedStatsType
  <2>2. QED
    BY <1>6, <2>1 DEF StatsHold
<1>8. stats'.unknown = Cardinality(Live' \ Named)
  <2>1. stats'.unknown = unknown
    BY <1>2, <1>3 DEF FeedStatsType
  <2>2. IsFiniteSet(Live \ Named)
    <3>1. Live \ Named \in SUBSET Live
      OBVIOUS
    <3>2. QED
      BY <3>1, FS_Subset DEF StatsInv
  <2>3. CASE i \in Named \/ i \in Live
    <3>1. Live' \ Named = Live \ Named
      BY <1>4, <2>3
    <3>2. stats.unknown + 0 = stats.unknown
      BY <1>1 DEF FeedStatsType
    <3>3. QED
      BY <2>1, <2>3, <3>1, <3>2 DEF unknown, StatsInv
  <2>4. CASE ~(i \in Named \/ i \in Live)
    <3>1. Live' \ Named = (Live \ Named) \cup {i} /\ i \notin Live \ Named
      BY <1>4, <2>4
    <3>2. Cardinality((Live \ Named) \cup {i}) = Cardinality(Live \ Named) + 1
      BY <2>2, <3>1, FS_AddElement
    <3>3. QED
      BY <2>1, <2>4, <3>1, <3>2 DEF unknown, StatsInv
  <2>5. QED
    BY <2>3, <2>4
<1>9. IsFiniteSet(Live')
  BY <1>4, FS_AddElement DEF StatsInv
<1>10. \A j \in Instruments : StatsHold(log, Mine(log, j, Len(log)), Entry(j).stats)
  <2> SUFFICES ASSUME NEW j \in Instruments
               PROVE  StatsHold(log, Mine(log, j, Len(log)), Entry(j).stats)
    OBVIOUS
  <2>1. CASE j \in Live
    BY <2>1 DEF StatsInv, Entry
  <2>2. CASE j \notin Live
    <3>1. Mine(log, j, Len(log)) = {} /\ Entry(j).stats = NewStats
      BY <2>2 DEF Entry, NewEntry
    <3>2. NewStats.events = 0 /\ NewStats.ts_regressions = 0
      BY DEF NewStats
    <3>3. QED
      BY <1>1, <3>1, <3>2, NoStats
  <2>3. QED
    BY <2>1, <2>2
<1>11. ASSUME NEW j \in Live'
       PROVE  Mine(more, j, k) # {} /\ StatsHold(more, Mine(more, j, k), pipe'[j].stats)
  <2> DEFINE S == Mine(log, j, Len(log))
  <2>1. j \in Instruments /\ Entry(j).stats \in StatsType
    BY <1>4, EntryTyped DEF EntryType
  <2>2. StatsHold(log, S, Entry(j).stats)
    BY <1>10, <2>1
  <2>3. Mine(more, j, k) = IF i # j THEN S ELSE S \cup {k}
    BY <1>1, MineGrows DEF more, k
  <2> HIDE DEF S
  <2>4. CASE j = i
    <3>1. StatsHold(more, S \cup {k}, Counted(Entry(j).stats, m.ts))
      BY <1>1, <2>1, <2>2, StatsGrow DEF more, k
    <3>2. QED
      BY <1>5, <2>3, <2>4, <3>1
  <2>5. CASE j # i
    <3>1. StatsHold(more, S, Entry(j).stats)
      BY <1>1, <2>2, StatsKept DEF more
    <3>2. S # {}
      BY <1>4, <2>5 DEF S, StatsInv
    <3>3. QED
      BY <1>5, <2>3, <2>5, <3>1, <3>2
  <2>6. QED
    BY <2>4, <2>5
<1>12. QED
  BY <1>1, <1>7, <1>8, <1>9, <1>11 DEF StatsInv

\* The invariant behind StatsTrue.
THEOREM StatsInductive == Spec => []StatsInv
<1>1. Init => StatsInv
  <2> SUFFICES ASSUME Init PROVE StatsInv
    OBVIOUS
  <2>1. log = <<>> /\ stats = FeedStats /\ Live = {}
    BY DEF Init, Live
  <2>2. 1..Len(log) = {} /\ log \in Seq(FeedEvents)
    BY <2>1
  <2>3. stats.events = 0 /\ stats.ts_regressions = 0 /\ stats.unknown = 0
    BY <2>1 DEF FeedStats
  <2>4. StatsHold(log, {}, stats)
    BY <2>2, <2>3, NoStats
  <2>5. Live \ Named = {}
    BY <2>1
  <2>6. QED
    BY <2>1, <2>2, <2>3, <2>4, <2>5, FS_EmptySet DEF StatsInv
<1>2. TInv /\ StatsInv /\ [Next]_vars => StatsInv'
  <2> SUFFICES ASSUME TInv, StatsInv, [Next]_vars PROVE StatsInv'
    OBVIOUS
  <2>1. ASSUME NEW i \in Instruments, NEW jump \in Jumps, Feed(i, jump) PROVE StatsInv'
    <3>1. PICK m \in FeedEvents : Apply(m)
      BY <2>1, FeedHands DEF TInv
    <3>2. QED
      BY <3>1, ApplyStats DEF TInv, EnginesHold
  <2>2. CASE CloseTable
    <3>1. Live' = Live /\ stats' = stats /\ log' = log
      BY <2>2 DEF CloseTable, Live
    <3>2. \A j \in Live : pipe'[j].stats = pipe[j].stats
      <4>1. \A j \in Live : pipe[j] \in EntryType
        BY DEF TInv, Typed
      <4>2. \A j \in Live : pipe'[j] = [pipe[j] EXCEPT !.engine = EngineClose(@)]
        BY <2>2 DEF CloseTable, Live
      <4>3. QED
        BY <4>1, <4>2 DEF EntryType
    <3>3. QED
      BY <3>1, <3>2 DEF StatsInv
  <2>3. CASE UNCHANGED vars
    BY <2>3 DEF vars, StatsInv, Live
  <2>4. ASSUME NEW i \in Instruments, ResolveOutside(i) PROVE StatsInv'
    BY <2>4 DEF ResolveOutside, StatsInv, Live
  <2>5. QED
    BY <2>1, <2>2, <2>3, <2>4 DEF Next
<1>3. QED
  BY EnginesInductive, <1>1, <1>2, PTL DEF Spec

\* The feed report: events, steps back in time and instruments without a name are
\* counted for the feed and for each instrument as they occurred in the feed, for any feed.
THEOREM ReportCounts == Spec => []StatsTrue
<1>1. TInv /\ StatsInv => StatsTrue
  <2> SUFFICES ASSUME TInv, StatsInv PROVE StatsTrue
    OBVIOUS
  <2>1. log \in Seq(FeedEvents) /\ Len(log) \in Nat /\ DOMAIN log = 1..Len(log)
    BY DEF TInv, Typed
  <2>2. Cardinality(1..Len(log)) = Len(log)
    BY <2>1, FS_Interval
  <2>3. stats.events = Len(log) /\ stats.ts_regressions = Regressions(DOMAIN log)
    BY <2>1, <2>2, BackIs DEF StatsInv, StatsHold
  <2>4. ASSUME NEW i \in Live
        PROVE  LET mine == EventsOf(i, Len(log))
               IN  /\ pipe[i].stats.events = Cardinality(mine)
                   /\ pipe[i].stats.ts_regressions = Regressions(mine)
                   /\ pipe[i].stats.first_ts = log[Min(mine)].ts
    <3>1. EventsOf(i, Len(log)) = Mine(log, i, Len(log))
      BY FeedIs
    <3>2. QED
      BY <3>1, BackIs DEF StatsInv, StatsHold
  <2>5. QED
    BY <2>3, <2>4 DEF StatsTrue, StatsInv
<1>2. QED
  BY EnginesInductive, StatsInductive, <1>1, PTL

-----------------------------------------------------------------------------
(* The rows of the samplers that count events.                             *)

CountedOf(feed, i, spec) ==
  {j \in Mine(feed, i, Len(feed)) : spec.trigger = "events" \/ feed[j].action = "trade"}

\* How many events of S there are up to j.
Rank(S, j) == Cardinality({h \in S : h <= j})

\* Row n was taken right after the n * every-th event that counts.
RankRow(feed, S, spec, rows, n) ==
  /\ rows[n].seen \in S /\ Rank(S, rows[n].seen) = n * spec.every
  /\ rows[n].ts = feed[rows[n].seen].ts

\* Between rows: what counts is in the rows, `every' to each, and in count.
CountsHold(feed, i, spec, r) ==
  LET S == CountedOf(feed, i, spec)
  IN  /\ r \in SamplerType /\ r.count < spec.every
      /\ Cardinality(S) = Len(r.rows) * spec.every + r.count
      /\ \A n \in DOMAIN r.rows : RankRow(feed, S, spec, r.rows, n)
      /\ Mine(feed, i, Len(feed)) # {} => r.last_ts = feed[MyLast(feed, i, Len(feed))].ts

\* After Close a last row has what was left over.
CountedRows(feed, i, spec, rows, last) ==
  LET S == CountedOf(feed, i, spec)
      full == Cardinality(S) \div spec.every
  IN  /\ Len(rows) = full + IF last /\ Cardinality(S) % spec.every # 0 THEN 1 ELSE 0
      /\ \A n \in DOMAIN rows :
           IF n <= full THEN RankRow(feed, S, spec, rows, n)
           ELSE /\ rows[n].seen = MyLast(feed, i, Len(feed))
                /\ rows[n].ts = feed[MyLast(feed, i, Len(feed))].ts

LEMMA CountedFinite ==
  ASSUME NEW feed \in Seq(FeedEvents), NEW i, NEW spec
  PROVE  LET S == CountedOf(feed, i, spec)
         IN  /\ S \in SUBSET (1..Len(feed)) /\ IsFiniteSet(S) /\ Cardinality(S) \in Nat
             /\ Mine(feed, i, Len(feed)) = {} => Cardinality(S) = 0
<1> DEFINE S == CountedOf(feed, i, spec)
<1>1. Len(feed) \in 0..Len(feed) /\ Len(feed) \in Nat
  OBVIOUS
<1>2. Mine(feed, i, Len(feed)) \in SUBSET (1..Len(feed))
  BY <1>1, FeedFacts
<1>3. S \in SUBSET Mine(feed, i, Len(feed))
  BY DEF CountedOf
<1> HIDE DEF S
<1>4. S \in SUBSET (1..Len(feed))
  BY <1>2, <1>3
<1>5. IsFiniteSet(1..Len(feed))
  BY <1>1, FS_Interval
<1>6. IsFiniteSet(S)
  BY <1>4, <1>5, FS_Subset
<1>7. Cardinality(S) \in Nat /\ (Cardinality(S) = 0 <=> S = {})
  BY <1>6, FS_CardinalityType, FS_EmptySet
<1>8. QED
  BY <1>3, <1>4, <1>6, <1>7 DEF S

\* Two events of the same rank are one.
LEMMA RankIs ==
  ASSUME NEW n \in Nat, NEW S \in SUBSET (1..n), IsFiniteSet(S), NEW j \in S, NEW h \in S,
         Rank(S, j) = Rank(S, h)
  PROVE  j = h
<1> DEFINE Upto(x) == {y \in S : y <= x}
<1>1. ASSUME NEW x \in S, NEW y \in S, x < y, Rank(S, x) = Rank(S, y) PROVE FALSE
  <2>1. x \in 1..n /\ y \in 1..n
    OBVIOUS
  <2>2. \A z \in S : z \in 1..n
    OBVIOUS
  <2>3. Upto(x) \in SUBSET Upto(y)
    <3>1. \A z \in 1..n : z <= x => z <= y
      BY <1>1, <2>1
    <3>2. \A z \in S : z <= x => z <= y
      BY <2>2, <3>1
    <3>3. QED
      BY <3>2
  <2>4. y \in Upto(y) /\ y \notin Upto(x)
    BY <1>1, <2>1
  <2>5. Upto(y) \in SUBSET S
    OBVIOUS
  <2>6. Cardinality(Upto(x)) = Cardinality(Upto(y))
    BY <1>1 DEF Rank
  <2> HIDE DEF Upto
  <2>7. IsFiniteSet(Upto(y))
    BY <2>5, FS_Subset
  <2>8. Upto(x) = Upto(y)
    BY <2>3, <2>6, <2>7, FS_Subset
  <2>9. QED
    BY <2>4, <2>8
<1>2. j \in 1..n /\ h \in 1..n
  OBVIOUS
<1>3. j < h \/ h < j \/ j = h
  BY <1>2
<1>4. QED
  BY <1>1, <1>3

\* An event after all the others leaves their ranks, and has the last.
LEMMA RankGrows ==
  ASSUME NEW n \in Nat, NEW S \in SUBSET (1..n), IsFiniteSet(S)
  PROVE  /\ \A j \in S : Rank(S \cup {n + 1}, j) = Rank(S, j)
         /\ Rank(S \cup {n + 1}, n + 1) = Cardinality(S) + 1
         /\ Cardinality(S \cup {n + 1}) = Cardinality(S) + 1
<1>1. \A j \in S : j \in 1..n /\ j < n + 1 /\ ~(n + 1 <= j) /\ j <= n + 1
  <2>1. \A j \in S : j \in 1..n
    OBVIOUS
  <2>2. \A j \in 1..n : j < n + 1 /\ ~(n + 1 <= j) /\ j <= n + 1
    OBVIOUS
  <2>3. QED
    BY <2>1, <2>2
<1>2. \A j \in S : {h \in S \cup {n + 1} : h <= j} = {h \in S : h <= j}
  BY <1>1
<1>3. n + 1 <= n + 1 /\ n + 1 \notin S
  BY <1>1
<1>4. {h \in S \cup {n + 1} : h <= n + 1} = S \cup {n + 1}
  BY <1>1, <1>3
<1>5. Cardinality(S \cup {n + 1}) = Cardinality(S) + 1
  BY <1>3, FS_AddElement
<1>6. QED
  BY <1>2, <1>4, <1>5 DEF Rank

\* An event that does not count, of this instrument or of another.
LEMMA CountsKept ==
  ASSUME NEW feed \in Seq(FeedEvents), NEW m \in FeedEvents, NEW i, NEW spec \in Specs,
         spec.trigger # "time", NEW r, CountsHold(feed, i, spec, r),
         m.instrument # i \/ ~Counts(spec, m.action),
         NEW q \in SamplerType, q.rows = r.rows, q.count = r.count,
         q.last_ts = IF m.instrument = i THEN m.ts ELSE r.last_ts
  PROVE  CountsHold(Append(feed, m), i, spec, q)
<1> DEFINE more == Append(feed, m)
           n == Len(feed)
           k == n + 1
           S == CountedOf(feed, i, spec)
           N == Cardinality(S)
<1>1. /\ more \in Seq(FeedEvents) /\ n \in Nat /\ n \in 0..n /\ Len(more) = k /\ more[k] = m
      /\ \A j \in 1..n : more[j] = feed[j]
  OBVIOUS
<1>2. /\ Mine(more, i, k) = IF m.instrument # i THEN Mine(feed, i, n) ELSE Mine(feed, i, n) \cup {k}
      /\ MyLast(more, i, k) = IF m.instrument # i THEN MyLast(feed, i, n) ELSE k
  BY FeedGrows
<1>3. S \in SUBSET (1..n)
  BY CountedFinite
<1>4. Mine(feed, i, n) \in SUBSET (1..n) /\ MyLast(feed, i, n) \in 0..n
  BY <1>1, FeedFacts
<1>5. Mine(feed, i, n) # {} => MyLast(feed, i, n) \in 1..n
  <2>1. Mine(feed, i, n) # {} => MyLast(feed, i, n) \in Mine(feed, i, n)
    BY <1>1, <1>4, HighestIs DEF MyLast
  <2>2. QED
    BY <1>4, <2>1
<1>6. spec.trigger = "events" => m.instrument # i
  BY DEF Counts
<1>7. m.instrument = i => m.action # "trade"
  BY DEF Counts, Specs
<1> HIDE DEF more, n, k, S, N
<1>8. CountedOf(more, i, spec) = S
  BY <1>1, <1>2, <1>4, <1>6, <1>7 DEF CountedOf, S, n
<1>9. \A j \in DOMAIN r.rows : RankRow(more, S, spec, r.rows, j)
  <2>1. \A j \in DOMAIN r.rows : RankRow(feed, S, spec, r.rows, j)
    BY DEF CountsHold, S
  <2>2. QED
    BY <1>1, <1>3, <2>1 DEF RankRow
<1>10. Mine(more, i, k) # {} => q.last_ts = more[MyLast(more, i, k)].ts
  <2>1. CASE m.instrument = i
    BY <1>1, <1>2, <2>1
  <2>2. CASE m.instrument # i
    BY <1>1, <1>2, <1>5, <2>2 DEF CountsHold, n
  <2>3. QED
    BY <2>1, <2>2
<1>11. q.count < spec.every /\ Cardinality(S) = Len(q.rows) * spec.every + q.count
  BY DEF CountsHold, S
<1>12. QED
  BY <1>1, <1>8, <1>9, <1>10, <1>11 DEF CountsHold, more, k

\* An event that counts.
LEMMA CountsGrow ==
  ASSUME NEW feed \in Seq(FeedEvents), NEW m \in FeedEvents, NEW i, NEW spec \in Specs,
         spec.trigger # "time", NEW r, CountsHold(feed, i, spec, r),
         m.instrument = i, Counts(spec, m.action),
         NEW row \in RowType, row.seen = Len(feed) + 1, row.ts = m.ts,
         NEW q \in SamplerType, q.last_ts = m.ts,
         IF r.count + 1 >= spec.every THEN q.rows = Append(r.rows, row) /\ q.count = 0
         ELSE q.rows = r.rows /\ q.count = r.count + 1
  PROVE  CountsHold(Append(feed, m), i, spec, q)
<1> DEFINE more == Append(feed, m)
           n == Len(feed)
           k == n + 1
           S == CountedOf(feed, i, spec)
           U == S \cup {k}
<1>1. /\ more \in Seq(FeedEvents) /\ n \in Nat /\ n \in 0..n /\ Len(more) = k /\ more[k] = m
      /\ \A j \in 1..n : more[j] = feed[j]
  OBVIOUS
<1>2. Mine(more, i, k) = Mine(feed, i, n) \cup {k} /\ MyLast(more, i, k) = k
  BY FeedGrows
<1>3. S \in SUBSET (1..n) /\ IsFiniteSet(S) /\ Cardinality(S) \in Nat
  BY CountedFinite
<1>4. Mine(feed, i, n) \in SUBSET (1..n)
  BY <1>1, FeedFacts
<1>5. spec.trigger = "events" \/ m.action = "trade"
  BY DEF Counts
<1>6. /\ \A j \in S : Rank(U, j) = Rank(S, j)
      /\ Rank(U, k) = Cardinality(S) + 1 /\ Cardinality(U) = Cardinality(S) + 1
  BY <1>1, <1>3, RankGrows
<1>7. /\ r \in SamplerType /\ r.count \in Nat /\ r.count < spec.every /\ spec.every \in Nat \ {0}
      /\ Cardinality(S) = Len(r.rows) * spec.every + r.count
      /\ \A j \in DOMAIN r.rows : RankRow(feed, S, spec, r.rows, j)
      /\ r.rows \in Seq(RowType) /\ Len(r.rows) \in Nat /\ DOMAIN r.rows = 1..Len(r.rows)
  <2>1. r \in SamplerType
    BY DEF CountsHold
  <2>2. r.count \in Nat /\ r.rows \in Seq(RowType)
    BY <2>1 DEF SamplerType
  <2>3. QED
    BY <2>1, <2>2 DEF CountsHold, Specs
<1> HIDE DEF more, n, k, S
<1>8. CountedOf(more, i, spec) = U
  BY <1>1, <1>2, <1>4, <1>5 DEF CountedOf, S, n
<1>9. \A j \in DOMAIN r.rows : RankRow(more, U, spec, r.rows, j)
  BY <1>1, <1>3, <1>6, <1>7 DEF RankRow
<1> HIDE DEF U
<1>10. k \in U
  BY DEF U
<1>11. Mine(more, i, k) # {} => q.last_ts = more[MyLast(more, i, k)].ts
  BY <1>1, <1>2
<1>12. CASE ~(r.count + 1 >= spec.every)
  <2>1. q.rows = r.rows /\ q.count = r.count + 1
    BY <1>12
  <2>2. q.count < spec.every
    BY <1>7, <1>12, <2>1
  <2>3. Cardinality(U) = Len(q.rows) * spec.every + q.count
    <3>1. PICK p \in Int : p = Len(r.rows) * spec.every
      BY <1>7
    <3>2. QED
      BY <1>6, <1>7, <2>1, <3>1
  <2>4. QED
    BY <1>1, <1>8, <1>9, <1>11, <2>1, <2>2, <2>3 DEF CountsHold, more, k
<1>13. CASE r.count + 1 >= spec.every
  <2> DEFINE L == Len(r.rows)
             rows == Append(r.rows, row)
  <2>1. q.rows = rows /\ q.count = 0
    BY <1>13
  <2>2. /\ L \in Nat /\ Len(rows) = L + 1 /\ DOMAIN rows = 1..L + 1 /\ rows[L + 1] = row
        /\ \A j \in 1..L : rows[j] = r.rows[j]
    BY <1>7
  <2>3. r.count + 1 = spec.every
    BY <1>7, <1>13
  <2> HIDE DEF L, rows
  <2>4. Cardinality(U) = (L + 1) * spec.every
    <3>1. PICK p \in Int : p = L * spec.every /\ (L + 1) * spec.every = p + spec.every
      <4>1. PICK e \in Nat, l \in Nat : e = spec.every /\ l = L
        BY <1>7, <2>2
      <4>2. l * e \in Int /\ (l + 1) * e = l * e + e
        OBVIOUS
      <4>3. QED
        BY <4>1, <4>2
    <3>2. Cardinality(S) = p + r.count
      BY <1>7, <3>1 DEF L
    <3>3. QED
      BY <1>6, <1>7, <2>3, <3>1, <3>2
  <2>5. Cardinality(U) = Len(q.rows) * spec.every + q.count
    <3>1. PICK p \in Int : p = (L + 1) * spec.every
      <4>1. L + 1 \in Int /\ spec.every \in Int
        BY <1>7, <2>2
      <4>2. (L + 1) * spec.every \in Int
        BY <4>1
      <4>3. QED
        BY <4>2
    <3>2. QED
      BY <2>1, <2>2, <2>4, <3>1
  <2>6. ASSUME NEW j \in DOMAIN rows PROVE RankRow(more, U, spec, rows, j)
    <3>1. CASE j = L + 1
      <4>1. rows[j].seen = k /\ rows[j].ts = m.ts
        BY <2>2, <3>1 DEF k, n
      <4>2. Rank(U, k) = j * spec.every
        BY <1>6, <2>4, <3>1
      <4>3. QED
        BY <1>1, <1>10, <4>1, <4>2 DEF RankRow
    <3>2. CASE j # L + 1
      <4>1. j \in 1..L /\ j \in DOMAIN r.rows /\ rows[j] = r.rows[j]
        BY <1>7, <2>2, <3>2 DEF L
      <4>2. QED
        BY <1>9, <4>1 DEF RankRow
    <3>3. QED
      BY <3>1, <3>2
  <2>7. q.count < spec.every
    BY <1>7, <2>1
  <2>8. QED
    BY <1>1, <1>8, <1>11, <2>1, <2>5, <2>6, <2>7 DEF CountsHold, more, k
<1>14. QED
  BY <1>12, <1>13

\* OnEvent of a sampler that counts.
LEMMA OnEventCounts ==
  ASSUME NEW feed \in Seq(FeedEvents), NEW m \in FeedEvents, NEW i, m.instrument = i,
         NEW spec \in Specs, spec.trigger # "time", NEW r, CountsHold(feed, i, spec, r),
         NEW v \in Snapshots, v.seen = Len(feed) + 1
  PROVE  CountsHold(Append(feed, m), i, spec,
                    OnEvent(spec, Rebased(r, m.action), m.ts, m.action, v))
<1> DEFINE r0 == Rebased(r, m.action)
           q == OnEvent(spec, r0, m.ts, m.action, v)
           fires == Fires(spec, r0, m.action)
           counts == Counts(spec, m.action)
           c == CASE fires -> 0 [] counts /\ ~fires -> r0.count + 1 [] OTHER -> r0.count
           d == (r0.dirty \/ spec.trigger = "time")
           noted == [r0 EXCEPT !.last_ts = m.ts, !.dirty = d, !.count = c]
<1>1. m.ts \in Int
  BY DEF FeedEvents
<1>2. r \in SamplerType
  BY DEF CountsHold
<1>3. r0 \in SamplerType /\ r0.rows = r.rows /\ r0.count = r.count
  BY <1>2 DEF Rebased, ResetBaseline, SamplerType
<1>4. q = IF fires THEN Emit(noted, m.ts, v) ELSE noted
  BY DEF OnEvent
<1>5. fires <=> counts /\ r.count + 1 >= spec.every
  BY <1>3 DEF Fires
<1> HIDE DEF q, r0, fires, counts
<1>6. c \in Nat /\ d \in BOOLEAN
  BY <1>3 DEF SamplerType
<1>7. c = IF fires THEN 0 ELSE IF counts THEN r.count + 1 ELSE r.count
  BY <1>3
<1> HIDE DEF c, d
<1>8. /\ noted \in SamplerType /\ noted.rows = r.rows /\ noted.last_ts = m.ts /\ noted.count = c
  BY <1>1, <1>3, <1>6 DEF SamplerType
<1> HIDE DEF noted
<1> DEFINE row == RowOf(noted, m.ts, v)
           em == Emit(noted, m.ts, v)
<1>9. /\ em \in SamplerType /\ row \in RowType /\ em.count = noted.count
      /\ em.last_ts = noted.last_ts /\ em.rows = Append(noted.rows, row)
  BY <1>1, <1>8, EmitIs
<1>10. row.seen = Len(feed) + 1 /\ row.ts = m.ts
  BY DEF RowOf
<1> HIDE DEF row, em
<1>11. q \in SamplerType /\ q.last_ts = m.ts
  BY <1>4, <1>8, <1>9 DEF em
<1>12. CASE ~counts
  <2>1. q.rows = r.rows /\ q.count = r.count
    BY <1>4, <1>5, <1>7, <1>8, <1>12
  <2>2. CountsHold(Append(feed, m), i, spec, q)
    BY <1>11, <1>12, <2>1, CountsKept DEF counts
  <2>3. QED
    BY <2>2 DEF q, r0
<1>13. CASE counts
  <2>1. IF r.count + 1 >= spec.every THEN q.rows = Append(r.rows, row) /\ q.count = 0
        ELSE q.rows = r.rows /\ q.count = r.count + 1
    BY <1>4, <1>5, <1>7, <1>8, <1>9, <1>13 DEF em
  <2>2. CountsHold(Append(feed, m), i, spec, q)
    BY <1>9, <1>10, <1>11, <1>13, <2>1, CountsGrow DEF counts
  <2>3. QED
    BY <2>2 DEF q, r0
<1>14. QED
  BY <1>12, <1>13

\* The rows while the table is open, and after Close.
LEMMA OpenRows ==
  ASSUME NEW feed \in Seq(FeedEvents), NEW i, NEW spec \in Specs, NEW r,
         CountsHold(feed, i, spec, r)
  PROVE  LET S == CountedOf(feed, i, spec)
         IN  /\ CountedRows(feed, i, spec, r.rows, FALSE)
             /\ r \in SamplerType /\ Cardinality(S) \div spec.every = Len(r.rows)
             /\ Cardinality(S) % spec.every = r.count
<1> DEFINE S == CountedOf(feed, i, spec)
           N == Cardinality(S)
           L == Len(r.rows)
           e == spec.every
<1>1. /\ r \in SamplerType /\ r.count \in Nat /\ r.count < e /\ e \in Nat \ {0}
      /\ N = L * e + r.count /\ L \in Nat /\ DOMAIN r.rows = 1..L
      /\ \A n \in DOMAIN r.rows : RankRow(feed, S, spec, r.rows, n)
  <2>1. r \in SamplerType
    BY DEF CountsHold
  <2>2. r.count \in Nat /\ r.rows \in Seq(RowType)
    BY <2>1 DEF SamplerType
  <2>3. QED
    BY <2>1, <2>2 DEF CountsHold, Specs
<1> HIDE DEF S, N, L, e
<1>2. PICK p \in Int : p = L * e
  BY <1>1
<1>3. N \in Int /\ p <= N /\ N < p + e /\ N - p = r.count
  BY <1>1, <1>2
<1>4. N \div e = L
  <2>1. L \in Int /\ L * e <= N /\ N < L * e + e
    BY <1>1, <1>2, <1>3
  <2>2. QED
    BY <1>1, <1>3, <2>1, DivisionIs
<1>5. N % e = r.count
  <2>1. N = (N \div e) * e + (N % e) /\ N % e \in 0..e - 1
    BY <1>1, <1>3, Division, Zenon
  <2>2. PICK z \in Int : z = N % e
    BY <1>1, <2>1
  <2>3. (N \div e) * e = p
    BY <1>2, <1>4
  <2>4. N = p + z
    BY <2>1, <2>2, <2>3
  <2>5. QED
    BY <1>1, <1>2, <1>3, <2>2, <2>4
<1>6. \A n \in DOMAIN r.rows : n <= L
  BY <1>1
<1>7. L = L + 0
  BY <1>1
<1>8. CountedRows(feed, i, spec, r.rows, FALSE)
  BY <1>1, <1>4, <1>6, <1>7 DEF CountedRows, S, N, L, e
<1>9. QED
  BY <1>1, <1>4, <1>5, <1>8 DEF S, N, L, e

LEMMA CloseCounts ==
  ASSUME NEW feed \in Seq(FeedEvents), NEW i, Mine(feed, i, Len(feed)) # {}, NEW spec \in Specs,
         spec.trigger # "time", NEW r, CountsHold(feed, i, spec, r)
  PROVE  CountedRows(feed, i, spec, Close(spec, r, Now(feed, i)).rows, TRUE)
<1> DEFINE S == CountedOf(feed, i, spec)
           N == Cardinality(S)
           L == Len(r.rows)
           v == Now(feed, i)
           q == Close(spec, r, v)
<1>1. /\ CountedRows(feed, i, spec, r.rows, FALSE) /\ r \in SamplerType
      /\ N \div spec.every = L /\ N % spec.every = r.count
  BY OpenRows
<1>2. r.rows \in Seq(RowType) /\ r.last_ts \in Int
  BY <1>1 DEF SamplerType
<1>3. L \in Nat /\ DOMAIN r.rows = 1..L
  BY <1>2
<1>4. \A n \in 1..L : RankRow(feed, S, spec, r.rows, n)
  BY DEF CountsHold
<1>5. v \in Snapshots /\ v.seen = MyLast(feed, i, Len(feed))
  BY NowIs
<1> HIDE DEF v, q
<1>6. CASE r.count = 0
  <2>1. q = r
    BY <1>6 DEF Close, Open, q
  <2>2. CountedRows(feed, i, spec, r.rows, TRUE)
    BY <1>1, <1>6 DEF CountedRows
  <2>3. QED
    BY <2>1, <2>2 DEF q, v
<1>7. CASE r.count # 0
  <2> DEFINE r0 == [r EXCEPT !.count = 0]
             row == RowOf(r0, r.last_ts, v)
             rows == Append(r.rows, row)
  <2>1. q = Emit(r0, r.last_ts, v)
    BY <1>7 DEF Close, Open, q
  <2>2. r0 \in SamplerType /\ r0.rows = r.rows
    BY <1>1 DEF SamplerType
  <2> HIDE DEF r0
  <2>3. q.rows = rows /\ row \in RowType
    <3>1. /\ Emit(r0, r.last_ts, v).rows = Append(r0.rows, RowOf(r0, r.last_ts, v))
          /\ RowOf(r0, r.last_ts, v) \in RowType
      BY <1>2, <1>5, <2>2, EmitIs
    <3>2. QED
      BY <2>1, <2>2, <3>1
  <2>4. row.seen = MyLast(feed, i, Len(feed)) /\ row.ts = feed[MyLast(feed, i, Len(feed))].ts
    BY <1>5 DEF RowOf, CountsHold
  <2> HIDE DEF row
  <2>5. /\ Len(rows) = L + 1 /\ DOMAIN rows = 1..L + 1 /\ rows[L + 1] = row
        /\ \A n \in 1..L : rows[n] = r.rows[n]
    BY <1>2, <2>3
  <2> HIDE DEF rows, L, S, N
  <2>6. ASSUME NEW n \in DOMAIN rows
        PROVE  IF n <= L THEN RankRow(feed, S, spec, rows, n)
               ELSE /\ rows[n].seen = MyLast(feed, i, Len(feed))
                    /\ rows[n].ts = feed[MyLast(feed, i, Len(feed))].ts
    <3>1. CASE n = L + 1
      <4>1. ~(n <= L)
        BY <1>3, <3>1
      <4>2. QED
        BY <2>4, <2>5, <3>1, <4>1
    <3>2. CASE n # L + 1
      <4>1. n \in 1..L /\ n <= L
        BY <1>3, <2>5, <3>2
      <4>2. RankRow(feed, S, spec, rows, n)
        BY <1>4, <2>5, <4>1 DEF RankRow
      <4>3. QED
        BY <4>1, <4>2
    <3>3. QED
      BY <3>1, <3>2
  <2>7. CountedRows(feed, i, spec, rows, TRUE)
    BY <1>1, <1>7, <2>5, <2>6 DEF CountedRows, N, S
  <2>8. QED
    BY <2>3, <2>7 DEF q, v
<1>8. QED
  BY <1>6, <1>7

\* The invariant: the rows of every sampler that counts.
CountsTrue(i, s) ==
  IF closed THEN CountedRows(log, i, Samplers[s], SamplerOf(i, s).rows, TRUE)
  ELSE CountsHold(log, i, Samplers[s], SamplerOf(i, s))

CountsInv == \A i \in Live, s \in Names \ TimeSamplers : CountsTrue(i, s)

LEMMA NoCounts ==
  ASSUME NEW feed \in Seq(FeedEvents), NEW i, Mine(feed, i, Len(feed)) = {}, NEW spec \in Specs
  PROVE  CountsHold(feed, i, spec, NewSampler)
<1>1. Cardinality(CountedOf(feed, i, spec)) = 0
  BY CountedFinite
<1>2. /\ NewSampler \in SamplerType /\ NewSampler.rows = <<>> /\ NewSampler.count = 0
  BY DEF NewSampler, SamplerType
<1>3. 0 < spec.every /\ 0 = 0 * spec.every + 0
  <2>1. spec.every \in Nat \ {0}
    BY DEF Specs
  <2>2. QED
    BY <2>1
<1>4. QED
  BY <1>1, <1>2, <1>3 DEF CountsHold

LEMMA ApplyCounts ==
  ASSUME TInv, CountsInv, NEW m \in FeedEvents, Apply(m)
  PROVE  CountsInv'
<1> DEFINE more == Append(log, m)
<1>1. /\ log \in Seq(FeedEvents) /\ log' = more /\ ~closed /\ ~closed' /\ Live' = DOMAIN pipe'
      /\ more \in Seq(FeedEvents) /\ Len(log) \in Nat /\ Len(more) = Len(log) + 1
  BY DEF TInv, Typed, Apply, Live
<1>2. ASSUME NEW j \in Live', NEW s \in Names \ TimeSamplers, NEW q,
             q = pipe'[j].engine.samplers[s]
      PROVE  CountsHold(more, j, Samplers[s], q)
  <2> DEFINE spec == Samplers[s]
             r == SamplerOf(j, s)
             adv == Advance(spec, r, m.ts, Now(log, j))
             v == Now(more, j)
  <2>1. s \in Names /\ spec \in Specs /\ spec.trigger # "time"
    BY SpecsAre DEF TimeSamplers
  <2>2. /\ j \in Instruments /\ r \in SamplerType
        /\ q = IF j = m.instrument THEN OnEvent(spec, Rebased(adv, m.action), m.ts, m.action, v)
               ELSE adv
    BY <1>2, <2>1, ApplySamplers
  <2>3. adv = r
    BY <2>1 DEF Advance, Due
  <2>4. CountsHold(log, j, spec, r)
    <3>1. CASE j \in Live
      BY <1>1, <3>1 DEF CountsInv, CountsTrue
    <3>2. CASE j \notin Live
      <4>1. Mine(log, j, Len(log)) = {}
        BY <2>2, <3>2 DEF TInv, EnginesHold
      <4>2. r = NewSampler
        BY <2>1, <3>2 DEF SamplerOf, Entry, NewEntry, NewEngine
      <4> HIDE DEF spec, r
      <4>3. QED
        BY <1>1, <2>1, <4>1, <4>2, NoCounts
    <3>3. QED
      BY <3>1, <3>2
  <2> HIDE DEF spec, r, adv
  <2>5. CASE j = m.instrument
    <3>1. v \in Snapshots /\ v.seen = MyLast(more, j, Len(more))
      BY <1>1, NowIs
    <3>2. MyLast(more, j, Len(log) + 1) = Len(log) + 1
      BY <1>1, <2>5, FeedGrows
    <3>3. v.seen = Len(log) + 1
      BY <1>1, <3>1, <3>2
    <3> HIDE DEF v
    <3>4. CountsHold(more, j, spec, OnEvent(spec, Rebased(r, m.action), m.ts, m.action, v))
      BY <1>1, <2>1, <2>4, <2>5, <3>1, <3>3, OnEventCounts
    <3>5. QED
      BY <2>2, <2>3, <2>5, <3>4 DEF spec
  <2>6. CASE j # m.instrument
    <3>1. CountsHold(more, j, spec, r)
      BY <1>1, <2>1, <2>2, <2>4, <2>6, CountsKept
    <3>2. QED
      BY <2>2, <2>3, <2>6, <3>1 DEF spec
  <2>7. QED
    BY <2>5, <2>6
<1>3. ASSUME NEW j \in Live', NEW s \in Names \ TimeSamplers PROVE CountsTrue(j, s)'
  <2>1. SamplerOf(j, s)' = pipe'[j].engine.samplers[s]
    BY DEF SamplerOf, Entry
  <2>2. CountsHold(more, j, Samplers[s], pipe'[j].engine.samplers[s])
    BY <1>2
  <2>3. QED
    BY <1>1, <2>1, <2>2 DEF CountsTrue
<1>4. QED
  BY <1>3 DEF CountsInv, TimeSamplers

LEMMA CloseTableCounts ==
  ASSUME TInv, StatsInv, CountsInv, CloseTable
  PROVE  CountsInv'
<1>1. /\ log \in Seq(FeedEvents) /\ log' = log /\ ~closed /\ closed' /\ Live' = Live
  <2>1. Live' = Live
    BY DEF CloseTable, Live
  <2>2. QED
    BY <2>1 DEF TInv, Typed, CloseTable
<1>2. ASSUME NEW j \in Live, NEW s \in Names \ TimeSamplers PROVE CountsTrue(j, s)'
  <2> DEFINE q == pipe'[j].engine.samplers[s]
             r == SamplerOf(j, s)
  <2>1. s \in Names /\ Samplers[s] \in Specs /\ Samplers[s].trigger # "time"
    BY SpecsAre DEF TimeSamplers
  <2>2. q = Close(Samplers[s], r, Now(log, j))
    BY <2>1, CloseSamplers
  <2>3. CountsHold(log, j, Samplers[s], r)
    BY <1>1 DEF CountsInv, CountsTrue
  <2>4. Mine(log, j, Len(log)) # {}
    BY DEF StatsInv
  <2>5. SamplerOf(j, s)' = q
    BY <1>1 DEF SamplerOf, Entry
  <2> HIDE DEF q, r
  <2>6. CountedRows(log, j, Samplers[s], q.rows, TRUE)
    BY <1>1, <2>1, <2>2, <2>3, <2>4, CloseCounts
  <2>7. QED
    BY <1>1, <2>5, <2>6 DEF CountsTrue
<1>3. QED
  BY <1>1, <1>2 DEF CountsInv, TimeSamplers

\* The invariant behind CountRows.
THEOREM CountsInductive == Spec => []CountsInv
<1>1. Init => CountsInv
  BY DEF Init, CountsInv, Live
<1>2. TInv /\ StatsInv /\ CountsInv /\ [Next]_vars => CountsInv'
  <2> SUFFICES ASSUME TInv, StatsInv, CountsInv, [Next]_vars PROVE CountsInv'
    OBVIOUS
  <2>1. ASSUME NEW i \in Instruments, NEW jump \in Jumps, Feed(i, jump) PROVE CountsInv'
    <3>1. PICK m \in FeedEvents : Apply(m)
      BY <2>1, FeedHands DEF TInv
    <3>2. QED
      BY <3>1, ApplyCounts
  <2>2. CASE CloseTable
    BY <2>2, CloseTableCounts
  <2>3. CASE UNCHANGED vars
    BY <2>3 DEF vars, CountsInv, CountsTrue, TimeSamplers, SamplerOf, Entry, Live
  <2>4. ASSUME NEW i \in Instruments, ResolveOutside(i) PROVE CountsInv'
    BY <2>4 DEF ResolveOutside, CountsInv, CountsTrue, TimeSamplers, SamplerOf, Entry, Live
  <2>5. QED
    BY <2>1, <2>2, <2>3, <2>4 DEF Next
<1>3. QED
  BY EnginesInductive, StatsInductive, <1>1, <1>2, PTL DEF Spec

\* An events or trades sampler has a row for every N-th event that counts, taken right
\* after it, and at the end one for the events left over, for any N and any feed.
THEOREM EveryNth == Spec => []CountRows
<1>1. ASSUME TInv, StatsInv, CountsInv, NEW i \in Live, NEW s \in Names \ TimeSamplers
      PROVE  LET rows == Rows(i, s)
                 counted == CountedBy(i, s)
                 every == Samplers[s].every
                 Nth(m) == CHOOSE j \in counted : Cardinality({h \in counted : h <= j}) = m
                 full == Cardinality(counted) \div every
             IN  /\ Len(rows) = full + IF closed /\ Cardinality(counted) % every # 0 THEN 1 ELSE 0
                 /\ \A n \in DOMAIN rows :
                      LET at == IF n <= full THEN Nth(n * every) ELSE Max(EventsOf(i, Len(log)))
                      IN  rows[n].seen = at /\ rows[n].ts = log[at].ts
  <2> DEFINE rows == Rows(i, s)
             counted == CountedBy(i, s)
             spec == Samplers[s]
             Nth(m) == CHOOSE j \in counted : Cardinality({h \in counted : h <= j}) = m
             full == Cardinality(counted) \div spec.every
  <2>1. SamplerOf(i, s).rows = rows
    BY DEF SamplerOf, Entry, Rows
  <2>2. log \in Seq(FeedEvents) /\ Len(log) \in Nat /\ spec \in Specs /\ closed \in BOOLEAN
    BY <1>1, SpecsAre DEF TInv, Typed
  <2>3. EventsOf(i, Len(log)) = Mine(log, i, Len(log)) /\ counted = CountedOf(log, i, spec)
    BY FeedIs DEF CountedBy, CountedOf
  <2>4. counted \in SUBSET (1..Len(log)) /\ IsFiniteSet(counted)
    BY <2>2, <2>3, CountedFinite
  <2>5. Max(EventsOf(i, Len(log))) = MyLast(log, i, Len(log))
    BY <1>1, <2>3 DEF StatsInv, MyLast, Highest
  <2>6. CountedRows(log, i, spec, rows, closed)
    <3>1. CASE closed
      <4>1. closed = TRUE
        BY <2>2, <3>1
      <4>2. CountedRows(log, i, spec, rows, TRUE)
        BY <1>1, <2>1, <3>1 DEF CountsInv, CountsTrue
      <4> HIDE DEF rows, spec
      <4>3. QED
        BY <4>1, <4>2
    <3>2. CASE ~closed
      <4>1. closed = FALSE
        BY <2>2, <3>2
      <4>2. CountsHold(log, i, spec, SamplerOf(i, s))
        BY <1>1, <3>2 DEF CountsInv, CountsTrue
      <4> HIDE DEF rows, spec
      <4>3. CountedRows(log, i, spec, SamplerOf(i, s).rows, FALSE)
        BY <2>2, <4>2, OpenRows
      <4>4. QED
        BY <2>1, <4>1, <4>3
    <3>3. QED
      BY <3>1, <3>2
  <2> HIDE DEF rows, counted, spec
  <2>7. \A j \in counted : Nth(Rank(counted, j)) = j
    <3> SUFFICES ASSUME NEW j \in counted PROVE Nth(Rank(counted, j)) = j
      OBVIOUS
    <3>1. Nth(Rank(counted, j)) \in counted /\ Rank(counted, Nth(Rank(counted, j))) = Rank(counted, j)
      BY DEF Rank
    <3> HIDE DEF Nth
    <3>2. QED
      BY <2>2, <2>4, <3>1, RankIs
  <2>8. Len(rows) = full + IF closed /\ Cardinality(counted) % spec.every # 0 THEN 1 ELSE 0
    BY <2>3, <2>6 DEF CountedRows
  <2>9. ASSUME NEW n \in DOMAIN rows
        PROVE  LET at == IF n <= full THEN Nth(n * spec.every) ELSE Max(EventsOf(i, Len(log)))
               IN  rows[n].seen = at /\ rows[n].ts = log[at].ts
    <3>1. CASE n <= full
      <4>1. RankRow(log, counted, spec, rows, n)
        BY <2>3, <2>6, <3>1 DEF CountedRows
      <4>2. Nth(n * spec.every) = rows[n].seen
        BY <2>7, <4>1 DEF RankRow
      <4> HIDE DEF Nth, full
      <4>3. QED
        BY <3>1, <4>1, <4>2 DEF RankRow
    <3>2. CASE ~(n <= full)
      <4>1. /\ rows[n].seen = MyLast(log, i, Len(log))
            /\ rows[n].ts = log[MyLast(log, i, Len(log))].ts
        BY <2>3, <2>6, <3>2 DEF CountedRows
      <4> HIDE DEF Nth, full
      <4>2. QED
        BY <2>5, <3>2, <4>1
    <3>3. QED
      BY <3>1, <3>2
  <2>10. QED
    BY <2>8, <2>9 DEF rows, counted, spec
<1>2. TInv /\ StatsInv /\ CountsInv => CountRows
  BY <1>1 DEF CountRows
<1>3. QED
  BY EnginesInductive, StatsInductive, CountsInductive, <1>2, PTL

=============================================================================
