----------------------------- MODULE RecallProofs -----------------------------
(***************************************************************************)
(* Recall keeps what its runs check for any set of captures and recalls,   *)
(* any scores and any limits.                                              *)
(***************************************************************************)
EXTENDS Recall, FiniteSetTheorems, SequenceTheorems, TLAPS

\* The list: each committed capture at most once, and nothing in a dead process.
ListInv ==
  /\ IsFiniteSet(rows)
  /\ Elements(records) \subseteq rows
  /\ \A i, j \in 1..Len(records) : i # j => records[i] # records[j]
  /\ ~up => records = << >>

Running(t) == pc[t] \in {"embed", "stack", "compare", "arange", "hydrate"}

\* The records whose vectors were stacked.
First(t) == {records[i] : i \in 1..size[t]}

\* A recall runs in a live process and knows records that are still in the list;
\* once it has stacked the vectors they are among the first of them.
KnownInv(t) ==
  /\ Running(t) => up
  /\ pc[t] \in {"embed", "stack", "compare", "arange"} =>
       known[t] # {} /\ known[t] \subseteq Elements(records)
  /\ pc[t] \in {"compare", "arange", "hydrate"} =>
       size[t] <= Len(records) /\ known[t] \subseteq First(t)
  /\ pc[t] = "arange" =>
       size[t] <= limit[t] /\ \A i \in 1..size[t] : ScoreAt(t, i) # NegInf

\* r is a result cosine_topk may return when it has stacked S.
Best(t, S, r) ==
  /\ Len(r) <= limit[t]
  /\ \A i, j \in 1..Len(r) : i < j => r[i] # r[j] /\ score[t][r[i]] >= score[t][r[j]]
  /\ \A c \in Elements(r) : score[t][c] # NegInf
  /\ \A c \in S \ Elements(r) : score[t][c] # NegInf =>
       /\ Len(r) = limit[t]
       /\ \A h \in Elements(r) : score[t][h] >= score[t][c]

\* The same of what the recall knew when it arrived.
WellRanked(t, r) ==
  /\ Len(r) <= limit[t]
  /\ \A i, j \in 1..Len(r) : i < j => r[i] # r[j] /\ score[t][r[i]] >= score[t][r[j]]
  /\ \A c \in Elements(r) : score[t][c] # NegInf
  /\ \A c \in known[t] \ Elements(r) : score[t][c] # NegInf =>
       /\ Len(r) = limit[t]
       /\ \A h \in Elements(r) : score[t][h] >= score[t][c]

\* The result is empty until it is ranked; then it is the best of what was stacked,
\* and nothing is lost in the answer.
RankInv(t) ==
  /\ pc[t] \in {"idle", "embed", "stack", "compare", "arange"} => ranked[t] = << >>
  /\ pc[t] = "hydrate" => Best(t, First(t), ranked[t]) /\ Elements(ranked[t]) \subseteq First(t)
  /\ Answered(t) => WellRanked(t, ranked[t]) /\ hits[t] = ranked[t]

\* A recall is answered when it is done.
CodeInv(t) == code[t] # "none" => pc[t] = "done"

HandlerInv(t) == KnownInv(t) /\ RankInv(t) /\ CodeInv(t)

IndInv == TypeOK /\ ListInv /\ \A t \in Recalls : HandlerInv(t)

-----------------------------------------------------------------------------
(***************************************************************************)
(* The operators the ranking is made of.                                   *)
(***************************************************************************)

\* 1..n has n elements.
LEMMA IntervalSize ==
  ASSUME NEW n \in Nat
  PROVE  IsFiniteSet(1..n) /\ Cardinality(1..n) = n
<1>1. IsFiniteSet(1..n)
  BY FS_Interval
<1>2. Cardinality(1..n) = n
  BY FS_Interval
<1> QED
  BY <1>1, <1>2

\* The elements of a sequence without repetition are as many as it is long.
LEMMA NoRepetition ==
  ASSUME NEW S, IsFiniteSet(S), NEW s \in Seq(S),
         \A i, j \in 1..Len(s) : i # j => s[i] # s[j]
  PROVE  /\ Len(s) <= Cardinality(S)
         /\ Cardinality(S) = Len(s) => \A x \in S : \E i \in 1..Len(s) : s[i] = x
<1>1. s \in Injection(1..Len(s), S)
  BY DEF Injection, IsInjective
<1>2. Cardinality(1..Len(s)) = Len(s)
  BY FS_Interval
<1>3. /\ Cardinality(1..Len(s)) <= Cardinality(S)
      /\ Cardinality(1..Len(s)) = Cardinality(S) <=> s \in Surjection(1..Len(s), S)
  BY <1>1, FS_Injection
<1> QED
  BY <1>2, <1>3 DEF Surjection

\* SetToSeqs(S) are sequences of all elements of S, each once.
LEMMA Enumerations ==
  ASSUME NEW S, IsFiniteSet(S), NEW s \in SetToSeqs(S)
  PROVE  /\ s \in Seq(S)
         /\ \A i, j \in 1..Len(s) : i # j => s[i] # s[j]
         /\ \A x \in S : \E i \in 1..Len(s) : s[i] = x
<1>1. Cardinality(S) \in Nat
  BY FS_CardinalityType
<1>2. /\ s \in [1..Cardinality(S) -> S]
      /\ \A i, j \in 1..Cardinality(S) : i # j => s[i] # s[j]
  BY DEF SetToSeqs
<1>3. s \in Seq(S) /\ Len(s) = Cardinality(S)
  BY <1>1, <1>2
<1> QED
  BY <1>2, <1>3, NoRepetition

\* In ascending order the k-th of the positions 1..n is k.
LEMMA NthOfAll ==
  ASSUME NEW n \in Nat, NEW k \in 1..n
  PROVE  Nth(1..n, k) = k
<1>1. ASSUME NEW i \in 1..n PROVE Cardinality({j \in 1..n : j <= i}) = i
  <2>1. {j \in 1..n : j <= i} = 1..i
    OBVIOUS
  <2>2. Cardinality(1..i) = i
    BY FS_Interval
  <2> QED
    BY <2>1, <2>2
<1> QED
  BY <1>1 DEF Nth

\* A sorted choice of positions: every one of them once.
LEMMA SortedPositions ==
  ASSUME NEW n \in Nat, NEW I \in SUBSET (1..n), NEW s \in [1..Cardinality(I) -> I],
         \A i, j \in 1..Cardinality(I) : i < j => s[i] # s[j]
  PROVE  /\ Cardinality(I) \in Nat
         /\ s \in Seq(1..n) /\ Len(s) = Cardinality(I)
         /\ \A i \in 1..Len(s) : s[i] \in I
         /\ \A p \in I : \E i \in 1..Len(s) : s[i] = p
<1>1. IsFiniteSet(I)
  <2>1. IsFiniteSet(1..n)
    BY FS_Interval
  <2> QED
    BY <2>1, FS_Subset
<1>2. Cardinality(I) \in Nat
  BY <1>1, FS_CardinalityType
<1>3. s \in Seq(I) /\ Len(s) = Cardinality(I) /\ s \in Seq(1..n)
  <2>1. s \in Seq(I) /\ Len(s) = Cardinality(I)
    BY <1>2
  <2> QED
    BY <2>1, SeqMonotonic
<1>4. \A i, j \in 1..Len(s) : i # j => s[i] # s[j]
  BY <1>2, <1>3
<1>5. \A p \in I : \E i \in 1..Len(s) : s[i] = p
  BY <1>1, <1>3, <1>4, NoRepetition
<1> QED
  BY <1>2, <1>3, <1>5

-----------------------------------------------------------------------------
(***************************************************************************)
(* The two ways to rank.                                                   *)
(***************************************************************************)

\* What holds of a recall that has stacked its vectors.
LEMMA StackFacts ==
  ASSUME IndInv, NEW t \in Recalls, pc[t] \in {"compare", "arange"}
  PROVE  /\ size[t] \in Nat /\ limit[t] \in Nat
         /\ \A i \in 1..size[t] : i \in 1..Len(records) /\ records[i] \in Captures
         /\ [i \in 1..size[t] |-> ScoreAt(t, i)] \in [1..size[t] -> Nat]
         /\ \A c \in known[t] : \E i \in 1..size[t] : records[i] = c
         /\ \A i, j \in 1..size[t] : i # j => records[i] # records[j]
<1>1. size[t] \in Nat /\ limit[t] \in Nat /\ size[t] <= Len(records)
  BY FS_CardinalityType DEF IndInv, TypeOK, HandlerInv, KnownInv, ListInv
<1>2. \A i \in 1..size[t] : i \in 1..Len(records) /\ records[i] \in Captures
  BY <1>1 DEF IndInv, TypeOK
<1>3. \A i \in 1..size[t] : ScoreAt(t, i) \in Nat
  BY <1>2 DEF IndInv, TypeOK, ScoreAt, NegInf
<1>4. \A c \in known[t] : \E i \in 1..size[t] : records[i] = c
  BY DEF IndInv, HandlerInv, KnownInv, First
<1>5. \A i, j \in 1..size[t] : i # j => records[i] # records[j]
  BY <1>2 DEF IndInv, ListInv
<1> QED
  BY <1>1, <1>2, <1>3, <1>4, <1>5

\* Sorted positions of stacked vectors give a result, if they are all valid and
\* any valid one is left out for limit better ones.
LEMMA SortedIsWellRanked ==
  ASSUME IndInv, NEW t \in Recalls, pc[t] \in {"compare", "arange"},
         NEW I \in SUBSET (1..size[t]), NEW s \in ArgSort(t, I),
         Cardinality(I) <= limit[t],
         \A i \in I : ScoreAt(t, i) # NegInf,
         \A j \in (1..size[t]) \ I : ScoreAt(t, j) # NegInf =>
           Cardinality(I) = limit[t] /\ \A i \in I : ScoreAt(t, i) >= ScoreAt(t, j)
  PROVE  LET r == [i \in 1..Len(s) |-> records[s[i]]]
         IN  r \in Seq(Captures) /\ Best(t, First(t), r) /\ Elements(r) \subseteq First(t)
<1> DEFINE r == [i \in 1..Len(s) |-> records[s[i]]]
<1>1. /\ Cardinality(I) \in Nat
      /\ s \in Seq(1..size[t]) /\ Len(s) = Cardinality(I)
      /\ \A i \in 1..Len(s) : s[i] \in I
      /\ \A p \in I : \E i \in 1..Len(s) : s[i] = p
  <2>1. /\ s \in [1..Cardinality(I) -> I]
        /\ \A i, j \in 1..Cardinality(I) : i < j => s[i] # s[j]
    BY DEF ArgSort
  <2>2. size[t] \in Nat
    BY StackFacts
  <2> QED
    BY <2>1, <2>2, SortedPositions
<1>2. r \in Seq(Captures) /\ Len(r) = Len(s)
  BY <1>1, StackFacts
<1>3. \A i \in 1..Len(r) : r[i] = records[s[i]] /\ score[t][r[i]] = ScoreAt(t, s[i])
  BY <1>1, <1>2 DEF ScoreAt
<1>4. \A i, j \in 1..Len(r) : i < j => r[i] # r[j] /\ score[t][r[i]] >= score[t][r[j]]
  <2> SUFFICES ASSUME NEW i \in 1..Len(r), NEW j \in 1..Len(r), i < j
               PROVE  r[i] # r[j] /\ score[t][r[i]] >= score[t][r[j]]
    OBVIOUS
  <2>1. s[i] # s[j] /\ ScoreAt(t, s[i]) >= ScoreAt(t, s[j])
    BY <1>1, <1>2 DEF ArgSort
  <2>2. records[s[i]] # records[s[j]]
    BY <1>1, <1>2, <2>1, StackFacts
  <2> QED
    BY <1>3, <2>1, <2>2
<1>5. \A c \in Elements(r) : \E i \in I : c = records[i] /\ score[t][c] = ScoreAt(t, i)
  <2> SUFFICES ASSUME NEW c \in Elements(r)
               PROVE  \E i \in I : c = records[i] /\ score[t][c] = ScoreAt(t, i)
    OBVIOUS
  <2>1. PICK i \in 1..Len(r) : c = r[i]
    BY DEF Elements
  <2>2. s[i] \in I /\ c = records[s[i]] /\ score[t][c] = ScoreAt(t, s[i])
    BY <1>1, <1>2, <1>3, <2>1
  <2> QED
    BY <2>2
<1>6. \A c \in Elements(r) : score[t][c] # NegInf
  BY <1>5
<1>7. \A c \in First(t) \ Elements(r) : score[t][c] # NegInf =>
        Len(r) = limit[t] /\ \A h \in Elements(r) : score[t][h] >= score[t][c]
  <2> SUFFICES ASSUME NEW c \in First(t), c \notin Elements(r), score[t][c] # NegInf
               PROVE  Len(r) = limit[t] /\ \A h \in Elements(r) : score[t][h] >= score[t][c]
    OBVIOUS
  <2>1. PICK j \in 1..size[t] : records[j] = c
    BY DEF First
  <2>2. j \notin I
    BY <1>1, <1>2, <1>3, <2>1 DEF Elements
  <2>3. ScoreAt(t, j) = score[t][c]
    BY <2>1 DEF ScoreAt
  <2> QED
    BY <1>1, <1>2, <1>5, <2>2, <2>3
<1>8. Elements(r) \subseteq First(t)
  BY <1>5 DEF First
<1> QED
  BY <1>1, <1>2, <1>4, <1>6, <1>7, <1>8 DEF Best

\* The k positions that argpartition leaves on top are valid ones, and if a valid
\* one is not among them then because there are limit already.
LEMMA TopAreValid ==
  ASSUME IndInv, NEW t \in Recalls, pc[t] = "compare",
         NEW I \in ArgPartition(t, size[t], K(t))
  PROVE  /\ Cardinality(I) <= limit[t]
         /\ \A i \in I : ScoreAt(t, i) # NegInf
         /\ \A j \in (1..size[t]) \ I : ScoreAt(t, j) # NegInf => Cardinality(I) = limit[t]
<1> DEFINE V == Valid(t)
<1>1. /\ size[t] \in Nat /\ limit[t] \in Nat
      /\ \A i \in 1..size[t] : ScoreAt(t, i) \in Nat
  BY StackFacts
<1>2. /\ I \in SUBSET (1..size[t])
      /\ Cardinality(I) = K(t)
      /\ \A i \in I, j \in (1..size[t]) \ I : ScoreAt(t, i) >= ScoreAt(t, j)
  BY DEF ArgPartition
<1>3. V \in SUBSET (1..size[t]) /\ \A i \in 1..size[t] : i \in V <=> ScoreAt(t, i) # NegInf
  BY DEF Valid
<1> HIDE DEF V
<1>4. IsFiniteSet(I) /\ IsFiniteSet(V)
  <2>1. IsFiniteSet(1..size[t])
    BY <1>1, FS_Interval
  <2> QED
    BY <1>2, <1>3, <2>1, FS_Subset
<1>5. Cardinality(I) \in Nat /\ Cardinality(V) \in Nat
  BY <1>4, FS_CardinalityType
<1>6. Cardinality(I) = IF limit[t] < Cardinality(V) THEN limit[t] ELSE Cardinality(V)
  BY <1>2 DEF K, V
<1>7. ASSUME NEW i \in I, ScoreAt(t, i) = NegInf PROVE FALSE
  <2>1. \A j \in V : j \in I
    <3> SUFFICES ASSUME NEW j \in V, j \notin I PROVE FALSE
      OBVIOUS
    <3>1. ScoreAt(t, i) >= ScoreAt(t, j)
      BY <1>2, <1>3
    <3> QED
      BY <1>1, <1>3, <1>7, <3>1 DEF NegInf
  <2>2. V \subseteq I \ {i}
    BY <1>2, <1>3, <1>7, <2>1
  <2>3. IsFiniteSet(I \ {i}) /\ Cardinality(I \ {i}) = Cardinality(I) - 1
    BY <1>4, FS_RemoveElement
  <2>4. Cardinality(V) <= Cardinality(I) - 1
    BY <2>2, <2>3, FS_Subset
  <2> QED
    BY <1>1, <1>5, <1>6, <2>4
<1>8. ASSUME NEW j \in (1..size[t]) \ I, ScoreAt(t, j) # NegInf, Cardinality(I) # limit[t]
      PROVE  FALSE
  <2>1. Cardinality(I) = Cardinality(V)
    BY <1>6, <1>8
  <2>2. I \subseteq V
    BY <1>2, <1>3, <1>7
  <2>3. I = V
    BY <1>4, <2>1, <2>2, FS_Subset
  <2> QED
    BY <1>3, <1>8, <2>3
<1> QED
  BY <1>1, <1>5, <1>6, <1>7, <1>8

\* SelectTop's choice is such a one.
LEMMA TopIsWellRanked ==
  ASSUME IndInv, NEW t \in Recalls, pc[t] = "compare",
         NEW I \in ArgPartition(t, size[t], K(t)), NEW s \in ArgSort(t, I)
  PROVE  LET r == [i \in 1..Len(s) |-> records[s[i]]]
         IN  r \in Seq(Captures) /\ Best(t, First(t), r) /\ Elements(r) \subseteq First(t)
<1>1. /\ I \in SUBSET (1..size[t])
      /\ \A i \in I, j \in (1..size[t]) \ I : ScoreAt(t, i) >= ScoreAt(t, j)
  BY DEF ArgPartition
<1> QED
  BY <1>1, TopAreValid, SortedIsWellRanked

\* So is NumberAll's, of all positions, which are all valid and at most limit.
LEMMA AllIsWellRanked ==
  ASSUME IndInv, NEW t \in Recalls, pc[t] = "arange", Len(records) <= size[t],
         NEW s \in ArgSort(t, 1..Len(records))
  PROVE  LET r == [i \in 1..Len(s) |-> records[s[i]]]
         IN  r \in Seq(Captures) /\ Best(t, First(t), r) /\ Elements(r) \subseteq First(t)
<1>1. Len(records) = size[t]
  BY StackFacts DEF IndInv, TypeOK, HandlerInv, KnownInv
<1>2. Cardinality(1..size[t]) = size[t]
  BY StackFacts, FS_Interval
<1>3. size[t] <= limit[t] /\ \A i \in 1..size[t] : ScoreAt(t, i) # NegInf
  BY DEF IndInv, HandlerInv, KnownInv
<1> QED
  BY <1>1, <1>2, <1>3, SortedIsWellRanked

-----------------------------------------------------------------------------
(***************************************************************************)
(* The invariant is inductive.                                             *)
(***************************************************************************)

\* An empty store and idle handlers satisfy it.
LEMMA InitInvariant == Init => IndInv
<1> SUFFICES ASSUME Init PROVE IndInv
  OBVIOUS
<1>1. IsFiniteSet({}) /\ Cardinality({}) = 0
  BY FS_EmptySet
<1>2. TypeOK
  <2>1. score \in [Recalls -> [Captures -> NegInf..MaxScore]]
    BY DEF Init
  <2>2. << >> \in Seq(Captures) /\ 0 \in 0..MaxLimit /\ 0 \in 0..Cardinality(rows)
    BY <1>1, EmptySeq, BoundsAssumption DEF Init
  <2> QED
    BY <2>1, <2>2 DEF Init, TypeOK
<1>3. ListInv
  BY <1>1 DEF Init, ListInv, Elements
<1>4. \A t \in Recalls : HandlerInv(t)
  BY DEF Init, HandlerInv, KnownInv, RankInv, CodeInv, Running, Answered
<1> QED
  BY <1>2, <1>3, <1>4 DEF IndInv

\* The list holds no more records than there are committed captures.
LEMMA ListSize ==
  ASSUME IndInv
  PROVE  Cardinality(rows) \in Nat /\ Len(records) \in 0..Cardinality(rows)
<1>1. Cardinality(rows) \in Nat
  BY FS_CardinalityType DEF IndInv, ListInv
<1>2. records \in Seq(rows)
  <2>1. records \in Seq(Captures) /\ \A i \in 1..Len(records) : records[i] \in rows
    BY DEF IndInv, TypeOK, ListInv, Elements
  <2> QED
    BY <2>1
<1> QED
  BY <1>1, <1>2, NoRepetition DEF IndInv, ListInv

\* A handler that does not move keeps its part of the invariant while the list
\* stays or grows by one record.
LEMMA OthersKeep ==
  ASSUME IndInv, NEW t \in Recalls,
         UNCHANGED <<up, score>>,
         \/ records' = records
         \/ \E c \in Captures : records' = Append(records, c),
         pc'[t] = pc[t], limit'[t] = limit[t], known'[t] = known[t], size'[t] = size[t],
         ranked'[t] = ranked[t], hits'[t] = hits[t], code'[t] = code[t]
  PROVE  HandlerInv(t)'
<1>1. /\ Len(records) \in Nat /\ Len(records') \in Nat /\ Len(records) <= Len(records')
      /\ \A i \in 1..Len(records) : records'[i] = records[i]
  <2>1. records \in Seq(Captures)
    BY DEF IndInv, TypeOK
  <2>2. CASE records' = records
    BY <2>1, <2>2
  <2>3. ASSUME NEW c \in Captures, records' = Append(records, c)
        PROVE  Len(records') = Len(records) + 1 /\ \A i \in 1..Len(records) : records'[i] = records[i]
    BY <2>1, <2>3
  <2> QED
    BY <2>1, <2>2, <2>3
<1>2. Elements(records) \subseteq Elements(records')
  BY <1>1 DEF Elements
<1>3. size[t] \in Nat
  BY ListSize DEF IndInv, TypeOK
<1>4. size[t] <= Len(records) => First(t)' = First(t)
  <2> SUFFICES ASSUME size[t] <= Len(records) PROVE First(t)' = First(t)
    OBVIOUS
  <2>1. \A i \in 1..size[t] : records'[i] = records[i]
    BY <1>1, <1>3
  <2> QED
    BY <2>1 DEF First
<1>5. KnownInv(t)'
  <2>1. (Running(t) => up)'
    BY DEF IndInv, HandlerInv, KnownInv, Running
  <2>2. (pc[t] \in {"embed", "stack", "compare", "arange"} =>
           known[t] # {} /\ known[t] \subseteq Elements(records))'
    BY <1>2 DEF IndInv, HandlerInv, KnownInv
  <2>3. (pc[t] \in {"compare", "arange", "hydrate"} =>
           size[t] <= Len(records) /\ known[t] \subseteq First(t))'
    <3> SUFFICES ASSUME pc[t] \in {"compare", "arange", "hydrate"}
                 PROVE  size[t] <= Len(records') /\ known[t] \subseteq First(t)'
      OBVIOUS
    <3>1. size[t] <= Len(records) /\ known[t] \subseteq First(t)
      BY DEF IndInv, HandlerInv, KnownInv
    <3> QED
      BY <1>1, <1>3, <1>4, <3>1
  <2>4. (pc[t] = "arange" =>
           size[t] <= limit[t] /\ \A i \in 1..size[t] : ScoreAt(t, i) # NegInf)'
    <3> SUFFICES ASSUME pc[t] = "arange"
                 PROVE  size[t] <= limit[t] /\ \A i \in 1..size[t] : ScoreAt(t, i)' # NegInf
      OBVIOUS
    <3>1. /\ size[t] <= limit[t] /\ size[t] <= Len(records)
          /\ \A i \in 1..size[t] : ScoreAt(t, i) # NegInf
      BY DEF IndInv, HandlerInv, KnownInv
    <3>2. \A i \in 1..size[t] : records'[i] = records[i]
      BY <1>1, <1>3, <3>1
    <3> QED
      BY <3>1, <3>2 DEF ScoreAt
  <2> QED
    BY <2>1, <2>2, <2>3, <2>4 DEF KnownInv
<1>6. RankInv(t)'
  <2>1. \A r : WellRanked(t, r) => WellRanked(t, r)'
    BY DEF WellRanked, Elements
  <2>2. \A S, r : Best(t, S, r) => Best(t, S, r)'
    BY DEF Best, Elements
  <2>3. Elements(ranked[t])' = Elements(ranked[t])
    BY DEF Elements
  <2>4. pc[t] = "hydrate" => First(t)' = First(t)
    BY <1>4 DEF IndInv, HandlerInv, KnownInv
  <2> QED
    BY <2>1, <2>2, <2>3, <2>4 DEF IndInv, HandlerInv, RankInv, Answered
<1>7. CodeInv(t)'
  BY <1>2 DEF IndInv, HandlerInv, CodeInv
<1> QED
  BY <1>5, <1>6, <1>7 DEF HandlerInv

\* A commit adds captures, the list stays as it is.
LEMMA CommitStep ==
  ASSUME IndInv, NEW R \in SUBSET (Captures \ rows), NEW E \in SUBSET (rows \ embedded),
         Commit(R, E)
  PROVE  IndInv'
<1>1. /\ UNCHANGED <<up, score, records, recallVars>>
      /\ rows' = rows \cup R /\ embedded' = embedded \cup E /\ IsFiniteSet(R)
  BY DEF Commit
<1>2. IsFiniteSet(rows') /\ Cardinality(rows) <= Cardinality(rows')
  <2>1. IsFiniteSet(rows')
    BY <1>1, FS_Union DEF IndInv, ListInv
  <2> QED
    BY <1>1, <2>1, FS_Subset
<1>3. size' \in [Recalls -> 0..Cardinality(rows')]
  <2>1. Cardinality(rows) \in Nat /\ Cardinality(rows') \in Nat
    BY <1>2, FS_CardinalityType DEF IndInv, ListInv
  <2> QED
    BY <1>1, <1>2, <2>1 DEF IndInv, TypeOK, recallVars
<1>4. TypeOK'
  BY <1>1, <1>3 DEF IndInv, TypeOK, recallVars
<1>5. ListInv'
  BY <1>1, <1>2 DEF IndInv, ListInv, Elements
<1>6. \A t \in Recalls : HandlerInv(t)'
  BY <1>1, OthersKeep DEF recallVars
<1> QED
  BY <1>4, <1>5, <1>6 DEF IndInv

\* The list grows by a committed capture that it does not hold yet.
LEMMA AppendStep ==
  ASSUME IndInv, NEW c \in Captures, AppendRecord(c)
  PROVE  IndInv'
<1>1. /\ UNCHANGED <<up, rows, embedded, score, recallVars>>
      /\ up /\ records' = Append(records, c)
      /\ c \in rows /\ \A i \in 1..Len(records) : records[i] # c
  BY DEF AppendRecord, Elements
<1>2. records \in Seq(Captures) /\ records' \in Seq(Captures)
  BY <1>1 DEF IndInv, TypeOK
<1>3. TypeOK'
  BY <1>1, <1>2 DEF IndInv, TypeOK, recallVars
<1>4. ListInv'
  <2>1. /\ Len(records') = Len(records) + 1 /\ Len(records) \in Nat
        /\ \A i \in 1..Len(records) : records'[i] = records[i]
        /\ records'[Len(records) + 1] = c
    BY <1>1, <1>2
  <2>2. \A i \in 1..Len(records') : i \in 1..Len(records) \/ records'[i] = c
    BY <2>1
  <2>3. \A i, j \in 1..Len(records') : i # j => records'[i] # records'[j]
    BY <1>1, <2>1, <2>2 DEF IndInv, ListInv
  <2>4. \A i \in 1..Len(records) : records[i] \in rows
    BY DEF IndInv, ListInv, Elements
  <2>5. Elements(records') \subseteq rows'
    BY <1>1, <2>1, <2>2, <2>4 DEF Elements
  <2> QED
    BY <1>1, <2>3, <2>5 DEF IndInv, ListInv
<1>5. \A t \in Recalls : HandlerInv(t)'
  BY <1>1, OthersKeep DEF recallVars
<1> QED
  BY <1>3, <1>4, <1>5 DEF IndInv

\* A crash loses the list and the running recalls.
LEMMA CrashStep == IndInv /\ Crash => IndInv'
<1> SUFFICES ASSUME IndInv, Crash PROVE IndInv'
  OBVIOUS
<1>1. TypeOK'
  <2>1. pc' \in [Recalls -> {"idle", "embed", "stack", "compare", "arange",
                            "hydrate", "done", "lost"}]
    BY DEF IndInv, TypeOK, Crash
  <2>2. up' \in BOOLEAN /\ records' \in Seq(Captures)
    BY EmptySeq DEF Crash
  <2> QED
    BY <2>1, <2>2 DEF IndInv, TypeOK, Crash
<1>2. ListInv'
  BY DEF IndInv, ListInv, Crash, Elements
<1>3. ASSUME NEW t \in Recalls PROVE HandlerInv(t)'
  <2>1. pc'[t] \in {"idle", "done", "lost"} /\ (pc'[t] = "lost" \/ pc'[t] = pc[t])
    BY DEF IndInv, TypeOK, Crash
  <2>2. KnownInv(t)'
    BY <2>1 DEF KnownInv, Running
  <2>3. RankInv(t)'
    BY <2>1 DEF IndInv, HandlerInv, RankInv, Crash, Answered, WellRanked, Elements
  <2>4. CodeInv(t)'
    BY <2>1 DEF IndInv, TypeOK, HandlerInv, CodeInv, Crash
  <2> QED
    BY <2>2, <2>3, <2>4 DEF HandlerInv
<1> QED
  BY <1>1, <1>2, <1>3 DEF IndInv

\* A restart lists every embedded capture, before any recall runs.
LEMMA RestartStep == IndInv /\ Restart => IndInv'
<1> SUFFICES ASSUME IndInv, Restart PROVE IndInv'
  OBVIOUS
<1>1. /\ UNCHANGED <<rows, embedded, score, recallVars>>
      /\ ~up /\ up' /\ up' \in BOOLEAN
      /\ records' \in SetToSeqs(embedded)
  BY DEF Restart
<1>2. /\ records' \in Seq(embedded)
      /\ \A i, j \in 1..Len(records') : i # j => records'[i] # records'[j]
      /\ \A x \in embedded : \E i \in 1..Len(records') : records'[i] = x
  <2>1. IsFiniteSet(embedded)
    BY FS_Subset DEF IndInv, TypeOK, ListInv
  <2> QED
    BY <1>1, <2>1, Enumerations
<1>3. Elements(records') = embedded
  BY <1>2 DEF Elements
<1>4. records' \in Seq(Captures)
  BY <1>2, SeqMonotonic DEF IndInv, TypeOK
<1>5. TypeOK'
  BY <1>1, <1>4 DEF IndInv, TypeOK, recallVars
<1>6. ListInv'
  BY <1>1, <1>2, <1>3 DEF IndInv, TypeOK, ListInv
<1>7. ASSUME NEW t \in Recalls PROVE HandlerInv(t)'
  <2>1. ~Running(t) /\ ~Running(t)'
    BY <1>1 DEF IndInv, HandlerInv, KnownInv, Running, recallVars
  <2>2. KnownInv(t)'
    BY <2>1 DEF KnownInv, Running
  <2>3. RankInv(t)'
    BY <1>1, <2>1 DEF IndInv, HandlerInv, RankInv, Running, Answered, WellRanked, Elements, recallVars
  <2>4. CodeInv(t)'
    BY <1>1, <1>3 DEF IndInv, HandlerInv, CodeInv, recallVars
  <2> QED
    BY <2>2, <2>3, <2>4 DEF HandlerInv
<1> QED
  BY <1>5, <1>6, <1>7 DEF IndInv

\* A recall's step leaves the list and the other recalls alone.
LEMMA RecallFrame ==
  ASSUME IndInv, NEW t \in Recalls, UNCHANGED storeVars, TypeOK', HandlerInv(t)',
         \A u \in Recalls \ {t} :
           /\ pc'[u] = pc[u] /\ limit'[u] = limit[u] /\ known'[u] = known[u]
           /\ size'[u] = size[u] /\ ranked'[u] = ranked[u]
           /\ hits'[u] = hits[u] /\ code'[u] = code[u]
  PROVE  IndInv'
<1>1. ListInv'
  BY DEF IndInv, ListInv, storeVars, Elements
<1>2. \A u \in Recalls \ {t} : HandlerInv(u)'
  BY OthersKeep DEF storeVars
<1> QED
  BY <1>1, <1>2 DEF IndInv

\* A recall that arrives knows the list it finds.
LEMMA ArriveStep ==
  ASSUME IndInv, NEW t \in Recalls, NEW n \in 1..MaxLimit, Arrive(t, n)
  PROVE  IndInv'
<1>1. /\ UNCHANGED storeVars /\ UNCHANGED <<size, ranked>>
      /\ up /\ pc[t] = "idle"
      /\ limit' = [limit EXCEPT ![t] = n]
      /\ known' = [known EXCEPT ![t] = Elements(records)]
      /\ \/ /\ records = << >>
            /\ pc' = [pc EXCEPT ![t] = "done"]
            /\ code' = [code EXCEPT ![t] = "200"]
            /\ hits' = [hits EXCEPT ![t] = << >>]
         \/ /\ records # << >>
            /\ pc' = [pc EXCEPT ![t] = "embed"]
            /\ UNCHANGED <<hits, code>>
  BY DEF Arrive, Answer, Goto
<1>2. TypeOK'
  <2>1. Elements(records) \subseteq Captures
    BY DEF IndInv, TypeOK, Elements
  <2>2. << >> \in Seq(Captures)
    BY EmptySeq
  <2>3. hits' \in [Recalls -> Seq(Captures)]
    BY <1>1, <2>2 DEF IndInv, TypeOK
  <2>4. limit' \in [Recalls -> 0..MaxLimit]
    BY <1>1, BoundsAssumption DEF IndInv, TypeOK
  <2> QED
    BY <1>1, <2>1, <2>3, <2>4 DEF IndInv, TypeOK, storeVars
<1>3. HandlerInv(t)'
  <2>1. /\ limit'[t] = n /\ known'[t] = Elements(records) /\ records' = records /\ up'
        /\ ranked'[t] = << >> /\ code[t] = "none"
    BY <1>1 DEF IndInv, TypeOK, HandlerInv, RankInv, CodeInv, storeVars
  <2>2. CASE records = << >>
    <3>1. pc'[t] = "done" /\ code'[t] = "200" /\ hits'[t] = << >>
      BY <1>1, <2>2 DEF IndInv, TypeOK
    <3>2. known'[t] = {} /\ Elements(<< >>) = {} /\ Len(<< >>) = 0
      BY <2>1, <2>2 DEF Elements
    <3> QED
      BY <2>1, <3>1, <3>2 DEF HandlerInv, KnownInv, RankInv, CodeInv, Running, Answered, WellRanked
  <2>3. CASE records # << >>
    <3>1. pc'[t] = "embed" /\ code'[t] = "none"
      BY <1>1, <2>1, <2>3 DEF IndInv, TypeOK
    <3>2. Len(records) \in Nat \ {0}
      BY <2>3, EmptySeq DEF IndInv, TypeOK
    <3>3. known'[t] # {} /\ known'[t] = Elements(records')
      BY <2>1, <3>2 DEF Elements
    <3> QED
      BY <2>1, <3>1, <3>3 DEF HandlerInv, KnownInv, RankInv, CodeInv, Running, Answered
  <2> QED
    BY <2>2, <2>3
<1>4. \A u \in Recalls \ {t} :
        /\ pc'[u] = pc[u] /\ limit'[u] = limit[u] /\ known'[u] = known[u]
        /\ size'[u] = size[u] /\ ranked'[u] = ranked[u]
        /\ hits'[u] = hits[u] /\ code'[u] = code[u]
  BY <1>1 DEF IndInv, TypeOK
<1> QED
  BY <1>1, <1>2, <1>3, <1>4, RecallFrame

\* Embedding the query touches nothing else.
LEMMA EmbedQuerySteps ==
  ASSUME IndInv, NEW t \in Recalls, EmbedQuery(t) \/ EmbedQueryFails(t)
  PROVE  IndInv'
<1>1. /\ UNCHANGED storeVars /\ UNCHANGED <<limit, known, size, ranked>>
      /\ pc[t] = "embed"
      /\ \/ /\ pc' = [pc EXCEPT ![t] = "stack"]
            /\ UNCHANGED <<hits, code>>
         \/ /\ pc' = [pc EXCEPT ![t] = "done"]
            /\ code' = [code EXCEPT ![t] = "503"]
            /\ hits' = [hits EXCEPT ![t] = << >>]
  BY DEF EmbedQuery, EmbedQueryFails, Answer, Goto
<1>2. TypeOK'
  <2>1. << >> \in Seq(Captures)
    BY EmptySeq
  <2>2. hits' \in [Recalls -> Seq(Captures)]
    BY <1>1, <2>1 DEF IndInv, TypeOK
  <2> QED
    BY <1>1, <2>2 DEF IndInv, TypeOK, storeVars
<1>3. HandlerInv(t)'
  <2>1. \/ pc'[t] = "stack" /\ code'[t] = "none"
        \/ pc'[t] = "done" /\ code'[t] = "503"
    BY <1>1 DEF IndInv, TypeOK, HandlerInv, CodeInv
  <2> QED
    BY <1>1, <2>1 DEF IndInv, HandlerInv, KnownInv, RankInv, CodeInv, Running, Answered, storeVars, Elements
<1>4. \A u \in Recalls \ {t} :
        /\ pc'[u] = pc[u] /\ limit'[u] = limit[u] /\ known'[u] = known[u]
        /\ size'[u] = size[u] /\ ranked'[u] = ranked[u]
        /\ hits'[u] = hits[u] /\ code'[u] = code[u]
  BY <1>1 DEF IndInv, TypeOK
<1> QED
  BY <1>1, <1>2, <1>3, <1>4, RecallFrame

\* A recall that stacks no valid vector leaves none of its limit's worth out.
LEMMA StackStep ==
  ASSUME IndInv, NEW t \in Recalls, Stack(t)
  PROVE  IndInv'
<1>1. /\ UNCHANGED storeVars /\ UNCHANGED <<limit, known, ranked, hits, code>>
      /\ pc[t] = "stack"
      /\ size' = [size EXCEPT ![t] = Len(records)]
      /\ \/ pc' = [pc EXCEPT ![t] = "compare"]
         \/ /\ pc' = [pc EXCEPT ![t] = "hydrate"]
            /\ \A c \in Elements(records) : score[t][c] = NegInf
  BY DEF Stack, Goto
<1>2. TypeOK'
  <2>1. size' \in [Recalls -> 0..Cardinality(rows)]
    BY <1>1, ListSize DEF IndInv, TypeOK
  <2> QED
    BY <1>1, <2>1 DEF IndInv, TypeOK, storeVars
<1>3. HandlerInv(t)'
  <2>0. /\ size'[t] = Len(records) /\ Len(records) \in Nat /\ records' = records /\ up' = up
        /\ known'[t] = known[t] /\ ranked'[t] = ranked[t] /\ code'[t] = code[t]
    BY <1>1, ListSize DEF IndInv, TypeOK, storeVars
  <2>5. known[t] # {} /\ known[t] \subseteq Elements(records) /\ up
    BY <1>1 DEF IndInv, HandlerInv, KnownInv, Running
  <2>6. ranked[t] = << >> /\ code[t] = "none"
    BY <1>1 DEF IndInv, HandlerInv, RankInv, CodeInv
  <2>1. /\ size'[t] = Len(records) /\ Len(records) \in Nat /\ records' = records /\ up' = up
        /\ known'[t] = known[t] /\ known[t] # {} /\ known[t] \subseteq Elements(records)
        /\ ranked'[t] = << >> /\ ranked[t] = << >> /\ code'[t] = "none" /\ code[t] = "none" /\ up
    BY <2>0, <2>5, <2>6
  <2>2. First(t)' = Elements(records)
    BY <2>1 DEF First, Elements
  <2>3. CASE pc'[t] = "compare"
    BY <2>1, <2>3, <2>2 DEF HandlerInv, KnownInv, RankInv, CodeInv, Running, Answered
  <2>4. CASE pc' = [pc EXCEPT ![t] = "hydrate"] /\ \A c \in Elements(records) : score[t][c] = NegInf
    <3>1. pc'[t] = "hydrate"
      BY <2>4 DEF IndInv, TypeOK
    <3>2. Elements(<< >>) = {} /\ Len(<< >>) = 0 /\ limit[t] \in Nat
      BY DEF Elements, IndInv, TypeOK
    <3>3. Best(t, Elements(records), << >>)
      BY <2>4, <3>2 DEF Best
    <3>4. Best(t, First(t), ranked[t])'
      BY <1>1, <2>1, <2>2, <3>3 DEF Best, storeVars, Elements
    <3>5. Elements(ranked[t])' = {}
      BY <2>1, <3>2 DEF Elements
    <3> QED
      BY <2>1, <2>2, <3>1, <3>4, <3>5 DEF HandlerInv, KnownInv, RankInv, CodeInv, Running, Answered
  <2> QED
    BY <1>1, <2>3, <2>4 DEF IndInv, TypeOK
<1>4. \A u \in Recalls \ {t} :
        /\ pc'[u] = pc[u] /\ limit'[u] = limit[u] /\ known'[u] = known[u]
        /\ size'[u] = size[u] /\ ranked'[u] = ranked[u]
        /\ hits'[u] = hits[u] /\ code'[u] = code[u]
  BY <1>1 DEF IndInv, TypeOK
<1> QED
  BY <1>1, <1>2, <1>3, <1>4, RecallFrame

\* Either way to rank.
LEMMA RankStep ==
  ASSUME IndInv, NEW t \in Recalls, pc[t] \in {"compare", "arange"}, NEW s,
         LET r == [i \in 1..Len(s) |-> records[s[i]]]
         IN  r \in Seq(Captures) /\ Best(t, First(t), r) /\ Elements(r) \subseteq First(t),
         Rank(t, s), UNCHANGED <<storeVars, limit, known, size, hits, code>>
  PROVE  IndInv'
<1> DEFINE r == [i \in 1..Len(s) |-> records[s[i]]]
<1>1. /\ ranked' = [ranked EXCEPT ![t] = r] /\ pc' = [pc EXCEPT ![t] = "hydrate"]
      /\ r \in Seq(Captures) /\ Best(t, First(t), r) /\ Elements(r) \subseteq First(t)
      /\ UNCHANGED storeVars /\ UNCHANGED <<limit, known, size, hits, code>>
  BY DEF Rank, Goto
<1> HIDE DEF r
<1>2. TypeOK'
  <2>1. ranked' \in [Recalls -> Seq(Captures)]
    BY <1>1 DEF IndInv, TypeOK
  <2> QED
    BY <1>1, <2>1 DEF IndInv, TypeOK, storeVars
<1>3. HandlerInv(t)'
  <2>1. /\ ranked'[t] = r /\ pc'[t] = "hydrate" /\ records' = records /\ score' = score
        /\ limit'[t] = limit[t] /\ known'[t] = known[t] /\ up' /\ code'[t] = "none"
    BY <1>1 DEF IndInv, TypeOK, HandlerInv, KnownInv, CodeInv, Running, storeVars
  <2>0. First(t)' = First(t) /\ size[t] <= Len(records) /\ known[t] \subseteq First(t) /\ size'[t] = size[t]
    BY <1>1, <2>1 DEF First, IndInv, HandlerInv, KnownInv
  <2>2. Best(t, First(t), ranked[t])'
    BY <1>1, <2>0, <2>1 DEF Best, Elements
  <2>3. (Elements(ranked[t]) \subseteq First(t))'
    BY <1>1, <2>0, <2>1 DEF Elements
  <2> QED
    BY <2>0, <2>1, <2>2, <2>3 DEF HandlerInv, KnownInv, RankInv, CodeInv, Running, Answered
<1>4. \A u \in Recalls \ {t} :
        /\ pc'[u] = pc[u] /\ limit'[u] = limit[u] /\ known'[u] = known[u]
        /\ size'[u] = size[u] /\ ranked'[u] = ranked[u]
        /\ hits'[u] = hits[u] /\ code'[u] = code[u]
  BY <1>1 DEF IndInv, TypeOK
<1> QED
  BY <1>1, <1>2, <1>3, <1>4, RecallFrame

\* The top k are ranked.
LEMMA SelectTopStep ==
  ASSUME IndInv, NEW t \in Recalls, SelectTop(t)
  PROVE  IndInv'
<1>1. PICK I \in ArgPartition(t, size[t], K(t)) : \E s \in ArgSort(t, I) : Rank(t, s)
  BY DEF SelectTop
<1>2. PICK s \in ArgSort(t, I) : Rank(t, s)
  BY <1>1
<1>3. pc[t] = "compare" /\ UNCHANGED <<storeVars, limit, known, size, hits, code>>
  BY DEF SelectTop
<1>4. LET r == [i \in 1..Len(s) |-> records[s[i]]]
      IN  r \in Seq(Captures) /\ Best(t, First(t), r) /\ Elements(r) \subseteq First(t)
  BY <1>3, TopIsWellRanked
<1> QED
  BY <1>2, <1>3, <1>4, RankStep

\* All are ranked.
LEMMA NumberAllStep ==
  ASSUME IndInv, NEW t \in Recalls, NumberAll(t)
  PROVE  IndInv'
<1>1. PICK s \in ArgSort(t, 1..Len(records)) : Rank(t, s)
  BY DEF NumberAll
<1>2. /\ pc[t] = "arange" /\ Len(records) <= size[t]
      /\ UNCHANGED <<storeVars, limit, known, size, hits, code>>
  BY DEF NumberAll
<1>3. LET r == [i \in 1..Len(s) |-> records[s[i]]]
      IN  r \in Seq(Captures) /\ Best(t, First(t), r) /\ Elements(r) \subseteq First(t)
  BY <1>2, AllIsWellRanked
<1> QED
  BY <1>1, <1>2, <1>3, RankStep

\* `k < len(records)` is false only when every stacked vector is valid and the
\* limit leaves none of them out.
LEMMA SelectAllStep ==
  ASSUME IndInv, NEW t \in Recalls, SelectAll(t)
  PROVE  IndInv'
<1>1. /\ UNCHANGED storeVars /\ UNCHANGED <<limit, known, size, ranked, hits, code>>
      /\ pc[t] = "compare" /\ K(t) >= Len(records)
      /\ pc' = [pc EXCEPT ![t] = "arange"]
  BY DEF SelectAll, Goto
<1>2. TypeOK'
  BY <1>1 DEF IndInv, TypeOK, storeVars
<1>3. size[t] <= limit[t] /\ \A i \in 1..size[t] : ScoreAt(t, i) # NegInf
  <2> DEFINE V == Valid(t)
  <2>1. /\ size[t] \in Nat /\ limit[t] \in Nat /\ Len(records) \in Nat
        /\ size[t] <= Len(records)
    BY <1>1, StackFacts, ListSize DEF IndInv, HandlerInv, KnownInv
  <2>2. IsFiniteSet(1..size[t]) /\ Cardinality(1..size[t]) = size[t]
    BY <2>1, IntervalSize
  <2>3. V \subseteq 1..size[t]
    BY DEF Valid
  <2>4. Cardinality(V) \in Nat /\ Cardinality(V) <= size[t]
    <3>1. IsFiniteSet(V) /\ Cardinality(V) <= Cardinality(1..size[t])
      BY <2>2, <2>3, FS_Subset
    <3> QED
      BY <2>2, <3>1, FS_CardinalityType
  <2> HIDE DEF V
  <2>5. Cardinality(V) = size[t] /\ size[t] <= limit[t]
    BY <1>1, <2>1, <2>4 DEF K, V
  <2>6. V = 1..size[t]
    BY <2>2, <2>3, <2>5, FS_Subset
  <2> QED
    BY <2>5, <2>6 DEF V, Valid
<1>4. HandlerInv(t)'
  <2>1. pc'[t] = "arange" /\ code[t] = "none"
    BY <1>1 DEF IndInv, TypeOK, HandlerInv, CodeInv
  <2>2. KnownInv(t)'
    BY <1>1, <1>3, <2>1 DEF IndInv, HandlerInv, KnownInv, Running, storeVars, Elements, First, ScoreAt
  <2> QED
    BY <1>1, <2>1, <2>2 DEF IndInv, HandlerInv, RankInv, CodeInv, Answered
<1>5. \A u \in Recalls \ {t} :
        /\ pc'[u] = pc[u] /\ limit'[u] = limit[u] /\ known'[u] = known[u]
        /\ size'[u] = size[u] /\ ranked'[u] = ranked[u]
        /\ hits'[u] = hits[u] /\ code'[u] = code[u]
  BY <1>1 DEF IndInv, TypeOK
<1> QED
  BY <1>1, <1>2, <1>4, <1>5, RecallFrame

\* The last record of a list longer than the stack came after the known ones.
LEMMA NumberAllFailsStep ==
  ASSUME IndInv, NEW t \in Recalls, NumberAllFails(t)
  PROVE  IndInv'
<1>1. /\ UNCHANGED storeVars /\ UNCHANGED <<limit, known, size, ranked>>
      /\ pc[t] = "arange" /\ Len(records) > size[t]
      /\ pc' = [pc EXCEPT ![t] = "done"]
      /\ code' = [code EXCEPT ![t] = "500"]
      /\ hits' = [hits EXCEPT ![t] = << >>]
  BY DEF NumberAllFails, Answer, Goto
<1>2. TypeOK'
  <2>1. << >> \in Seq(Captures)
    BY EmptySeq
  <2>2. hits' \in [Recalls -> Seq(Captures)]
    BY <1>1, <2>1 DEF IndInv, TypeOK
  <2> QED
    BY <1>1, <2>2 DEF IndInv, TypeOK, storeVars
<1>4. HandlerInv(t)'
  <2>1. pc'[t] = "done" /\ code'[t] = "500"
    BY <1>1 DEF IndInv, TypeOK
  <2> QED
    BY <2>1 DEF HandlerInv, KnownInv, RankInv, CodeInv, Running, Answered
<1>5. \A u \in Recalls \ {t} :
        /\ pc'[u] = pc[u] /\ limit'[u] = limit[u] /\ known'[u] = known[u]
        /\ size'[u] = size[u] /\ ranked'[u] = ranked[u]
        /\ hits'[u] = hits[u] /\ code'[u] = code[u]
  BY <1>1 DEF IndInv, TypeOK
<1> QED
  BY <1>1, <1>2, <1>4, <1>5, RecallFrame

\* What is ranked is in the list.
LEMMA RankedAreListed ==
  ASSUME IndInv, NEW t \in Recalls, pc[t] = "hydrate"
  PROVE  Elements(ranked[t]) \subseteq Elements(records)
<1>1. /\ size[t] \in Nat /\ Len(records) \in Nat /\ size[t] <= Len(records)
      /\ Elements(ranked[t]) \subseteq First(t)
  BY ListSize DEF IndInv, TypeOK, HandlerInv, KnownInv, RankInv
<1>2. 1..size[t] \subseteq 1..Len(records)
  BY <1>1
<1> QED
  BY <1>1, <1>2 DEF First, Elements

\* Every ranked id has its row: the answer is the result.
LEMMA HydrateStep ==
  ASSUME IndInv, NEW t \in Recalls, Hydrate(t)
  PROVE  IndInv' /\ hits'[t] = ranked[t] /\ Elements(ranked[t]) \subseteq rows
<1> DEFINE found == {i \in 1..Len(ranked[t]) : ranked[t][i] \in rows}
           ids == [k \in 1..Cardinality(found) |-> ranked[t][Nth(found, k)]]
<1>1. /\ UNCHANGED storeVars /\ UNCHANGED <<limit, known, size, ranked>>
      /\ pc[t] = "hydrate"
      /\ pc' = [pc EXCEPT ![t] = "done"]
      /\ code' = [code EXCEPT ![t] = "200"]
      /\ hits' = [hits EXCEPT ![t] = ids]
  BY DEF Hydrate, Answer, Goto
<1>2. /\ ranked[t] \in Seq(Captures) /\ Len(ranked[t]) \in Nat
      /\ WellRanked(t, ranked[t]) /\ Elements(ranked[t]) \subseteq Elements(records)
  <2>1. /\ ranked[t] \in Seq(Captures) /\ Len(ranked[t]) \in Nat
        /\ Best(t, First(t), ranked[t]) /\ known[t] \subseteq First(t)
    BY <1>1 DEF IndInv, TypeOK, HandlerInv, KnownInv, RankInv
  <2> QED
    BY <1>1, <2>1, RankedAreListed DEF Best, WellRanked
<1>3. found = 1..Len(ranked[t]) /\ Elements(ranked[t]) \subseteq rows
  BY <1>2 DEF IndInv, TypeOK, ListInv, Elements
<1>4. Cardinality(found) = Len(ranked[t])
  BY <1>2, <1>3, IntervalSize
<1>5. \A k \in 1..Len(ranked[t]) : Nth(found, k) = k
  BY <1>2, <1>3, NthOfAll
<1>6. ids = ranked[t]
  <2>1. ids = [k \in 1..Len(ranked[t]) |-> ranked[t][k]]
    BY <1>4, <1>5
  <2>2. ranked[t] = [k \in 1..Len(ranked[t]) |-> ranked[t][k]]
    BY <1>2, LenProperties
  <2> QED
    BY <2>1, <2>2
<1> HIDE DEF found, ids
<1>7. TypeOK'
  <2>1. hits' \in [Recalls -> Seq(Captures)]
    BY <1>1, <1>2, <1>6 DEF IndInv, TypeOK
  <2> QED
    BY <1>1, <2>1 DEF IndInv, TypeOK, storeVars
<1>8. HandlerInv(t)'
  <2>1. pc'[t] = "done" /\ code'[t] = "200" /\ hits'[t] = ranked[t]
    BY <1>1, <1>6 DEF IndInv, TypeOK
  <2>2. WellRanked(t, ranked[t])'
    BY <1>1, <1>2 DEF WellRanked, storeVars, Elements
  <2> QED
    BY <1>1, <2>1, <2>2 DEF HandlerInv, KnownInv, RankInv, CodeInv, Running, Answered
<1>9. \A u \in Recalls \ {t} :
        /\ pc'[u] = pc[u] /\ limit'[u] = limit[u] /\ known'[u] = known[u]
        /\ size'[u] = size[u] /\ ranked'[u] = ranked[u]
        /\ hits'[u] = hits[u] /\ code'[u] = code[u]
  BY <1>1 DEF IndInv, TypeOK
<1>10. hits'[t] = ranked[t]
  BY <1>1, <1>6 DEF IndInv, TypeOK
<1> QED
  BY <1>1, <1>3, <1>7, <1>8, <1>9, <1>10, RecallFrame

\* Every step of the daemon and of its clients.
LEMMA NextInvariant == IndInv /\ [Next]_vars => IndInv'
<1> SUFFICES ASSUME IndInv, [Next]_vars PROVE IndInv'
  OBVIOUS
<1>1. CASE UNCHANGED vars
  <2>1. UNCHANGED storeVars /\ UNCHANGED recallVars
    BY <1>1 DEF vars
  <2>2. TypeOK'
    BY <2>1 DEF IndInv, TypeOK, storeVars, recallVars
  <2>3. ListInv'
    BY <2>1 DEF IndInv, ListInv, storeVars, Elements
  <2>4. \A t \in Recalls : HandlerInv(t)'
    BY <2>1, OthersKeep DEF storeVars, recallVars
  <2> QED
    BY <2>2, <2>3, <2>4 DEF IndInv
<1>2. ASSUME NEW R \in SUBSET (Captures \ rows), NEW E \in SUBSET (rows \ embedded), Commit(R, E)
      PROVE  IndInv'
  BY <1>2, CommitStep
<1>7. ASSUME NEW c \in Captures, AppendRecord(c)
      PROVE  IndInv'
  BY <1>7, AppendStep
<1>3. CASE Crash
  BY <1>3, CrashStep
<1>4. CASE Restart
  BY <1>4, RestartStep
<1>5. ASSUME NEW t \in Recalls, NEW n \in 1..MaxLimit, Arrive(t, n)
      PROVE  IndInv'
  BY <1>5, ArriveStep
<1>6. ASSUME NEW t \in Recalls, Handler(t)
      PROVE  IndInv'
  BY <1>6, EmbedQuerySteps, StackStep, SelectTopStep, SelectAllStep, NumberAllStep,
     NumberAllFailsStep, HydrateStep DEF Handler
<1> QED
  BY <1>1, <1>2, <1>3, <1>4, <1>5, <1>6, <1>7 DEF Next

\* Whatever the interleaving of captures, recalls, crashes and restarts.
THEOREM Invariance == Spec => []IndInv
  BY InitInvariant, NextInvariant, PTL DEF Spec

\* Only Hydrate answers with hits, and what it hydrates is in the list.
LEMMA NewHitsAreListed ==
  ASSUME IndInv, [Next]_vars, NEW t \in Recalls
  PROVE  Elements(hits'[t]) \subseteq Elements(hits[t]) \cup Elements(records)
<1>1. Elements(<< >>) = {}
  BY DEF Elements
<1>2. CASE hits' = hits
  BY <1>2
<1>3. ASSUME NEW u \in Recalls, NEW result, NEW ids, Answer(u, result, ids),
             Elements(ids) \subseteq Elements(records)
      PROVE  Elements(hits'[t]) \subseteq Elements(hits[t]) \cup Elements(records)
  <2>1. hits'[t] = IF u = t THEN ids ELSE hits[t]
    BY <1>3 DEF Answer, IndInv, TypeOK
  <2> QED
    BY <1>3, <2>1
<1>4. ASSUME NEW u \in Recalls, NEW n \in 1..MaxLimit, Arrive(u, n)
      PROVE  Elements(hits'[t]) \subseteq Elements(hits[t]) \cup Elements(records)
  <2>1. Answer(u, "200", << >>) \/ hits' = hits
    BY <1>4 DEF Arrive
  <2> QED
    BY <1>1, <1>2, <1>3, <2>1
<1>5. ASSUME NEW u \in Recalls, EmbedQueryFails(u) \/ NumberAllFails(u)
      PROVE  Elements(hits'[t]) \subseteq Elements(hits[t]) \cup Elements(records)
  <2>1. Answer(u, "503", << >>) \/ Answer(u, "500", << >>)
    BY <1>5 DEF EmbedQueryFails, NumberAllFails
  <2> QED
    BY <1>1, <1>3, <2>1
<1>6. ASSUME NEW u \in Recalls, Hydrate(u)
      PROVE  Elements(hits'[t]) \subseteq Elements(hits[t]) \cup Elements(records)
  <2>1. PICK ids : Answer(u, "200", ids)
    BY <1>6 DEF Hydrate
  <2>2. ids = ranked[u]
    <3>1. hits'[u] = ids
      BY <2>1 DEF Answer, IndInv, TypeOK
    <3> QED
      BY <1>6, <3>1, HydrateStep
  <2>3. Elements(ids) \subseteq Elements(records)
    BY <1>6, <2>2, RankedAreListed DEF Hydrate
  <2> QED
    BY <1>3, <2>1, <2>3
<1>7. ASSUME NEW u \in Recalls,
             EmbedQuery(u) \/ Stack(u) \/ SelectTop(u) \/ SelectAll(u) \/ NumberAll(u)
      PROVE  hits' = hits
  BY <1>7 DEF EmbedQuery, Stack, SelectTop, SelectAll, NumberAll
<1>8. ASSUME (\E R, E : Commit(R, E)) \/ (\E c : AppendRecord(c)) \/ Crash \/ Restart
      PROVE  hits' = hits
  BY <1>8 DEF Commit, AppendRecord, Crash, Restart, recallVars
<1>9. UNCHANGED vars => hits' = hits
  BY DEF vars, recallVars
<1> QED
  BY <1>2, <1>4, <1>5, <1>6, <1>7, <1>8, <1>9 DEF Next, Handler

-----------------------------------------------------------------------------
(***************************************************************************)
(* What the runs check.                                                    *)
(***************************************************************************)

\* The variables of Recall have their types; a recall stacks no more vectors than
\* there are committed captures.
THEOREM TypeCorrect == Spec => []TypeOK
<1>1. IndInv => TypeOK
  BY DEF IndInv
<1> QED
  BY <1>1, Invariance, PTL

\* Hits are distinct, in order of score, at most limit and never degenerate,
\* whatever is appended between the reads of the list.
THEOREM RankedHits == Spec => []HitsAreRanked
<1>1. IndInv => HitsAreRanked
  <2> SUFFICES ASSUME IndInv, NEW t \in Recalls, Answered(t)
               PROVE  WellRanked(t, hits[t])
    BY DEF HitsAreRanked, WellRanked
  <2> QED
    BY DEF IndInv, HandlerInv, RankInv
<1> QED
  BY <1>1, Invariance, PTL

\* A record the recall found is left out only for limit better ones, and
\* hydration drops no hit.
THEOREM KnownCompete == Spec => []KnownRecordsCompete
<1>1. IndInv => KnownRecordsCompete
  <2> SUFFICES ASSUME IndInv, NEW t \in Recalls, Answered(t)
               PROVE  hits[t] = ranked[t] /\ WellRanked(t, hits[t])
    BY DEF KnownRecordsCompete, WellRanked
  <2> QED
    BY DEF IndInv, HandlerInv, RankInv
<1> QED
  BY <1>1, Invariance, PTL

\* The index error: the list has a record more than the recall stacked, and knew.
LEMMA ErrorsRaceAppends ==
  ASSUME IndInv, NEW t \in Recalls, NumberAllFails(t)
  PROVE  known[t] # Elements(records) /\ size[t] <= limit[t]
<1>1. pc[t] = "arange" /\ Len(records) > size[t]
  BY DEF NumberAllFails
<1>2. Len(records) \in Nat /\ size[t] \in Nat /\ Len(records) \in 1..Len(records)
  BY <1>1, ListSize, StackFacts
<1>3. records[Len(records)] \in Elements(records)
  BY <1>2 DEF Elements
<1>4. \A i \in 1..size[t] : records[i] # records[Len(records)]
  BY <1>1, <1>2 DEF IndInv, ListInv
<1>5. records[Len(records)] \notin known[t]
  BY <1>1, <1>4, StackFacts
<1> QED
  BY <1>1, <1>3, <1>5 DEF IndInv, HandlerInv, KnownInv

\* A recall ends in a 500 only when an append raced it and its limit is as large as
\* the stack: no other step answers with one.
THEOREM FailuresRaceAppends == Spec => FailsOnlyForAnAppend
<1> DEFINE Step == \A t \in Recalls : code[t] # "500" /\ code'[t] = "500" =>
                     known[t] # Elements(records) /\ size[t] <= limit[t]
<1>1. IndInv /\ [Next]_vars => [Step]_vars
  <2> SUFFICES ASSUME IndInv, Next, NEW t \in Recalls, code[t] # "500", code'[t] = "500"
               PROVE  known[t] # Elements(records) /\ size[t] <= limit[t]
    OBVIOUS
  <2>1. ASSUME UNCHANGED code PROVE FALSE
    BY <2>1
  <2>2. ASSUME NEW u \in Recalls, NEW result, NEW ids, Answer(u, result, ids)
        PROVE  u = t /\ result = "500"
    BY <2>2 DEF Answer, IndInv, TypeOK
  <2>3. ASSUME NEW u \in Recalls, NEW n, Arrive(u, n) PROVE FALSE
    <3>1. Answer(u, "200", << >>) \/ UNCHANGED code
      BY <2>3 DEF Arrive
    <3> QED
      BY <2>1, <2>2, <3>1
  <2>4. ASSUME NEW u \in Recalls, Handler(u) PROVE NumberAllFails(t)
    <3>1. CASE EmbedQuery(u) \/ Stack(u) \/ SelectTop(u) \/ SelectAll(u) \/ NumberAll(u)
      BY <2>1, <3>1 DEF EmbedQuery, Stack, SelectTop, SelectAll, NumberAll
    <3>2. CASE EmbedQueryFails(u)
      BY <2>2, <3>2 DEF EmbedQueryFails
    <3>3. CASE NumberAllFails(u)
      BY <2>2, <3>3 DEF NumberAllFails
    <3>4. CASE Hydrate(u)
      BY <2>2, <3>4 DEF Hydrate
    <3> QED
      BY <2>4, <3>1, <3>2, <3>3, <3>4 DEF Handler
  <2>5. ASSUME (\E R, E : Commit(R, E)) \/ (\E c : AppendRecord(c)) \/ Crash \/ Restart
        PROVE  FALSE
    BY <2>1, <2>5 DEF Commit, AppendRecord, Crash, Restart, recallVars
  <2> QED
    BY <2>3, <2>4, <2>5, ErrorsRaceAppends DEF Next
<1> QED
  BY <1>1, Invariance, PTL DEF Spec, FailsOnlyForAnAppend

-----------------------------------------------------------------------------
(***************************************************************************)
(* A recall looks at one snapshot of the list: Recall implements           *)
(* AtomicRecall.                                                           *)
(***************************************************************************)
State == [t \in Recalls |-> Looking(t)]
Seen == [t \in Recalls |-> Stacked(t)]

\* A ranking of the stacked vectors is a best result from what was seen.
LEMMA SameBest ==
  /\ \A r : AtomicRecall!InSeq(r) = Elements(r)
  /\ \A t, S, r : AtomicRecall!Best(t, S, r) <=> Best(t, S, r)
<1>1. \A r : AtomicRecall!InSeq(r) = Elements(r)
  BY DEF AtomicRecall!InSeq, Elements
<1> QED
  BY <1>1 DEF AtomicRecall!Best, Best, AtomicRecall!NoScore, NegInf

\* What a recall has seen stays what it has seen while the list grows.
LEMMA SeenStays ==
  ASSUME IndInv, NEW t \in Recalls,
         records' = records \/ \E c \in Captures : records' = Append(records, c),
         pc'[t] = pc[t], size'[t] = size[t]
  PROVE  Looking(t)' = Looking(t) /\ Stacked(t)' = Stacked(t)
<1>1. Looking(t)' = Looking(t)
  BY DEF Looking
<1>2. CASE pc[t] \in {"compare", "arange", "hydrate"}
  <2>1. size[t] \in Nat /\ Len(records) \in Nat /\ size[t] <= Len(records)
    BY <1>2, ListSize DEF IndInv, TypeOK, HandlerInv, KnownInv
  <2>2. \A i \in 1..Len(records) : records'[i] = records[i]
    BY DEF IndInv, TypeOK
  <2>3. \A i \in 1..size[t] : records'[i] = records[i]
    BY <2>1, <2>2
  <2> QED
    BY <1>1, <1>2, <2>3 DEF Stacked
<1>3. CASE pc[t] \notin {"compare", "arange", "hydrate"}
  BY <1>1, <1>3 DEF Stacked
<1> QED
  BY <1>2, <1>3

\* Only the recall that moves is seen to move.
LEMMA OneMoves ==
  ASSUME IndInv, NEW t \in Recalls, UNCHANGED storeVars,
         \A u \in Recalls \ {t} : pc'[u] = pc[u] /\ size'[u] = size[u]
  PROVE  /\ State' = [State EXCEPT ![t] = Looking(t)']
         /\ Seen' = [Seen EXCEPT ![t] = Stacked(t)']
<1>1. \A u \in Recalls \ {t} : Looking(u)' = Looking(u) /\ Stacked(u)' = Stacked(u)
  BY SeenStays DEF storeVars
<1> QED
  BY <1>1 DEF State, Seen

\* Nothing is looked for yet.
LEMMA AtomicInit == Init => AtomicRecall!Init
<1> SUFFICES ASSUME Init PROVE AtomicRecall!Init
  OBVIOUS
<1>1. Elements(records) = {}
  BY DEF Init, Elements
<1>2. State = [t \in Recalls |-> "idle"] /\ Seen = [t \in Recalls |-> {}]
  BY DEF Init, State, Seen, Looking, Stacked
<1> QED
  BY <1>1, <1>2 DEF Init, AtomicRecall!Init, AtomicRecall!NoScore, NegInf, State, Seen

\* Captures store and record; a crash loses what was looked at, a restart records
\* all that was stored.
LEMMA AtomicStoreSteps ==
  ASSUME IndInv,
         \/ \E R \in SUBSET (Captures \ rows), E \in SUBSET (rows \ embedded) : Commit(R, E)
         \/ \E c \in Captures : AppendRecord(c)
         \/ Crash \/ Restart
  PROVE  [AtomicRecall!Next]_(AtomicRecall!vars)
<1> USE DEF AtomicRecall!Next, AtomicRecall!vars, AtomicRecall!world
<1>1. ASSUME UNCHANGED <<pc, size>>,
             records' = records \/ \E c \in Captures : records' = Append(records, c)
      PROVE  State' = State /\ Seen' = Seen
  BY <1>1, SeenStays DEF State, Seen
<1>3. ASSUME NEW R \in SUBSET (Captures \ rows), NEW E \in SUBSET (rows \ embedded), Commit(R, E)
      PROVE  AtomicRecall!Store(E) /\ E \in SUBSET Captures
  <2>1. State' = State /\ Seen' = Seen
    BY <1>1, <1>3 DEF Commit, recallVars
  <2>2. E \in SUBSET Captures
    BY DEF IndInv, TypeOK
  <2> QED
    BY <1>3, <2>1, <2>2 DEF Commit, recallVars, AtomicRecall!Store, State, Seen, Elements
<1>4. ASSUME NEW c \in Captures, AppendRecord(c) PROVE AtomicRecall!Record(c)
  <2>1. State' = State /\ Seen' = Seen
    BY <1>1, <1>4 DEF AppendRecord, recallVars
  <2>2. Elements(records)' = Elements(records) \cup {c}
    <3>1. records' = Append(records, c) /\ records \in Seq(Captures)
      BY <1>4 DEF AppendRecord, IndInv, TypeOK
    <3>2. /\ Len(records') = Len(records) + 1 /\ Len(records) \in Nat
          /\ records'[Len(records) + 1] = c
          /\ \A i \in 1..Len(records) : records'[i] = records[i]
      BY <3>1
    <3>3. \A i \in 1..Len(records') : i \in 1..Len(records) \/ i = Len(records) + 1
      BY <3>2
    <3>4. 1..Len(records) \subseteq 1..Len(records') /\ Len(records) + 1 \in 1..Len(records')
      BY <3>2
    <3> QED
      BY <3>2, <3>3, <3>4 DEF Elements
  <2> QED
    BY <1>4, <2>1, <2>2 DEF AppendRecord, recallVars, AtomicRecall!Record, State, Seen
<1>5. ASSUME Crash PROVE AtomicRecall!Crash
  <2>1. Elements(records)' = {}
    BY <1>5 DEF Crash, Elements
  <2>2. State' = [t \in Recalls |-> IF State[t] \in {"asked", "looked"} THEN "lost" ELSE State[t]]
    BY <1>5 DEF Crash, State, Looking, IndInv, TypeOK
  <2>3. Seen' = [t \in Recalls |-> {}]
    BY <1>5 DEF Crash, Seen, Stacked
  <2> QED
    BY <1>5, <2>1, <2>2, <2>3 DEF Crash, AtomicRecall!Crash, State, Seen
<1>6. ASSUME Restart PROVE AtomicRecall!Restart
  <2>1. Elements(records)' = embedded
    <3>1. records' \in SetToSeqs(embedded) /\ IsFiniteSet(embedded)
      BY <1>6, FS_Subset DEF Restart, IndInv, TypeOK, ListInv
    <3>2. /\ records' \in Seq(embedded)
          /\ \A x \in embedded : \E i \in 1..Len(records') : records'[i] = x
      BY <3>1, Enumerations
    <3> QED
      BY <3>2 DEF Elements
  <2>2. \A t \in Recalls : Looking(t)' = Looking(t) /\ Stacked(t)' = Stacked(t)
    <3>1. \A t \in Recalls : pc[t] \notin {"compare", "arange", "hydrate"}
      BY <1>6 DEF Restart, IndInv, HandlerInv, KnownInv, Running
    <3> QED
      BY <1>6, <3>1 DEF Restart, recallVars, Looking, Stacked
  <2>3. State' = State /\ Seen' = Seen
    BY <2>2 DEF State, Seen
  <2> QED
    BY <1>6, <2>1, <2>3 DEF Restart, recallVars, AtomicRecall!Restart, State, Seen
<1> QED
  BY <1>3, <1>4, <1>5, <1>6

\* A recall that ends has forgotten what it saw.
LEMMA AtomicReply ==
  ASSUME IndInv, NEW t \in Recalls, NEW result, NEW ids, Answer(t, result, ids),
         UNCHANGED <<storeVars, size>>
  PROVE  AtomicRecall!Reply(t, result, ids)
<1>1. /\ pc' = [pc EXCEPT ![t] = "done"] /\ UNCHANGED <<storeVars, size>>
      /\ code' = [code EXCEPT ![t] = result] /\ hits' = [hits EXCEPT ![t] = ids]
  BY DEF Answer, Goto
<1>2. pc'[t] = "done" /\ \A u \in Recalls \ {t} : pc'[u] = pc[u]
  BY <1>1 DEF IndInv, TypeOK
<1>3. Looking(t)' = "done" /\ Stacked(t)' = {}
  BY <1>2 DEF Looking, Stacked
<1>4. State' = [State EXCEPT ![t] = "done"] /\ Seen' = [Seen EXCEPT ![t] = {}]
  BY <1>1, <1>2, <1>3, OneMoves
<1> QED
  BY <1>1, <1>4 DEF AtomicRecall!Reply, State, Seen

\* A recall that only goes on.
LEMMA AtomicGoto ==
  ASSUME IndInv, NEW t \in Recalls, UNCHANGED storeVars,
         NEW label \in {"embed", "stack", "compare", "arange", "hydrate"}, Goto(t, label),
         \A u \in Recalls \ {t} : size'[u] = size[u]
  PROVE  /\ State' = [State EXCEPT ![t] =
                        IF label \in {"embed", "stack"} THEN "asked" ELSE "looked"]
         /\ Seen' = [Seen EXCEPT ![t] =
                       IF label \in {"embed", "stack"} THEN {} ELSE First(t)']
<1>1. pc'[t] = label /\ \A u \in Recalls \ {t} : pc'[u] = pc[u]
  BY DEF Goto, IndInv, TypeOK
<1>2. Looking(t)' = IF label \in {"embed", "stack"} THEN "asked" ELSE "looked"
  BY <1>1 DEF Looking
<1>3. Stacked(t)' = IF label \in {"embed", "stack"} THEN {} ELSE First(t)'
  BY <1>1 DEF Stacked, First
<1> QED
  BY <1>1, <1>2, <1>3, OneMoves

\* A request, and an embedding that fails or not.
LEMMA AtomicAsk ==
  ASSUME IndInv, NEW t \in Recalls
  PROVE  /\ \A n : Arrive(t, n) => AtomicRecall!Ask(t, n)
         /\ EmbedQuery(t) => UNCHANGED AtomicRecall!vars
         /\ EmbedQueryFails(t) => AtomicRecall!Refuse(t)
<1> USE DEF AtomicRecall!world
<1>1. /\ State[t] = Looking(t) /\ Seen[t] = Stacked(t)
      /\ State \in [Recalls -> {"idle", "asked", "looked", "done", "lost"}]
      /\ Seen = [u \in Recalls |-> Seen[u]]
  BY DEF State, Seen, Looking, IndInv, TypeOK
<1>2. pc[t] \in {"idle", "embed"} => Looking(t) = (IF pc[t] = "idle" THEN "idle" ELSE "asked") /\ Stacked(t) = {}
  BY DEF Looking, Stacked
<1>3. ASSUME NEW n, Arrive(t, n) PROVE AtomicRecall!Ask(t, n)
  <2>1. /\ up /\ pc[t] = "idle" /\ limit' = [limit EXCEPT ![t] = n]
        /\ UNCHANGED <<storeVars, size>>
    BY <1>3 DEF Arrive
  <2>2. CASE records = << >>
    <3>1. Answer(t, "200", << >>)
      BY <1>3, <2>2 DEF Arrive
    <3>2. AtomicRecall!Reply(t, "200", << >>)
      BY <2>1, <3>1, AtomicReply
    <3>3. Elements(records) = {}
      BY <2>2 DEF Elements
    <3> QED
      BY <1>1, <1>2, <2>1, <3>2, <3>3 DEF AtomicRecall!Ask, storeVars, State, Elements
  <2>3. CASE records # << >>
    <3>1. Goto(t, "embed") /\ UNCHANGED <<hits, code>>
      BY <1>3, <2>3 DEF Arrive
    <3>2. State' = [State EXCEPT ![t] = "asked"] /\ Seen' = [Seen EXCEPT ![t] = {}]
      BY <2>1, <3>1, AtomicGoto
    <3>3. Seen' = Seen
      BY <1>1, <1>2, <2>1, <3>2
    <3>4. Elements(records) # {}
      <4>1. Len(records) \in Nat \ {0}
        BY <2>3, EmptySeq DEF IndInv, TypeOK
      <4>2. 1 \in 1..Len(records)
        BY <4>1
      <4> QED
        BY <4>2 DEF Elements
    <3>5. State[t] = "idle" /\ Elements(records)' = Elements(records)
      BY <1>1, <1>2, <2>1 DEF storeVars, Elements
    <3> QED
      BY <2>1, <3>1, <3>2, <3>3, <3>4, <3>5 DEF AtomicRecall!Ask, storeVars, State, Seen
  <2> QED
    BY <2>2, <2>3
<1>4. ASSUME EmbedQuery(t) PROVE UNCHANGED AtomicRecall!vars
  <2>1. /\ pc[t] = "embed" /\ Goto(t, "stack")
        /\ UNCHANGED <<storeVars, limit, size, hits, code>>
    BY <1>4 DEF EmbedQuery
  <2>2. State' = [State EXCEPT ![t] = "asked"] /\ Seen' = [Seen EXCEPT ![t] = {}]
    BY <2>1, AtomicGoto
  <2>3. State' = State /\ Seen' = Seen
    BY <1>1, <1>2, <2>1, <2>2
  <2> QED
    BY <2>1, <2>3 DEF AtomicRecall!vars, storeVars, State, Seen, Elements
<1>5. ASSUME EmbedQueryFails(t) PROVE AtomicRecall!Refuse(t)
  <2>1. /\ pc[t] = "embed" /\ Answer(t, "503", << >>)
        /\ UNCHANGED <<storeVars, limit, size>>
    BY <1>5 DEF EmbedQueryFails
  <2>2. AtomicRecall!Reply(t, "503", << >>)
    BY <2>1, AtomicReply
  <2> QED
    BY <1>1, <1>2, <2>1, <2>2 DEF AtomicRecall!Refuse, storeVars, State, Elements
<1> QED
  BY <1>3, <1>4, <1>5

\* Stacking is looking; ranking what was stacked is nothing to be seen.
LEMMA AtomicLook ==
  ASSUME IndInv, NEW t \in Recalls
  PROVE  /\ Stack(t) => AtomicRecall!Look(t)
         /\ SelectTop(t) \/ SelectAll(t) \/ NumberAll(t) => UNCHANGED AtomicRecall!vars
<1> USE DEF AtomicRecall!world
<1>1. /\ State[t] = Looking(t) /\ Seen[t] = Stacked(t)
      /\ State = [u \in Recalls |-> State[u]] /\ Seen = [u \in Recalls |-> Seen[u]]
  BY DEF State, Seen
<1>2. ASSUME Stack(t) PROVE AtomicRecall!Look(t)
  <2>1. /\ pc[t] = "stack" /\ size' = [size EXCEPT ![t] = Len(records)]
        /\ UNCHANGED <<storeVars, limit, hits, code>>
        /\ Goto(t, "compare") \/ Goto(t, "hydrate")
    BY <1>2 DEF Stack
  <2>2. size'[t] = Len(records) /\ \A u \in Recalls \ {t} : size'[u] = size[u]
    BY <2>1 DEF IndInv, TypeOK
  <2>3. First(t)' = Elements(records)
    BY <2>1, <2>2 DEF First, Elements, storeVars
  <2>4. State' = [State EXCEPT ![t] = "looked"] /\ Seen' = [Seen EXCEPT ![t] = Elements(records)]
    <3>1. CASE Goto(t, "compare")
      BY <2>1, <2>2, <2>3, <3>1, AtomicGoto
    <3>2. CASE Goto(t, "hydrate")
      BY <2>1, <2>2, <2>3, <3>2, AtomicGoto
    <3> QED
      BY <2>1, <3>1, <3>2
  <2>5. Looking(t) = "asked"
    BY <2>1 DEF Looking
  <2> QED
    BY <1>1, <2>1, <2>4, <2>5 DEF AtomicRecall!Look, storeVars, State, Seen, Elements
<1>3. ASSUME SelectTop(t) \/ SelectAll(t) \/ NumberAll(t) PROVE UNCHANGED AtomicRecall!vars
  <2>1. /\ pc[t] \in {"compare", "arange"}
        /\ Goto(t, "arange") \/ Goto(t, "hydrate")
        /\ UNCHANGED <<storeVars, limit, size, hits, code>>
    BY <1>3 DEF SelectTop, SelectAll, NumberAll, Rank
  <2>2. First(t)' = First(t)
    BY <2>1 DEF First, storeVars
  <2>3. State' = [State EXCEPT ![t] = "looked"] /\ Seen' = [Seen EXCEPT ![t] = First(t)]
    <3>1. CASE Goto(t, "arange")
      BY <2>1, <2>2, <3>1, AtomicGoto
    <3>2. CASE Goto(t, "hydrate")
      BY <2>1, <2>2, <3>2, AtomicGoto
    <3> QED
      BY <2>1, <3>1, <3>2
  <2>4. Looking(t) = "looked" /\ Stacked(t) = First(t)
    BY <2>1 DEF Looking, Stacked, First
  <2>5. State' = State /\ Seen' = Seen
    BY <1>1, <2>3, <2>4
  <2> QED
    BY <2>1, <2>5 DEF AtomicRecall!vars, storeVars, State, Seen, Elements
<1> QED
  BY <1>2, <1>3

\* The answer is one of the best results from what was stacked.
LEMMA AtomicAnswer ==
  ASSUME IndInv, NEW t \in Recalls, Hydrate(t)
  PROVE  AtomicRecall!Answer(t)
<1> USE DEF AtomicRecall!world
<1>1. /\ pc[t] = "hydrate" /\ UNCHANGED <<storeVars, limit, size>>
      /\ \E ids : Answer(t, "200", ids)
  BY DEF Hydrate
<1>2. PICK ids : Answer(t, "200", ids)
  BY <1>1
<1>3. AtomicRecall!Reply(t, "200", ids)
  BY <1>1, <1>2, AtomicReply
<1>4. ids = ranked[t]
  <2>1. hits'[t] = ids
    BY <1>2 DEF Answer, IndInv, TypeOK
  <2> QED
    BY <2>1, HydrateStep
<1>5. /\ ids \in Seq(Captures) /\ Best(t, First(t), ids) /\ Elements(ids) \subseteq First(t)
      /\ limit[t] \in Nat
  BY <1>1, <1>4 DEF IndInv, TypeOK, HandlerInv, RankInv
<1>6. ids \in UNION {[1..n -> First(t)] : n \in 0..limit[t]}
  <2>1. Len(ids) \in 0..limit[t]
    BY <1>5 DEF Best
  <2>2. ids \in [1..Len(ids) -> First(t)]
    BY <1>5 DEF Elements
  <2> QED
    BY <2>1, <2>2
<1>7. State[t] = "looked" /\ Seen[t] = First(t)
  BY <1>1 DEF State, Seen, Looking, Stacked, First
<1> QED
  BY <1>1, <1>3, <1>5, <1>6, <1>7, SameBest DEF AtomicRecall!Answer, storeVars, State, Seen, Elements

\* A longer list than the stack, all of which are hits.
LEMMA AtomicFail ==
  ASSUME IndInv, NEW t \in Recalls, NumberAllFails(t)
  PROVE  AtomicRecall!Fail(t)
<1> USE DEF AtomicRecall!world
<1>1. /\ pc[t] = "arange" /\ Len(records) > size[t] /\ UNCHANGED <<storeVars, limit, size>>
      /\ Answer(t, "500", << >>)
  BY DEF NumberAllFails
<1>2. AtomicRecall!Reply(t, "500", << >>)
  BY <1>1, AtomicReply
<1>3. /\ size[t] \in Nat /\ Len(records) \in Nat
      /\ size[t] <= limit[t] /\ \A i \in 1..size[t] : ScoreAt(t, i) # NegInf
      /\ limit[t] \in Nat
  BY <1>1, ListSize, StackFacts DEF IndInv, HandlerInv, KnownInv
<1>4. First(t) \subseteq Elements(records) /\ First(t) # Elements(records)
  <2>1. 1..size[t] \subseteq 1..Len(records) /\ Len(records) \in 1..Len(records)
    BY <1>1, <1>3
  <2>2. \A i \in 1..size[t] : i \in 1..Len(records) /\ i # Len(records)
    BY <1>1, <1>3
  <2>3. \A i \in 1..size[t] : records[i] # records[Len(records)]
    BY <2>1, <2>2 DEF IndInv, ListInv
  <2>4. records[Len(records)] \in Elements(records) /\ records[Len(records)] \notin First(t)
    BY <2>1, <2>3 DEF Elements, First
  <2> QED
    BY <2>1, <2>4 DEF Elements, First
<1>5. Cardinality(First(t)) <= limit[t]
  <2>1. IsFiniteSet(1..size[t]) /\ Cardinality(1..size[t]) = size[t]
    BY <1>3, IntervalSize
  <2>2. IsFiniteSet(First(t)) /\ Cardinality(First(t)) <= size[t]
    <3> DEFINE f == [i \in 1..size[t] |-> records[i]]
    <3>1. f \in Surjection(1..size[t], First(t))
      BY DEF First, Surjection
    <3> HIDE DEF f
    <3>2. IsFiniteSet(First(t)) /\ Cardinality(First(t)) <= Cardinality(1..size[t])
      BY <2>1, <3>1, FS_Surjection
    <3> QED
      BY <2>1, <3>2
  <2>3. Cardinality(First(t)) \in Nat
    BY <2>2, FS_CardinalityType
  <2> QED
    BY <1>3, <2>2, <2>3
<1>6. \A c \in First(t) : score[t][c] # NegInf
  BY <1>3 DEF First, ScoreAt
<1>7. State[t] = "looked" /\ Seen[t] = First(t)
  BY <1>1 DEF State, Seen, Looking, Stacked, First
<1>8. AtomicRecall!Cardinality(Seen[t]) <= limit[t]
  <2>1. \A S : AtomicRecall!Cardinality(S) = Cardinality(S)
    BY DEF AtomicRecall!Cardinality, Cardinality
  <2> QED
    BY <1>5, <1>7, <2>1
<1> QED
  BY <1>1, <1>2, <1>4, <1>6, <1>7, <1>8 DEF AtomicRecall!Fail, AtomicRecall!NoScore, NegInf,
     storeVars, State, Seen, Elements

LEMMA AtomicSteps == IndInv /\ [Next]_vars => [AtomicRecall!Next]_(AtomicRecall!vars)
<1> SUFFICES ASSUME IndInv, [Next]_vars PROVE [AtomicRecall!Next]_(AtomicRecall!vars)
  OBVIOUS
<1>1. ASSUME NEW t \in Recalls, NEW n \in 1..MaxLimit, Arrive(t, n) PROVE AtomicRecall!Next
  BY <1>1, AtomicAsk DEF AtomicRecall!Next
<1>2. ASSUME NEW t \in Recalls, Handler(t) PROVE [AtomicRecall!Next]_(AtomicRecall!vars)
  BY <1>2, AtomicAsk, AtomicLook, AtomicAnswer, AtomicFail DEF AtomicRecall!Next, Handler
<1>3. CASE UNCHANGED vars
  BY <1>3 DEF vars, storeVars, recallVars, AtomicRecall!vars, AtomicRecall!world,
     Looking, Stacked, Elements
<1> QED
  BY <1>1, <1>2, <1>3, AtomicStoreSteps DEF Next

\* ImplementsAtomicRecall: recalls are linearizable.  Each answers with the best of
\* one snapshot of the list, for any number of captures and recalls and however
\* they are interleaved, and with a 500 only when all it saw would be hits and the
\* list has grown since.
THEOREM Refinement == Spec => ImplementsAtomicRecall
  BY AtomicInit, AtomicSteps, Invariance, PTL DEF Spec, ImplementsAtomicRecall, AtomicRecall!Spec
=============================================================================
