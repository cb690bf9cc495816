---------------------------- MODULE ListingProofs ----------------------------
(***************************************************************************)
(* Paging by offset, for any number of captures and any page size.         *)
(***************************************************************************)
EXTENDS Listing, FiniteSetTheorems, SequenceTheorems, TLAPS

\* The open transaction holds one row, if any; a client goes on after full pages
\* only, so that its offset stays within the rows there may be.
StoreInv ==
  /\ open = {} \/ \E c \in rows : open = {c}
  /\ paging = "no" => offset = 0 /\ listed = << >>
  /\ paging = "yes" => offset <= MaxCaptures

\* A row that was there when paging began has been listed or is still ahead, as
\* long as no row was taken away.
AheadInv ==
  ~withdrawn => \A c \in before :
    /\ c \in rows
    /\ paging = "yes" => c \in ToSet(listed) \/ Rank(c) > offset
    /\ paging = "done" => c \in ToSet(listed)

\* As long as no row was inserted, what is ahead is older than all that was listed.
OlderInv ==
  ~inserted =>
    /\ IsInjective(listed)
    /\ \A c \in ToSet(listed), d \in rows : Rank(d) > offset => d < c

IndInv == TypeOK /\ StoreInv /\ AheadInv /\ OlderInv

-----------------------------------------------------------------------------
(***************************************************************************)
(* Ranks.                                                                  *)
(***************************************************************************)

\* There are at most MaxCaptures rows.
LEMMA RowsAreFew ==
  ASSUME rows \subseteq Captures
  PROVE  /\ IsFiniteSet(rows)
         /\ Cardinality(rows) \in 0..MaxCaptures
<1>1. IsFiniteSet(Captures)
  BY MaxCapturesAssumption, FS_Interval DEF Captures
<1>2. Cardinality(Captures) = MaxCaptures
  BY MaxCapturesAssumption, FS_Interval DEF Captures
<1>3. IsFiniteSet(rows) /\ Cardinality(rows) <= Cardinality(Captures)
  BY <1>1, FS_Subset
<1>4. Cardinality(rows) \in Nat
  BY <1>3, FS_CardinalityType
<1> QED
  BY <1>2, <1>3, <1>4, MaxCapturesAssumption

\* Older rows have higher ranks.
LEMMA RankOrder ==
  ASSUME rows \subseteq Captures
  PROVE  /\ \A c \in rows : Rank(c) \in 1..Cardinality(rows)
         /\ \A c, d \in rows : c < d => Rank(d) < Rank(c)
<1>1. IsFiniteSet(rows) /\ Cardinality(rows) \in Nat
  BY RowsAreFew, MaxCapturesAssumption
<1>2. \A c \in rows : c \in Int
  BY MaxCapturesAssumption DEF Captures
<1>3. ASSUME NEW c \in rows
      PROVE  IsFiniteSet({d \in rows : d >= c}) /\ Rank(c) \in 1..Cardinality(rows)
  <2> DEFINE above == {d \in rows : d >= c}
  <2>1. above \subseteq rows /\ c \in above
    BY <1>2
  <2>2. IsFiniteSet(above) /\ Cardinality(above) <= Cardinality(rows)
    BY <1>1, <2>1, FS_Subset
  <2>3. Cardinality(above) \in Nat
    BY <2>2, FS_CardinalityType
  <2>4. Cardinality(above) # 0
    BY <2>1, <2>2, FS_EmptySet
  <2> QED
    BY <1>1, <2>2, <2>3, <2>4 DEF Rank
<1>4. ASSUME NEW c \in rows, NEW d \in rows, c < d PROVE Rank(d) < Rank(c)
  <2> DEFINE aboveC == {e \in rows : e >= c}
             aboveD == {e \in rows : e >= d}
  <2>1. aboveD \subseteq aboveC /\ c \in aboveC /\ c \notin aboveD
    BY <1>2, <1>4
  <2>2. IsFiniteSet(aboveC) /\ Cardinality(aboveC) \in Nat /\ Cardinality(aboveD) \in Nat
    BY <1>3 DEF Rank
  <2> HIDE DEF aboveC, aboveD
  <2>3. Cardinality(aboveD) <= Cardinality(aboveC)
    BY <2>1, <2>2, FS_Subset
  <2>4. Cardinality(aboveD) # Cardinality(aboveC)
    BY <2>1, <2>2, FS_Subset
  <2>5. Cardinality(aboveD) < Cardinality(aboveC)
    BY <2>2, <2>3, <2>4
  <2> QED
    BY <2>5 DEF Rank, aboveC, aboveD
<1> QED
  BY <1>3, <1>4

\* Every rank is that of one row.
LEMMA RankIsOneToOne ==
  ASSUME rows \subseteq Captures
  PROVE  /\ \A c \in rows : Newest(Rank(c)) = c
         /\ \A k \in 1..Cardinality(rows) : Newest(k) \in rows /\ Rank(Newest(k)) = k
<1>1. \A c, d \in rows : Rank(c) = Rank(d) => c = d
  <2> SUFFICES ASSUME NEW c \in rows, NEW d \in rows, Rank(c) = Rank(d), c # d
               PROVE  FALSE
    OBVIOUS
  <2>1. c < d \/ d < c
    BY MaxCapturesAssumption DEF Captures
  <2>2. Rank(c) \in Nat /\ Rank(d) \in Nat
    BY RankOrder, RowsAreFew
  <2> QED
    BY <2>1, <2>2, RankOrder
<1>2. \A k \in 1..Cardinality(rows) : \E c \in rows : Rank(c) = k
  <2> DEFINE rank == [c \in rows |-> Rank(c)]
             n == Cardinality(rows)
  <2>1. n \in Nat /\ IsFiniteSet(rows)
    BY RowsAreFew
  <2>2. rank \in [rows -> 1..n]
    BY RankOrder
  <2>3. rank \in Injection(rows, 1..n)
    BY <1>1, <2>2 DEF Injection, IsInjective
  <2>4. IsFiniteSet(1..n)
    BY <2>1, FS_Interval
  <2>5. Cardinality(1..n) = n
    BY <2>1, FS_Interval
  <2> HIDE DEF rank
  <2>6. rank \in Surjection(rows, 1..n)
    BY <2>1, <2>3, <2>4, <2>5, FS_Injection
  <2>7. \A k \in 1..n : \E c \in rows : rank[c] = k
    BY <2>6 DEF Surjection
  <2> QED
    BY <2>7 DEF rank
<1>3. \A c \in rows : Newest(Rank(c)) = c
  BY <1>1 DEF Newest
<1> QED
  BY <1>2, <1>3

\* Among fewer rows a rank is no higher.
LEMMA FewerRowsLowerRanks ==
  ASSUME NEW S, NEW T, T \subseteq Captures, S \subseteq T, NEW c
  PROVE  LET rankIn(R) == Cardinality({d \in R : d >= c})
         IN  rankIn(S) \in Nat /\ rankIn(T) \in Nat /\ rankIn(S) <= rankIn(T)
<1> DEFINE A == {d \in S : d >= c}
           B == {d \in T : d >= c}
<1>1. IsFiniteSet(B)
  <2>1. IsFiniteSet(Captures)
    BY MaxCapturesAssumption, FS_Interval DEF Captures
  <2>2. B \subseteq Captures
    OBVIOUS
  <2> QED
    BY <2>1, <2>2, FS_Subset
<1>2. A \subseteq B
  OBVIOUS
<1> HIDE DEF A, B
<1>3. IsFiniteSet(A) /\ Cardinality(A) <= Cardinality(B)
  BY <1>1, <1>2, FS_Subset
<1>4. Cardinality(A) \in Nat /\ Cardinality(B) \in Nat
  BY <1>1, <1>3, FS_CardinalityType
<1> QED
  BY <1>3, <1>4 DEF A, B

\* As rows are added a row never comes closer to the front, and as rows are
\* withdrawn it never moves away.
LEMMA RanksMove ==
  ASSUME rows \subseteq Captures, rows' \subseteq Captures, NEW c
  PROVE  /\ rows \subseteq rows' => Rank(c) <= Rank(c)' /\ Rank(c) \in Nat /\ Rank(c)' \in Nat
         /\ rows' \subseteq rows => Rank(c)' <= Rank(c) /\ Rank(c) \in Nat /\ Rank(c)' \in Nat
<1>1. rows \subseteq rows' => Rank(c) <= Rank(c)' /\ Rank(c) \in Nat /\ Rank(c)' \in Nat
  BY FewerRowsLowerRanks DEF Rank
<1>2. rows' \subseteq rows => Rank(c)' <= Rank(c) /\ Rank(c) \in Nat /\ Rank(c)' \in Nat
  BY FewerRowsLowerRanks DEF Rank
<1> QED
  BY <1>1, <1>2

\* A page holds the rows ranked after the offset, as many as fit, in order.
LEMMA PageFacts ==
  ASSUME rows \subseteq Captures, NEW n \in Nat \ {0}, NEW m \in Nat
  PROVE  /\ Page(n, m) \in Seq(Captures)
         /\ Len(Page(n, m)) \in 0..n
         /\ \A k \in 1..Len(Page(n, m)) : Page(n, m)[k] \in rows /\ Rank(Page(n, m)[k]) = m + k
         /\ \A c \in rows : m < Rank(c) /\ Rank(c) <= m + n =>
              \E k \in 1..Len(Page(n, m)) : Page(n, m)[k] = c
         /\ IF Len(Page(n, m)) < n THEN Cardinality(rows) < m + n ELSE m + n <= Cardinality(rows)
<1> DEFINE all == Cardinality(rows)
           room == Smaller(n, all - m)
           len == IF room < 0 THEN 0 ELSE room
           page == [k \in 1..len |-> Newest(m + k)]
<1>1. all \in Nat
  BY RowsAreFew, MaxCapturesAssumption
<1>2. len \in 0..n /\ 1..room = 1..len /\ (len # 0 => m + len <= all)
  BY <1>1 DEF Smaller
<1>3. IF len < n THEN all < m + n ELSE m + n <= all
  BY <1>1 DEF Smaller
<1>4. Page(n, m) = page
  BY <1>2 DEF Page
<1>5. \A k \in 1..len : m + k \in 1..all
  BY <1>1, <1>2
<1>6. \A k \in 1..len : Newest(m + k) \in rows /\ Rank(Newest(m + k)) = m + k
  BY <1>5, RankIsOneToOne
<1>7. page \in Seq(Captures) /\ Len(page) = len
  BY <1>2, <1>6
<1>8. ASSUME NEW c \in rows, m < Rank(c), Rank(c) <= m + n
      PROVE  \E k \in 1..len : Newest(m + k) = c
  <2>1. Rank(c) \in 1..all
    BY RankOrder
  <2>2. Rank(c) - m \in 1..len /\ m + (Rank(c) - m) = Rank(c)
    BY <1>1, <1>3, <1>8, <2>1 DEF Smaller
  <2>3. Newest(m + (Rank(c) - m)) = c
    BY <2>2, RankIsOneToOne
  <2> QED
    BY <2>2, <2>3
<1> HIDE DEF all, room, len
<1>9. \A k \in 1..len : page[k] = Newest(m + k)
  OBVIOUS
<1> HIDE DEF page
<1> QED
  BY <1>2, <1>3, <1>4, <1>6, <1>7, <1>8, <1>9 DEF all

-----------------------------------------------------------------------------
(***************************************************************************)
(* The invariant is inductive.                                             *)
(***************************************************************************)

\* Nothing has been captured.
LEMMA InitInvariant == Init => IndInv
<1> SUFFICES ASSUME Init PROVE IndInv
  OBVIOUS
<1>1. Cardinality({}) = 0
  BY FS_EmptySet
<1>2. << >> \in Seq(Captures) /\ Len(<< >>) = 0
  BY EmptySeq
<1>3. limit \in Limits /\ 0 \in 0..MaxCaptures + limit /\ 0 \in 0..MaxCaptures
  BY MaxCapturesAssumption, LimitsAssumption DEF Init
<1>4. /\ open = {} /\ rows = {} /\ pending = {} /\ before = {} /\ listed = << >>
      /\ extracted = 0 /\ offset = 0 /\ paging = "no"
      /\ inserted = FALSE /\ withdrawn = FALSE
  BY DEF Init
<1>5. TypeOK
  <2>1. inserted \in BOOLEAN /\ withdrawn \in BOOLEAN
    BY <1>4
  <2>2. /\ pending \subseteq 1..extracted /\ rows \subseteq 1..extracted
        /\ open \subseteq rows /\ Cardinality(open) <= 1 /\ before \subseteq Captures
    BY <1>1, <1>4
  <2>3. extracted \in 0..MaxCaptures /\ offset \in 0..MaxCaptures + limit
    BY <1>3, <1>4
  <2> QED
    BY <1>2, <1>3, <1>4, <2>1, <2>2, <2>3 DEF TypeOK
<1>6. StoreInv /\ AheadInv
  BY <1>4, MaxCapturesAssumption DEF StoreInv, AheadInv
<1>7. OlderInv
  BY <1>2, <1>4 DEF OlderInv, IsInjective, ToSet
<1> QED
  BY <1>5, <1>6, <1>7 DEF IndInv

\* Rows are captures made.
LEMMA RowTypes ==
  ASSUME IndInv
  PROVE  /\ rows \subseteq Captures
         /\ limit \in Nat \ {0} /\ offset \in Nat
         /\ Len(listed) \in Nat /\ listed \in Seq(Captures)
  BY MaxCapturesAssumption, LimitsAssumption DEF IndInv, TypeOK, Captures

\* The handlers of captures: rows are added, one at a time, or withdrawn.
LEMMA StorageStep ==
  ASSUME IndInv, UNCHANGED client, TypeOK',
         open' = {} \/ \E c \in rows' : open' = {c},
         \/ rows' = rows /\ UNCHANGED <<inserted, withdrawn>>
         \/ rows \subseteq rows' /\ inserted' /\ UNCHANGED withdrawn
         \/ rows' \subseteq rows /\ withdrawn' /\ UNCHANGED inserted
  PROVE  IndInv'
<1>1. rows \subseteq Captures /\ rows' \subseteq Captures
  BY RowTypes, MaxCapturesAssumption DEF TypeOK, Captures
<1>2. UNCHANGED <<paging, limit, offset, listed, before>>
  BY DEF client
<1>3. StoreInv'
  BY <1>2 DEF IndInv, StoreInv
<1>4. AheadInv'
  <2> SUFFICES ASSUME ~withdrawn', NEW c \in before
               PROVE  /\ c \in rows'
                      /\ paging = "yes" => c \in ToSet(listed) \/ Rank(c)' > offset
                      /\ paging = "done" => c \in ToSet(listed)
    BY <1>2 DEF AheadInv, ToSet
  <2>1. rows \subseteq rows' /\ ~withdrawn
    OBVIOUS
  <2>2. /\ c \in rows
        /\ paging = "yes" => c \in ToSet(listed) \/ Rank(c) > offset
        /\ paging = "done" => c \in ToSet(listed)
    BY <2>1 DEF IndInv, AheadInv
  <2>3. Rank(c) <= Rank(c)' /\ Rank(c) \in Nat /\ Rank(c)' \in Nat
    BY <1>1, <2>1, RanksMove
  <2> QED
    BY <2>1, <2>2, <2>3, RowTypes
<1>5. OlderInv'
  <2> SUFFICES ASSUME ~inserted'
               PROVE  /\ IsInjective(listed)
                      /\ \A c \in ToSet(listed), d \in rows' : Rank(d)' > offset => d < c
    BY <1>2 DEF OlderInv, ToSet
  <2>1. rows' \subseteq rows /\ ~inserted
    OBVIOUS
  <2>2. ASSUME NEW d \in rows' PROVE Rank(d)' <= Rank(d) /\ Rank(d)' \in Nat /\ Rank(d) \in Nat
    BY <1>1, <2>1, RanksMove
  <2> QED
    BY <2>1, <2>2, RowTypes DEF IndInv, OlderInv
<1> QED
  BY <1>3, <1>4, <1>5 DEF IndInv

\* A client that asks for a page: listing it keeps the order and misses nothing.
LEMMA PageStep == ASSUME IndInv, ListCaptures PROVE IndInv'
<1> DEFINE page == Page(limit, offset)
           n == Len(listed)
           len == Len(page)
<1>1. /\ UNCHANGED <<extracted, pending, rows, open, limit, before, inserted, withdrawn>>
      /\ paging = "yes" /\ listed' = listed \o page /\ offset' = offset + limit
      /\ paging' = IF len < limit THEN "done" ELSE "yes"
  BY DEF ListCaptures, storage
<1>2. /\ TypeOK /\ StoreInv /\ AheadInv /\ OlderInv
      /\ rows \subseteq Captures /\ limit \in Nat \ {0} /\ offset \in Nat
      /\ n \in Nat /\ listed \in Seq(Captures)
  BY RowTypes DEF IndInv
<1>3. /\ page \in Seq(Captures) /\ len \in 0..limit
      /\ \A k \in 1..len : page[k] \in rows /\ Rank(page[k]) = offset + k
      /\ \A c \in rows : offset < Rank(c) /\ Rank(c) <= offset + limit =>
           \E k \in 1..len : page[k] = c
      /\ IF len < limit THEN Cardinality(rows) < offset + limit
         ELSE offset + limit <= Cardinality(rows)
  BY <1>2, PageFacts
<1>4. /\ Cardinality(rows) \in 0..MaxCaptures
      /\ \A c \in rows : Rank(c) \in 1..Cardinality(rows)
      /\ \A c, d \in rows : c < d => Rank(d) < Rank(c)
  BY <1>2, RowsAreFew, RankOrder
<1>5. \A c \in rows : Rank(c)' = Rank(c)
  BY <1>1 DEF Rank
<1> HIDE DEF page
<1>6. /\ listed' \in Seq(Captures) /\ Len(listed') = n + len
      /\ \A i \in 1..n : listed'[i] = listed[i]
      /\ \A i \in 1..len : listed'[n + i] = page[i]
  BY <1>1, <1>2, <1>3
<1>7. /\ \A i \in DOMAIN listed' : i \in 1..n \/ (i > n /\ i - n \in 1..len /\ listed'[i] = page[i - n])
      /\ \A c \in ToSet(listed) : c \in ToSet(listed')
      /\ \A k \in 1..len : page[k] \in ToSet(listed')
  <2>1. DOMAIN listed' = 1..(n + len) /\ DOMAIN listed = 1..n
    BY <1>2, <1>6
  <2>2. ASSUME NEW i \in 1..(n + len), i \notin 1..n
        PROVE  i > n /\ i - n \in 1..len /\ listed'[i] = page[i - n]
    <3>1. i > n /\ i - n \in 1..len /\ n + (i - n) = i
      BY <1>2, <1>3, <2>2
    <3> QED
      BY <1>6, <3>1
  <2>3. ASSUME NEW k \in 1..len PROVE page[k] \in ToSet(listed')
    <3>1. n + k \in 1..(n + len)
      BY <1>2, <1>3
    <3> QED
      BY <1>6, <2>1, <3>1 DEF ToSet
  <2>4. ASSUME NEW c \in ToSet(listed) PROVE c \in ToSet(listed')
    <3>1. PICK i \in 1..n : c = listed[i]
      BY <2>1 DEF ToSet
    <3>2. i \in 1..(n + len)
      BY <1>2, <1>3
    <3> QED
      BY <1>6, <2>1, <3>1, <3>2 DEF ToSet
  <2> QED
    BY <2>1, <2>2, <2>3, <2>4
<1> HIDE DEF n, len
<1>8. TypeOK'
  <2>1. offset + limit \in 0..MaxCaptures + limit
    BY <1>1, <1>2, MaxCapturesAssumption DEF StoreInv
  <2> QED
    BY <1>1, <1>2, <1>6, <2>1 DEF TypeOK
<1>9. StoreInv'
  <2>1. paging' = "yes" => offset + limit <= MaxCaptures
    BY <1>1, <1>2, <1>3, <1>4, MaxCapturesAssumption
  <2>2. (open = {} \/ \E c \in rows : open = {c})'
    BY <1>1, <1>2 DEF StoreInv
  <2>3. paging' # "no"
    BY <1>1
  <2> QED
    BY <1>1, <2>1, <2>2, <2>3 DEF StoreInv
<1>10. AheadInv'
  <2> SUFFICES ASSUME ~withdrawn, NEW c \in before
               PROVE  /\ c \in rows
                      /\ paging' = "yes" => c \in ToSet(listed') \/ Rank(c) > offset + limit
                      /\ paging' = "done" => c \in ToSet(listed')
    BY <1>1, <1>2, <1>5 DEF AheadInv
  <2>1. c \in rows /\ (c \in ToSet(listed) \/ Rank(c) > offset)
    BY <1>1, <1>2 DEF AheadInv
  <2>2. c \in ToSet(listed') \/ Rank(c) > offset + limit
    BY <1>2, <1>3, <1>4, <1>7, <2>1
  <2>3. paging' = "done" => Rank(c) < offset + limit
    BY <1>1, <1>2, <1>3, <1>4, <2>1
  <2>4. Rank(c) \in Nat
    BY <1>4, <2>1
  <2> QED
    BY <1>2, <2>1, <2>2, <2>3, <2>4
<1>11. OlderInv'
  <2> SUFFICES ASSUME ~inserted
               PROVE  /\ IsInjective(listed')
                      /\ \A c \in ToSet(listed'), d \in rows :
                           Rank(d) > offset + limit => d < c
    BY <1>1, <1>5 DEF OlderInv
  <2>1. /\ IsInjective(listed)
        /\ \A c \in ToSet(listed), d \in rows : Rank(d) > offset => d < c
    BY <1>2 DEF OlderInv
  <2>2. \A c \in rows : c \in Nat /\ Rank(c) \in Nat
    BY <1>2, <1>4, MaxCapturesAssumption DEF Captures
  <2>3. \A i \in 1..n, k \in 1..len : page[k] < listed[i]
    BY <1>2, <1>3, <2>1 DEF ToSet, n
  <2>4. ASSUME NEW i \in DOMAIN listed', NEW j \in DOMAIN listed', listed'[i] = listed'[j]
        PROVE  i = j
    <3>1. CASE i \in 1..n /\ j \in 1..n
      BY <1>2, <1>6, <2>1, <2>4, <3>1 DEF IsInjective, n
    <3>2. ASSUME i \in 1..n, j \notin 1..n PROVE FALSE
      BY <1>3, <1>6, <1>7, <2>2, <2>3, <2>4, <3>2
    <3>3. ASSUME i \notin 1..n, j \in 1..n PROVE FALSE
      BY <1>3, <1>6, <1>7, <2>2, <2>3, <2>4, <3>3
    <3>4. ASSUME i \notin 1..n, j \notin 1..n PROVE i = j
      <4>1. Rank(page[i - n]) = offset + (i - n) /\ Rank(page[j - n]) = offset + (j - n)
        BY <1>3, <1>7, <3>4
      <4>2. i \in Int /\ j \in Int
        BY <1>6
      <4> QED
        BY <1>2, <1>7, <2>4, <3>4, <4>1, <4>2
    <3> QED
      BY <3>1, <3>2, <3>3, <3>4
  <2>5. ASSUME NEW c \in ToSet(listed'), NEW d \in rows, Rank(d) > offset + limit
        PROVE  d < c
    <3>1. PICK i \in DOMAIN listed' : c = listed'[i]
      BY DEF ToSet
    <3>2. ASSUME i \in 1..n PROVE d < c
      <4>1. c \in ToSet(listed)
        BY <1>2, <1>6, <3>1, <3>2 DEF ToSet, n
      <4> QED
        BY <1>2, <2>1, <2>2, <2>5, <4>1
    <3>3. ASSUME i \notin 1..n PROVE d < c
      <4>1. c \in rows /\ Rank(c) <= offset + limit
        BY <1>2, <1>3, <1>7, <3>1, <3>3
      <4>2. Rank(c) < Rank(d)
        BY <1>2, <2>2, <2>5, <4>1
      <4> QED
        BY <1>4, <2>2, <4>1, <4>2
    <3> QED
      BY <3>2, <3>3
  <2> QED
    BY <2>4, <2>5 DEF IsInjective
<1> QED
  BY <1>8, <1>9, <1>10, <1>11 DEF IndInv

\* Every action of the daemon and of the client keeps the invariant.
LEMMA NextInvariant == IndInv /\ [Next]_vars => IndInv'
<1> SUFFICES ASSUME IndInv, [Next]_vars PROVE IndInv'
  OBVIOUS
<1> USE MaxCapturesAssumption
<1>t. /\ TypeOK /\ StoreInv /\ AheadInv /\ OlderInv
      /\ rows \subseteq Captures /\ limit \in Nat \ {0} /\ offset \in Nat
  BY RowTypes DEF IndInv
<1>0. Cardinality({}) = 0 /\ \A c : Cardinality({c}) = 1
  BY FS_EmptySet, FS_Singleton
<1>1. ASSUME Extract PROVE IndInv'
  <2>1. TypeOK'
    BY <1>t, <1>1 DEF Extract, TypeOK, client
  <2> QED
    BY <1>t, <1>1, <2>1, StorageStep DEF Extract, StoreInv
<1>2. ASSUME NEW c \in Captures, Insert(c) PROVE IndInv'
  <2>1. TypeOK'
    <3>1. Cardinality(open') <= 1
      <4>1. open' = {c}
        BY <1>2 DEF Insert
      <4> QED
        BY <1>0, <4>1
    <3>2. /\ pending' \subseteq 1..extracted' /\ rows' \subseteq 1..extracted'
          /\ open' \subseteq rows'
      BY <1>t, <1>2 DEF Insert, TypeOK
    <3>3. /\ extracted' \in 0..MaxCaptures /\ paging' \in {"no", "yes", "done"}
          /\ limit' \in Limits /\ offset' \in 0..MaxCaptures + limit'
          /\ listed' \in Seq(Captures) /\ before' \subseteq Captures
      BY <1>t, <1>2 DEF Insert, TypeOK, client
    <3>4. inserted' \in BOOLEAN /\ withdrawn' \in BOOLEAN
      BY <1>t, <1>2 DEF Insert, TypeOK
    <3> QED
      BY <3>1, <3>2, <3>3, <3>4 DEF TypeOK
  <2> QED
    BY <1>t, <1>2, <2>1, StorageStep DEF Insert
<1>3. ASSUME NEW c \in Captures, InsertFails(c) PROVE IndInv'
  <2>1. TypeOK'
    BY <1>t, <1>3 DEF InsertFails, TypeOK, client
  <2> QED
    BY <1>t, <1>3, <2>1, StorageStep DEF InsertFails, StoreInv
<1>4. ASSUME Commit PROVE IndInv'
  <2>1. TypeOK'
    BY <1>t, <1>0, <1>4 DEF Commit, TypeOK, client
  <2> QED
    BY <1>t, <1>4, <2>1, StorageStep DEF Commit
<1>5. ASSUME Rollback PROVE IndInv'
  <2>1. TypeOK'
    BY <1>t, <1>0, <1>5 DEF Rollback, TypeOK, client
  <2> QED
    BY <1>t, <1>5, <2>1, StorageStep DEF Rollback
<1>6. ASSUME Restart PROVE IndInv'
  <2>1. TypeOK'
    BY <1>t, <1>0, <1>6 DEF Restart, TypeOK, client
  <2>2. \/ rows' = rows /\ UNCHANGED <<inserted, withdrawn>>
        \/ rows' \subseteq rows /\ withdrawn' /\ UNCHANGED inserted
    BY <1>t, <1>6 DEF Restart, TypeOK
  <2> QED
    BY <1>t, <1>6, <2>1, <2>2, StorageStep DEF Restart
<1>7. ASSUME Begin PROVE IndInv'
  <2>1. /\ UNCHANGED <<extracted, pending, rows, open, limit, offset, listed>>
        /\ paging = "no" /\ paging' = "yes" /\ before' = rows \ open
        /\ inserted' = FALSE /\ withdrawn' = FALSE
    BY <1>7 DEF Begin, storage
  <2>2. offset = 0 /\ listed = << >>
    BY <1>t, <2>1 DEF StoreInv
  <2>3. TypeOK'
    BY <1>t, <2>1 DEF TypeOK
  <2>4. StoreInv'
    BY <1>t, <2>1, <2>2 DEF StoreInv
  <2>5. ASSUME NEW c \in rows PROVE Rank(c)' = Rank(c) /\ Rank(c) > offset
    <3>1. Rank(c) \in 1..Cardinality(rows) /\ Cardinality(rows) \in Nat
      BY <1>t, RankOrder, RowsAreFew
    <3> QED
      BY <2>1, <2>2, <3>1 DEF Rank
  <2>6. AheadInv'
    BY <2>1, <2>5 DEF AheadInv
  <2>7. OlderInv'
    BY <2>1, <2>2, EmptySeq DEF OlderInv, IsInjective, ToSet
  <2> QED
    BY <2>3, <2>4, <2>6, <2>7 DEF IndInv
<1>8. ASSUME ListCaptures PROVE IndInv'
  BY <1>8, PageStep
<1>9. ASSUME UNCHANGED vars PROVE IndInv'
  BY <1>t, <1>9, StorageStep DEF vars, storage, client, TypeOK, StoreInv
<1> QED
  BY <1>1, <1>2, <1>3, <1>4, <1>5, <1>6, <1>7, <1>8, <1>9 DEF Next

-----------------------------------------------------------------------------
(***************************************************************************)
(* What the specification promises.                                        *)
(***************************************************************************)

\* The invariant holds of every run, whatever is captured between the pages.
THEOREM Invariance == Spec => []IndInv
<1>1. Init => IndInv
  BY InitInvariant
<1>2. IndInv /\ [Next]_vars => IndInv'
  BY NextInvariant
<1> QED
  BY <1>1, <1>2, PTL DEF Spec

\* Rows are captures made, one transaction holds one of them, and a client never
\* pages past what the store could hold by more than a page.
THEOREM TypeCorrect == Spec => []TypeOK
<1>1. IndInv => TypeOK
  BY DEF IndInv
<1> QED
  BY <1>1, Invariance, PTL

\* Whatever is inserted between the pages, and in whatever order, a client that
\* lists to the end has seen every row that was committed when it began; only a
\* row that was visible and then rolled back can hide one from it.
THEOREM NothingIsMissed == Spec => []NothingMissed
<1>1. IndInv => NothingMissed
  BY DEF IndInv, AheadInv, NothingMissed
<1> QED
  BY <1>1, Invariance, PTL

\* A client sees a capture twice only when another was inserted since it began.
THEOREM RepeatsHaveReasons == Spec => []RepeatsForAReason
<1>1. IndInv => RepeatsForAReason
  BY DEF IndInv, OlderInv, RepeatsForAReason
<1> QED
  BY <1>1, Invariance, PTL

-----------------------------------------------------------------------------
(***************************************************************************)
(* A listing that nothing disturbs.                                        *)
(***************************************************************************)

\* While no row comes or goes, what was listed are the newest rows, in order; pages
\* are full up to the last.
PagedInv ==
  ~inserted /\ ~withdrawn =>
    /\ paging = "yes" => Len(listed) = offset
    /\ \A i \in 1..Len(listed) : listed[i] \in rows /\ Rank(listed[i]) = i
    /\ paging = "done" => Len(listed) = Cardinality(rows)

\* A finished listing that nothing disturbed is the rows, newest first.
ListingIsExact ==
  paging = "done" /\ ~inserted /\ ~withdrawn =>
    /\ ToSet(listed) = rows
    /\ \A i, j \in 1..Len(listed) : i < j => listed[j] < listed[i]

\* The next page goes on where the last one ended.
LEMMA PagedPage == ASSUME IndInv, PagedInv, ListCaptures PROVE PagedInv'
<1> SUFFICES ASSUME ~inserted, ~withdrawn
             PROVE  /\ paging' = "yes" => Len(listed') = offset'
                    /\ \A i \in 1..Len(listed') : listed'[i] \in rows /\ Rank(listed'[i]) = i
                    /\ paging' = "done" => Len(listed') = Cardinality(rows)
  BY DEF ListCaptures, storage, PagedInv, Rank
<1> DEFINE page == Page(limit, offset)
<1>1. /\ paging = "yes" /\ listed' = listed \o page /\ offset' = offset + limit
      /\ paging' = IF Len(page) < limit THEN "done" ELSE "yes"
  BY DEF ListCaptures
<1>2. /\ rows \subseteq Captures /\ limit \in Nat \ {0} /\ offset \in Nat
      /\ listed \in Seq(Captures)
  BY RowTypes
<1>3. Len(listed) = offset /\ \A i \in 1..offset : listed[i] \in rows /\ Rank(listed[i]) = i
  BY <1>1 DEF PagedInv
<1>4. /\ page \in Seq(Captures) /\ Len(page) \in 0..limit
      /\ \A k \in 1..Len(page) : page[k] \in rows /\ Rank(page[k]) = offset + k
      /\ \A c \in rows : offset < Rank(c) /\ Rank(c) <= offset + limit =>
           \E k \in 1..Len(page) : page[k] = c
      /\ IF Len(page) < limit THEN Cardinality(rows) < offset + limit
         ELSE offset + limit <= Cardinality(rows)
  BY <1>2, PageFacts
<1>5. Cardinality(rows) \in Nat /\ \A c \in rows : Rank(c) \in 1..Cardinality(rows)
  BY <1>2, RowsAreFew, RankOrder, MaxCapturesAssumption
<1> HIDE DEF page
<1>6. /\ Len(listed') = offset + Len(page)
      /\ \A i \in 1..offset : listed'[i] = listed[i]
      /\ \A k \in 1..Len(page) : listed'[offset + k] = page[k]
  BY <1>1, <1>2, <1>3, <1>4
<1>7. \A i \in 1..Len(listed') : listed'[i] \in rows /\ Rank(listed'[i]) = i
  <2> SUFFICES ASSUME NEW i \in 1..Len(listed')
               PROVE  listed'[i] \in rows /\ Rank(listed'[i]) = i
    OBVIOUS
  <2>1. CASE i \in 1..offset
    BY <1>3, <1>6, <2>1
  <2>2. CASE i \notin 1..offset
    <3>1. i - offset \in 1..Len(page) /\ offset + (i - offset) = i
      BY <1>2, <1>4, <1>6, <2>2
    <3> QED
      BY <1>4, <1>6, <3>1
  <2> QED
    BY <2>1, <2>2
<1>8. ASSUME Len(page) < limit PROVE offset + Len(page) = Cardinality(rows)
  <2> DEFINE all == Cardinality(rows)
             k == offset + Len(page) + 1
  <2>1. offset + Len(page) <= all
    <3>1. CASE Len(listed') = 0
      BY <1>5, <1>6, <3>1
    <3>2. CASE Len(listed') # 0
      <4>1. Len(listed') \in 1..Len(listed')
        BY <1>2, <1>4, <1>6, <3>2
      <4>2. Rank(listed'[Len(listed')]) = Len(listed') /\ listed'[Len(listed')] \in rows
        BY <1>7, <4>1
      <4>3. Len(listed') \in 1..all
        BY <1>5, <4>2
      <4> QED
        BY <1>5, <1>6, <4>3
    <3> QED
      BY <3>1, <3>2
  <2>2. ASSUME offset + Len(page) < all PROVE FALSE
    <3>1. k \in 1..all /\ offset < k /\ k <= offset + limit
      BY <1>2, <1>4, <1>5, <1>8, <2>2
    <3>2. Newest(k) \in rows /\ Rank(Newest(k)) = k
      BY <1>2, <3>1, RankIsOneToOne
    <3>3. PICK j \in 1..Len(page) : page[j] = Newest(k)
      BY <1>4, <3>1, <3>2
    <3>4. offset + j = offset + Len(page) + 1
      BY <1>4, <3>2, <3>3
    <3> QED
      BY <1>2, <1>4, <3>4
  <2> QED
    BY <1>2, <1>4, <1>5, <2>1, <2>2
<1>9. paging' = "yes" => Len(listed') = offset'
  BY <1>1, <1>2, <1>4, <1>6
<1>10. paging' = "done" => Len(listed') = Cardinality(rows)
  BY <1>1, <1>6, <1>8
<1> QED
  BY <1>7, <1>9, <1>10

\* A capture that comes or goes is on record; until then the rows are the same.
LEMMA PagedStep == IndInv /\ PagedInv /\ [Next]_vars => PagedInv'
<1> SUFFICES ASSUME IndInv, PagedInv, [Next]_vars PROVE PagedInv'
  OBVIOUS
<1>1. ASSUME UNCHANGED <<rows, paging, offset, listed, inserted, withdrawn>> PROVE PagedInv'
  BY <1>1 DEF PagedInv, Rank
<1>2. ASSUME Extract \/ Commit PROVE PagedInv'
  BY <1>1, <1>2 DEF Extract, Commit, client
<1>3. ASSUME NEW c \in Captures, Insert(c) \/ InsertFails(c) PROVE PagedInv'
  <2>1. CASE Insert(c)
    BY <2>1 DEF Insert, PagedInv
  <2>2. CASE InsertFails(c)
    BY <1>1, <2>2 DEF InsertFails, client
  <2> QED
    BY <1>3, <2>1, <2>2
<1>4. ASSUME Rollback PROVE PagedInv'
  BY <1>4 DEF Rollback, PagedInv
<1>5. ASSUME Restart PROVE PagedInv'
  <2>1. CASE open # {}
    BY <1>5, <2>1 DEF Restart, PagedInv
  <2>2. CASE open = {}
    <3>1. withdrawn \in BOOLEAN
      BY DEF IndInv, TypeOK
    <3> QED
      BY <1>1, <1>5, <2>2, <3>1 DEF Restart, client
  <2> QED
    BY <2>1, <2>2
<1>6. ASSUME Begin PROVE PagedInv'
  <2>1. offset = 0 /\ listed = << >> /\ UNCHANGED <<offset, listed>> /\ paging' = "yes"
    BY <1>6 DEF Begin, IndInv, StoreInv
  <2> QED
    BY <2>1 DEF PagedInv
<1>7. ASSUME ListCaptures PROVE PagedInv'
  BY <1>7, PagedPage
<1>8. ASSUME UNCHANGED vars PROVE PagedInv'
  BY <1>1, <1>8 DEF vars, storage, client
<1> QED
  BY <1>2, <1>3, <1>4, <1>5, <1>6, <1>7, <1>8 DEF Next

\* When no row comes or goes between the pages, a client that pages to the end has
\* every row once, newest first, as one SELECT without a limit would give them.
THEOREM UndisturbedListing == Spec => []ListingIsExact
<1>1. Init => PagedInv
  BY DEF Init, PagedInv
<1>2. IndInv /\ PagedInv => ListingIsExact
  <2> SUFFICES ASSUME IndInv, PagedInv, paging = "done", ~inserted, ~withdrawn
               PROVE  /\ ToSet(listed) = rows
                      /\ \A i, j \in 1..Len(listed) : i < j => listed[j] < listed[i]
    BY DEF ListingIsExact
  <2>1. /\ rows \subseteq Captures /\ listed \in Seq(Captures)
        /\ Len(listed) = Cardinality(rows)
        /\ \A i \in 1..Len(listed) : listed[i] \in rows /\ Rank(listed[i]) = i
    BY RowTypes DEF PagedInv
  <2>2. /\ \A c \in rows : Rank(c) \in 1..Len(listed) /\ Newest(Rank(c)) = c
        /\ \A c, d \in rows : c < d => Rank(d) < Rank(c)
        /\ \A c \in rows : c \in Nat
    BY <2>1, RankOrder, RankIsOneToOne, MaxCapturesAssumption DEF Captures
  <2>3. ASSUME NEW c \in rows PROVE c \in ToSet(listed)
    <3>1. Rank(c) \in 1..Len(listed)
      BY <2>2
    <3>2. listed[Rank(c)] \in rows /\ Rank(listed[Rank(c)]) = Rank(c)
      BY <2>1, <3>1
    <3>3. listed[Rank(c)] = c
      BY <2>2, <3>2
    <3> QED
      BY <2>1, <3>1, <3>3 DEF ToSet
  <2>4. ToSet(listed) = rows
    BY <2>1, <2>3 DEF ToSet
  <2>5. ASSUME NEW i \in 1..Len(listed), NEW j \in 1..Len(listed), i < j
        PROVE  listed[j] < listed[i]
    <3>1. listed[i] \in rows /\ Rank(listed[i]) = i /\ listed[j] \in rows /\ Rank(listed[j]) = j
      BY <2>1
    <3>2. ~(listed[i] < listed[j]) /\ listed[i] # listed[j]
      BY <2>2, <2>5, <3>1
    <3> QED
      BY <2>2, <3>1, <3>2
  <2> QED
    BY <2>4, <2>5
<1> QED
  BY <1>1, <1>2, Invariance, PagedStep, PTL DEF Spec
=============================================================================
