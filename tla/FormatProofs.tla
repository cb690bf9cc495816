---------------------------- MODULE FormatProofs ----------------------------
(***************************************************************************)
(* What is written in a format and read back, of any length: subtitle      *)
(* files and what their parsers keep, the search for a track, and a value  *)
(* of the frontmatter.                                                     *)
(***************************************************************************)
EXTENDS Transcripts, Frontmatter, FiniteSetTheorems, SequenceTheorems, WellFoundedInduction, TLAPS

Sorted(s) == \A i, j \in 1..Len(s) : i < j => s[i] < s[j]

\* The number of members of S up to i.
UpTo(S, i) == Cardinality({j \in S : j <= i})

-----------------------------------------------------------------------------
(***************************************************************************)
(* Finite sets in ascending order.                                         *)
(***************************************************************************)

\* Members are numbered in their order.
LEMMA Numbered ==
  ASSUME NEW S \in SUBSET Nat, IsFiniteSet(S)
  PROVE  /\ Cardinality(S) \in Nat
         /\ \A i \in S : UpTo(S, i) \in 1..Cardinality(S)
         /\ \A i, j \in S : i < j => UpTo(S, i) < UpTo(S, j)
<1>1. Cardinality(S) \in Nat
  BY FS_CardinalityType
<1>2. ASSUME NEW i \in S
      PROVE  IsFiniteSet({j \in S : j <= i}) /\ UpTo(S, i) \in 1..Cardinality(S)
  <2> DEFINE below == {j \in S : j <= i}
  <2>1. below \subseteq S /\ i \in below
    OBVIOUS
  <2> HIDE DEF below
  <2>2. IsFiniteSet(below) /\ Cardinality(below) <= Cardinality(S)
    BY <2>1, FS_Subset
  <2>3. Cardinality(below) \in Nat
    BY <2>2, FS_CardinalityType
  <2>4. Cardinality(below) # 0
    BY <2>1, <2>2, FS_EmptySet
  <2>5. Cardinality(below) \in 1..Cardinality(S)
    BY <1>1, <2>2, <2>3, <2>4
  <2> QED
    BY <2>2, <2>5 DEF UpTo, below
<1>3. ASSUME NEW i \in S, NEW j \in S, i < j PROVE UpTo(S, i) < UpTo(S, j)
  <2> DEFINE I == {k \in S : k <= i}
             J == {k \in S : k <= j}
  <2>1. I \subseteq J /\ j \in J /\ j \notin I
    <3>1. i \in Nat /\ j \in Nat /\ j <= j /\ ~(j <= i)
      BY <1>3
    <3>2. ASSUME NEW k \in S, k <= i PROVE k <= j
      <4>1. k \in Nat
        OBVIOUS
      <4> QED
        BY <1>3, <3>1, <3>2, <4>1
    <3> QED
      BY <3>1, <3>2
  <2>2. IsFiniteSet(J) /\ Cardinality(I) \in Nat /\ Cardinality(J) \in Nat
    BY <1>2 DEF UpTo
  <2> HIDE DEF I, J
  <2>3. Cardinality(I) <= Cardinality(J)
    BY <2>1, <2>2, FS_Subset
  <2>4. Cardinality(I) # Cardinality(J)
    BY <2>1, <2>2, FS_Subset
  <2>5. Cardinality(I) < Cardinality(J)
    BY <2>2, <2>3, <2>4
  <2> QED
    BY <2>5 DEF UpTo, I, J
<1> QED
  BY <1>1, <1>2, <1>3

LEMMA NthFacts ==
  ASSUME NEW S \in SUBSET Nat, IsFiniteSet(S)
  PROVE  /\ \A i \in S : Nth(S, UpTo(S, i)) = i
         /\ \A k \in 1..Cardinality(S) : Nth(S, k) \in S /\ UpTo(S, Nth(S, k)) = k
<1>1. \A i, j \in S : UpTo(S, i) = UpTo(S, j) => i = j
  <2> SUFFICES ASSUME NEW i \in S, NEW j \in S, UpTo(S, i) = UpTo(S, j), i # j PROVE FALSE
    OBVIOUS
  <2>1. i < j \/ j < i
    OBVIOUS
  <2>2. UpTo(S, i) \in Nat /\ UpTo(S, j) \in Nat
    BY Numbered
  <2> QED
    BY <2>1, <2>2, Numbered
<1>2. \A k \in 1..Cardinality(S) : \E i \in S : UpTo(S, i) = k
  <2> DEFINE number == [i \in S |-> UpTo(S, i)]
             n == Cardinality(S)
  <2>1. n \in Nat /\ number \in [S -> 1..n]
    BY Numbered
  <2>2. number \in Injection(S, 1..n)
    BY <1>1, <2>1 DEF Injection, IsInjective
  <2>3. IsFiniteSet(1..n)
    BY <2>1, FS_Interval
  <2>4. Cardinality(1..n) = n
    BY <2>1, FS_Interval
  <2> HIDE DEF number
  <2>5. number \in Surjection(S, 1..n)
    BY <2>2, <2>3, <2>4, FS_Injection
  <2>6. \A k \in 1..n : \E i \in S : number[i] = k
    BY <2>5 DEF Surjection
  <2> QED
    BY <2>6 DEF number
<1>3. \A i \in S : Nth(S, UpTo(S, i)) = i
  BY <1>1 DEF Nth, UpTo
<1> QED
  BY <1>2, <1>3

\* In order, every member is there, once.
LEMMA InOrderFacts ==
  ASSUME NEW S \in SUBSET Nat, IsFiniteSet(S)
  PROVE  /\ InOrder(S) \in Seq(S) /\ Len(InOrder(S)) = Cardinality(S)
         /\ Sorted(InOrder(S))
         /\ \A i \in S : \E k \in 1..Len(InOrder(S)) : InOrder(S)[k] = i
<1> DEFINE n == Cardinality(S)
<1>1. n \in Nat /\ \A k \in 1..n : Nth(S, k) \in S /\ UpTo(S, Nth(S, k)) = k
  BY Numbered, NthFacts
<1>2. /\ InOrder(S) \in Seq(S) /\ Len(InOrder(S)) = n
      /\ \A k \in 1..n : InOrder(S)[k] = Nth(S, k)
  BY <1>1 DEF InOrder
<1>3. Sorted(InOrder(S))
  <2> SUFFICES ASSUME NEW i \in 1..n, NEW j \in 1..n, i < j, ~(Nth(S, i) < Nth(S, j))
               PROVE  FALSE
    BY <1>2 DEF Sorted
  <2>1. Nth(S, i) \in Nat /\ Nth(S, j) \in Nat
    BY <1>1
  <2>2. Nth(S, j) < Nth(S, i) \/ Nth(S, j) = Nth(S, i)
    BY <2>1
  <2>3. j < i \/ j = i
    BY <1>1, <2>2, Numbered
  <2> QED
    BY <2>3
<1>4. ASSUME NEW i \in S PROVE \E k \in 1..n : InOrder(S)[k] = i
  BY <1>2, Numbered, NthFacts
<1> QED
  BY <1>2, <1>3, <1>4

\* There is no other way to put them in order.
LEMMA OneOrder ==
  ASSUME NEW S \in SUBSET Nat, NEW s \in Seq(S), Sorted(s),
         \A i \in S : \E k \in 1..Len(s) : s[k] = i
  PROVE  IsFiniteSet(S) /\ InOrder(S) = s
<1> DEFINE n == Len(s)
<1>1. n \in Nat /\ \A k \in 1..n : s[k] \in S /\ s[k] \in Nat
  <2>1. n \in Nat /\ \A k \in 1..n : s[k] \in S
    OBVIOUS
  <2> QED
    BY <2>1
<1>2. ASSUME NEW k \in 0..n
      PROVE  LET T == {s[i] : i \in 1..k} IN IsFiniteSet(T) /\ Cardinality(T) = k
  <2> DEFINE T == {s[i] : i \in 1..k}
             f == [i \in 1..k |-> s[i]]
  <2>1. \A i \in 1..k : i \in 1..n
    BY <1>1
  <2>2. \A i, j \in 1..k : s[i] = s[j] => i = j
    <3> SUFFICES ASSUME NEW i \in 1..k, NEW j \in 1..k, s[i] = s[j], i # j PROVE FALSE
      OBVIOUS
    <3>1. i < j \/ j < i
      OBVIOUS
    <3>2. s[i] \in Nat /\ s[j] \in Nat
      BY <1>1, <2>1
    <3> QED
      BY <2>1, <3>1, <3>2 DEF Sorted
  <2>3. f \in Bijection(1..k, T)
    BY <2>2 DEF Bijection, Injection, Surjection, IsInjective
  <2>4. IsFiniteSet(1..k)
    BY FS_Interval
  <2>5. Cardinality(1..k) = k
    BY FS_Interval
  <2> HIDE DEF f, T
  <2>6. IsFiniteSet(T) /\ Cardinality(T) = Cardinality(1..k)
    BY <2>3, <2>4, FS_Bijection DEF ExistsBijection
  <2> QED
    BY <2>5, <2>6 DEF T
<1>3. S = {s[i] : i \in 1..n}
  BY <1>1
<1>4. IsFiniteSet(S) /\ Cardinality(S) = n
  <2>1. n \in 0..n
    BY <1>1
  <2> QED
    BY <1>2, <1>3, <2>1
<1>5. ASSUME NEW k \in 1..n PROVE Nth(S, k) = s[k]
  <2>1. {j \in S : j <= s[k]} = {s[i] : i \in 1..k}
    <3>1. ASSUME NEW i \in 1..k PROVE s[i] \in S /\ s[i] <= s[k]
      <4>1. i \in 1..n /\ (i < k \/ i = k)
        BY <1>1
      <4>2. s[i] \in Nat /\ s[k] \in Nat /\ (i < k => s[i] < s[k])
        BY <1>1, <4>1 DEF Sorted
      <4> QED
        BY <1>1, <4>1, <4>2
    <3>2. ASSUME NEW i \in 1..n, s[i] <= s[k] PROVE i \in 1..k
      <4>1. s[i] \in Nat /\ s[k] \in Nat
        BY <1>1
      <4>2. ~(s[k] < s[i])
        BY <3>2, <4>1
      <4>3. ~(k < i)
        BY <4>2 DEF Sorted
      <4> QED
        BY <4>3
    <3> QED
      BY <1>3, <3>1, <3>2
  <2>2. UpTo(S, s[k]) = k
    <3>1. k \in 0..n
      BY <1>1
    <3> QED
      BY <1>2, <2>1, <3>1 DEF UpTo
  <2> QED
    BY <1>1, <1>4, <2>2, NthFacts
<1>6. InOrder(S) = [k \in 1..n |-> s[k]]
  BY <1>4, <1>5 DEF InOrder
<1> QED
  BY <1>4, <1>6

-----------------------------------------------------------------------------
(***************************************************************************)
(* A file and its parser.                                                  *)
(***************************************************************************)

\* What the lines of a file of each format may be.
VttLines == Speech \cup
  {"blank", "signature", "metadata", "note", "noteBody", "style", "styleBody", "id",
   "timing", "shortTiming", "tags"}
SrtLines == Speech \cup {"blank", "index", "srtTiming"}
Lines(f) == IF f = "vtt" THEN VttLines ELSE SrtLines

\* Of a list of lines, the numbers of those that somebody says, after the n-th.
SaidAfter(lines, n) == {i \in DOMAIN lines : i > n /\ lines[i] \in Speech}

\* The lines named as spoken are those that somebody says, in order.
FileInv ==
  /\ format \in {"vtt", "srt"}
  /\ file \in Seq(Lines(format))
  /\ cues \in 0..MaxCues
  /\ spoken \in Seq(SaidAfter(file, 0)) /\ Sorted(spoken)
  /\ \A i \in SaidAfter(file, 0) : \E k \in 1..Len(spoken) : spoken[k] = i

\* Lines of a file are numbered.
LEMMA LinesAreFew ==
  ASSUME NEW S, NEW lines \in Seq(S), NEW P \in SUBSET DOMAIN lines
  PROVE  P \in SUBSET Nat /\ IsFiniteSet(P)
<1>1. DOMAIN lines = 1..Len(lines) /\ Len(lines) \in Nat
  OBVIOUS
<1>2. IsFiniteSet(1..Len(lines))
  BY <1>1, FS_Interval
<1>3. IsFiniteSet(P)
  BY <1>1, <1>2, FS_Subset
<1> QED
  BY <1>1, <1>3

\* Lists written out.
LEMMA ShortLists ==
  ASSUME NEW S
  PROVE  /\ \A a \in S : <<a>> \in Seq(S)
         /\ \A a, b \in S : <<a, b>> \in Seq(S)
         /\ \A a, b, c \in S : <<a, b, c>> \in Seq(S)
         /\ \A a, b, c, d \in S : <<a, b, c, d>> \in Seq(S)
         /\ \A a, b, c, d, e \in S : <<a, b, c, d, e>> \in Seq(S)
  OBVIOUS

LEMMA EmptyFile ==
  ASSUME NEW f \in {"vtt", "srt"}, NEW lines \in Seq(Lines(f)),
         format' = f, file' = lines, spoken' = << >>, cues' = 0,
         \A i \in DOMAIN lines : lines[i] \notin Speech
  PROVE  FileInv'
<1>1. SaidAfter(lines, 0) = {}
  BY DEF SaidAfter
<1>2. 0 \in 0..MaxCues
  BY MaxCuesAssumption
<1>3. << >> \in Seq(SaidAfter(lines, 0)) /\ Sorted(<< >>)
  BY DEF Sorted
<1> QED
  BY <1>1, <1>2, <1>3 DEF FileInv, Sorted

\* A file that goes on: what is said in the lines that are new comes last.
LEMMA FileGoesOn ==
  ASSUME FileInv, NEW more \in Seq(Lines(format)),
         format' = format, file' = file \o more, cues' \in 0..MaxCues,
         spoken' = spoken \o InOrder(SaidAfter(file', Len(file)))
  PROVE  FileInv'
<1> DEFINE n == Len(file)
           new == SaidAfter(file', n)
           old == SaidAfter(file, 0)
           added == InOrder(new)
<1>1. /\ file \in Seq(Lines(format)) /\ n \in Nat
      /\ spoken \in Seq(old) /\ Sorted(spoken)
      /\ \A i \in old : \E k \in 1..Len(spoken) : spoken[k] = i
  BY DEF FileInv
<1>2. /\ file' \in Seq(Lines(format)) /\ Len(file') \in Nat /\ n <= Len(file')
      /\ \A i \in 1..n : file'[i] = file[i]
  BY <1>1
<1>3. new \in SUBSET Nat /\ IsFiniteSet(new)
  BY <1>2, LinesAreFew DEF SaidAfter
<1>4. /\ added \in Seq(new) /\ Sorted(added)
      /\ \A i \in new : \E k \in 1..Len(added) : added[k] = i
  BY <1>3, InOrderFacts
<1>5. SaidAfter(file', 0) = old \cup new /\ \A i \in old : i \in 1..n
  <2>1. /\ DOMAIN file = 1..n /\ DOMAIN file' = 1..Len(file')
        /\ \A i \in 1..Len(file') : i > 0 /\ (i > n \/ i \in 1..n)
        /\ \A i \in 1..n : i > 0 /\ i \in 1..Len(file')
    BY <1>1, <1>2
  <2> QED
    BY <1>2, <2>1 DEF SaidAfter
<1>6. \A i \in new : i \in Nat /\ i > n
  BY <1>3 DEF SaidAfter
<1> HIDE DEF new, old, added
<1> DEFINE all == spoken \o added
           a == Len(spoken)
           b == Len(added)
<1>7. /\ a \in Nat /\ b \in Nat /\ Len(all) = a + b
      /\ \A k \in 1..a : all[k] = spoken[k] /\ spoken[k] \in old
      /\ \A k \in 1..b : all[a + k] = added[k] /\ added[k] \in new
  BY <1>1, <1>4
<1>8. all \in Seq(old \cup new)
  <2>1. spoken \in Seq(old \cup new) /\ added \in Seq(old \cup new)
    BY <1>1, <1>4, SeqMonotonic
  <2> QED
    BY <2>1
<1> HIDE DEF all, a, b
<1>9. \A k \in 1..a + b : k \in 1..a \/ (k - a \in 1..b /\ k > a /\ all[k] = added[k - a])
  <2> SUFFICES ASSUME NEW k \in 1..a + b, k \notin 1..a
               PROVE  k - a \in 1..b /\ k > a /\ all[k] = added[k - a]
    OBVIOUS
  <2>1. k - a \in 1..b /\ k > a /\ a + (k - a) = k
    BY <1>7
  <2> QED
    BY <1>7, <2>1
<1>10. Sorted(all)
  <2> SUFFICES ASSUME NEW i \in 1..a + b, NEW j \in 1..a + b, i < j PROVE all[i] < all[j]
    BY <1>7 DEF Sorted
  <2>1. CASE i \in 1..a /\ j \in 1..a
    BY <1>1, <1>7, <2>1 DEF Sorted, a
  <2>2. CASE i \in 1..a /\ j \notin 1..a
    <3>1. all[i] \in 1..n
      BY <1>5, <1>7, <2>2
    <3>2. all[j] \in Nat /\ all[j] > n
      BY <1>6, <1>7, <1>9, <2>2
    <3> QED
      BY <1>1, <3>1, <3>2
  <2>3. CASE i \notin 1..a
    <3>1. i > a /\ i - a \in 1..b /\ all[i] = added[i - a]
      BY <1>9, <2>3
    <3>2. j > a /\ j - a \in 1..b /\ all[j] = added[j - a]
      <4>1. j \notin 1..a
        BY <1>7, <3>1
      <4> QED
        BY ONLY <1>9, <4>1, j \in 1..a + b
    <3>3. i - a < j - a
      BY <1>7
    <3> QED
      BY <1>4, <3>1, <3>2, <3>3 DEF Sorted, b
  <2> QED
    BY <2>1, <2>2, <2>3
<1>11. \A i \in old \cup new : \E k \in 1..Len(all) : all[k] = i
  <2>1. ASSUME NEW i \in old PROVE \E k \in 1..a + b : all[k] = i
    <3>1. PICK k \in 1..a : spoken[k] = i
      BY <1>1 DEF a
    <3>2. k \in 1..a + b
      BY <1>7
    <3> QED
      BY <1>7, <3>1, <3>2
  <2>2. ASSUME NEW i \in new PROVE \E k \in 1..a + b : all[k] = i
    <3>1. PICK k \in 1..b : added[k] = i
      BY <1>4 DEF b
    <3>2. a + k \in 1..a + b
      BY <1>7
    <3> QED
      BY <1>7, <3>1, <3>2
  <2> QED
    BY <1>7, <2>1, <2>2
<1>12. spoken' = all
  BY DEF all, added, new, n
<1> QED
  BY <1>2, <1>5, <1>8, <1>10, <1>11, <1>12 DEF FileInv, Sorted

LEMMA OpenFile == ASSUME NEW f \in {"vtt", "srt"}, Open(f) PROVE FileInv'
<1>1. file' \in Preludes(f) /\ format' = f /\ spoken' = << >> /\ cues' = 0
  BY DEF Open
<1>2. ASSUME NEW lines \in Preludes(f)
      PROVE  lines \in Seq(Lines(f)) /\ \A i \in DOMAIN lines : lines[i] \notin Speech
  <2>1. CASE f = "srt"
    BY <1>2, <2>1 DEF Preludes
  <2>2. CASE f = "vtt"
    <3> DEFINE heads == {"blank", "signature", "metadata", "style", "styleBody"}
    <3>1. heads \subseteq Lines(f) /\ \A line \in heads : line \notin Speech
      BY <2>2 DEF Lines, VttLines, Speech
    <3>2. \/ lines = <<"signature", "blank">>
          \/ lines = <<"signature", "metadata", "metadata", "blank">>
          \/ lines = <<"signature", "blank", "style", "styleBody", "blank">>
      BY <1>2, <2>2 DEF Preludes
    <3>3. /\ "blank" \in heads /\ "signature" \in heads /\ "metadata" \in heads
          /\ "style" \in heads /\ "styleBody" \in heads
      OBVIOUS
    <3> HIDE DEF heads
    <3>4. lines \in Seq(heads)
      BY <3>2, <3>3, ShortLists
    <3>5. lines \in Seq(Lines(f))
      BY <3>1, <3>4, SeqMonotonic
    <3>6. \A i \in DOMAIN lines : lines[i] \in heads
      BY <3>4
    <3> QED
      BY <3>1, <3>5, <3>6
  <2> QED
    BY <2>1, <2>2
<1> QED
  BY <1>1, <1>2, EmptyFile

LEMMA NoFileIsEmpty == NoFile => FileInv
<1> SUFFICES ASSUME NoFile PROVE FileInv
  OBVIOUS
<1>1. SaidAfter(<< >>, 0) = {}
  BY DEF SaidAfter
<1>2. 0 \in 0..MaxCues
  BY MaxCuesAssumption
<1> QED
  BY <1>1, <1>2 DEF NoFile, FileInv, Sorted

LEMMA CloseFile == Close => FileInv'
<1> SUFFICES ASSUME Close PROVE FileInv'
  OBVIOUS
<1>1. << >> \in Seq(Lines("srt")) /\ DOMAIN << >> = {}
  OBVIOUS
<1>2. format' = "srt" /\ file' = << >> /\ spoken' = << >> /\ cues' = 0
  BY DEF Close
<1> QED
  BY <1>1, <1>2, EmptyFile

LEMMA CommentInFile == FileInv /\ Comment => FileInv'
<1> SUFFICES ASSUME FileInv, Comment PROVE FileInv'
  OBVIOUS
<1>1. PICK more \in Comments : file' = file \o more
  BY DEF Comment
<1>2. /\ format = "vtt" /\ format' = format /\ spoken' = spoken /\ cues' = cues
  BY DEF Comment
<1>3. more \in Seq(Lines(format)) /\ \A i \in 1..Len(more) : more[i] \notin Speech
  <2> DEFINE notes == {"blank", "note", "noteBody"}
  <2>1. notes \subseteq Lines(format) /\ \A line \in notes : line \notin Speech
    BY <1>2 DEF Lines, VttLines, Speech
  <2>2. more = <<"note", "blank">> \/ more = <<"note", "noteBody", "blank">>
    BY <1>1 DEF Comments
  <2>3. "blank" \in notes /\ "note" \in notes /\ "noteBody" \in notes
    OBVIOUS
  <2> HIDE DEF notes
  <2>4. more \in Seq(notes)
    BY <2>2, <2>3, ShortLists
  <2>5. more \in Seq(Lines(format))
    BY <2>1, <2>4, SeqMonotonic
  <2>6. \A i \in 1..Len(more) : more[i] \in notes
    BY <2>4
  <2> QED
    BY <2>1, <2>5, <2>6
<1>4. /\ file \in Seq(Lines(format)) /\ Len(file) \in Nat
      /\ spoken \in Seq(SaidAfter(file, 0)) /\ cues \in 0..MaxCues
  BY DEF FileInv
<1>5. SaidAfter(file', Len(file)) = {}
  <2> SUFFICES ASSUME NEW i \in DOMAIN file', i > Len(file) PROVE file'[i] \notin Speech
    BY DEF SaidAfter
  <2>1. i - Len(file) \in 1..Len(more) /\ file'[i] = more[i - Len(file)]
    BY <1>1, <1>3, <1>4
  <2> QED
    BY <1>3, <2>1
<1>6. InOrder({}) = << >>
  <2>1. Cardinality({}) = 0
    BY FS_EmptySet
  <2> QED
    BY <2>1 DEF InOrder
<1>7. spoken' = spoken \o InOrder(SaidAfter(file', Len(file)))
  BY <1>2, <1>4, <1>5, <1>6
<1> QED
  BY <1>1, <1>2, <1>3, <1>4, <1>7, FileGoesOn

LEMMA CueInFile == FileInv /\ Cue => FileInv'
<1> SUFFICES ASSUME FileInv, Cue PROVE FileInv'
  OBVIOUS
<1>1. PICK header \in CueHeaders, payload \in Payloads :
        /\ file' = file \o header \o payload \o <<"blank">>
        /\ spoken' = spoken \o InOrder(SaidAfter(file', Len(file)))
  BY DEF Cue, SaidAfter
<1>2. cues' \in 0..MaxCues /\ format' = format
  BY MaxCuesAssumption DEF Cue, FileInv
<1>3. file \in Seq(Lines(format)) /\ format \in {"vtt", "srt"}
  BY DEF FileInv
<1>4. header \in Seq(Lines(format))
  <2>1. CASE format = "srt"
    <3>1. header = <<"index", "srtTiming">>
      BY <2>1 DEF CueHeaders
    <3>2. "index" \in Lines(format) /\ "srtTiming" \in Lines(format)
      BY <2>1 DEF Lines, SrtLines
    <3> QED
      BY <3>1, <3>2
  <2>2. CASE format = "vtt"
    <3>1. \/ header = <<"timing">> \/ header = <<"shortTiming">>
          \/ header = <<"id", "timing">> \/ header = <<"id", "shortTiming">>
      BY <2>2 DEF CueHeaders
    <3>2. /\ "timing" \in Lines(format) /\ "shortTiming" \in Lines(format)
          /\ "id" \in Lines(format)
      BY <2>2 DEF Lines, VttLines
    <3> QED
      BY <3>1, <3>2, ShortLists
  <2> QED
    BY <1>3, <2>1, <2>2
<1>5. payload \in Seq(Lines(format))
  <2> DEFINE lines == Speech \cup (IF format = "vtt" THEN {"tags"} ELSE {})
  <2>1. lines \subseteq Lines(format)
    BY DEF Lines, VttLines, SrtLines
  <2>2. (\E line \in lines : payload = <<line>>) \/ (\E one, two \in lines : payload = <<one, two>>)
    BY DEF Payloads
  <2> HIDE DEF lines
  <2>3. payload \in Seq(lines)
    BY <2>2, ShortLists
  <2> QED
    BY <2>1, <2>3, SeqMonotonic
<1>6. <<"blank">> \in Seq(Lines(format))
  <2>1. "blank" \in Lines(format)
    BY DEF Lines, VttLines, SrtLines
  <2> QED
    BY <2>1
<1>7. header \o payload \o <<"blank">> \in Seq(Lines(format))
  BY <1>4, <1>5, <1>6
<1>8. file' = file \o (header \o payload \o <<"blank">>)
  BY <1>1, <1>3, <1>4, <1>5, <1>6, ConcatAssociative
<1> QED
  BY <1>1, <1>2, <1>7, <1>8, FileGoesOn

-----------------------------------------------------------------------------
Kept == {i \in DOMAIN file : file[i] \notin (IF format = "vtt" THEN VttDrops ELSE SrtDrops)}

LEMMA KeptLines ==
  ASSUME FileInv
  PROVE  /\ Kept \in SUBSET Nat /\ IsFiniteSet(Kept)
         /\ Transcript = InOrder(Kept)
<1>1. Kept \in SUBSET DOMAIN file /\ file \in Seq(Lines(format))
  BY DEF Kept, FileInv
<1> QED
  BY <1>1, LinesAreFew DEF Kept, Transcript

\* A transcript names lines of the file.
LEMMA FileTypes == FileInv => FileTypeOK
<1> SUFFICES ASSUME FileInv PROVE FileTypeOK
  OBVIOUS
<1>1. Lines(format) \subseteq Speech \cup Markup
  BY DEF Lines, VttLines, SrtLines, Markup
<1>2. file \in Seq(Speech \cup Markup)
  BY <1>1, SeqMonotonic DEF FileInv
<1>3. spoken \in Seq(DOMAIN file)
  <2>1. SaidAfter(file, 0) \subseteq DOMAIN file
    BY DEF SaidAfter
  <2> QED
    BY <2>1, SeqMonotonic DEF FileInv
<1>4. Transcript \in Seq(DOMAIN file)
  <2>1. Transcript \in Seq(Kept) /\ Kept \subseteq DOMAIN file
    BY KeptLines, InOrderFacts DEF Kept
  <2> QED
    BY <2>1, SeqMonotonic
<1> QED
  BY <1>2, <1>3, <1>4 DEF FileInv, FileTypeOK

\* Without ambiguous lines the parser keeps what is said, and nothing else.
LEMMA FileExact == FileInv => ExactWhenUnambiguous
<1> SUFFICES ASSUME FileInv, \A i \in DOMAIN file : file[i] \notin Ambiguous
             PROVE  Transcript = spoken
  BY DEF ExactWhenUnambiguous
<1>1. ASSUME NEW i \in DOMAIN file PROVE i \in Kept <=> file[i] \in Speech
  <2>1. file[i] \in Lines(format) /\ file[i] \notin Ambiguous
    BY <1>1 DEF FileInv
  <2>2. CASE format = "vtt"
    BY <2>1, <2>2 DEF Lines, VttLines, Ambiguous, Speech, Kept, VttDrops
  <2>3. CASE format # "vtt"
    BY <2>1, <2>3 DEF FileInv, Lines, SrtLines, Ambiguous, Speech, Kept, SrtDrops
  <2> QED
    BY <2>2, <2>3
<1>2. Kept = SaidAfter(file, 0)
  <2>1. \A i \in DOMAIN file : i > 0
    BY DEF FileInv
  <2> QED
    BY <1>1, <2>1 DEF Kept, SaidAfter
<1>3. InOrder(Kept) = spoken
  BY <1>2, KeptLines, OneOrder DEF FileInv
<1> QED
  BY <1>3, KeptLines

\* Plain words are never dropped.
LEMMA WordsAreKept == ASSUME FileInv, HasWords PROVE Transcript # << >>
<1>1. PICK i \in DOMAIN spoken : file[spoken[i]] = "words"
  BY DEF HasWords
<1>2. spoken[i] \in DOMAIN file
  BY <1>1 DEF FileInv, SaidAfter
<1>3. spoken[i] \in Kept
  BY <1>1, <1>2 DEF Kept, VttDrops, SrtDrops
<1>4. \E k \in 1..Len(InOrder(Kept)) : InOrder(Kept)[k] = spoken[i]
  BY <1>3, KeptLines, InOrderFacts
<1> QED
  BY <1>4, KeptLines
-----------------------------------------------------------------------------
(***************************************************************************)
(* The search for a track.                                                 *)
(***************************************************************************)

LEMMA Positions ==
  /\ Position("subtitles", Sources) = 1 /\ Position("automatic_captions", Sources) = 2
  /\ Position("en", Langs) = 1 /\ Position("en-US", Langs) = 2 /\ Position("en-GB", Langs) = 3
  /\ Position("json3", Formats) = 1 /\ Position("vtt", Formats) = 2 /\ Position("srt", Formats) = 3
<1>1. /\ DOMAIN Sources = {1, 2}
      /\ Sources[1] = "subtitles" /\ Sources[2] = "automatic_captions"
  BY DEF Sources
<1>2. /\ DOMAIN Langs = {1, 2, 3}
      /\ Langs[1] = "en" /\ Langs[2] = "en-US" /\ Langs[3] = "en-GB"
  BY DEF Langs
<1>3. /\ DOMAIN Formats = {1, 2, 3}
      /\ Formats[1] = "json3" /\ Formats[2] = "vtt" /\ Formats[3] = "srt"
  BY DEF Formats
<1>4. Position("subtitles", Sources) = 1 /\ Position("automatic_captions", Sources) = 2
  BY <1>1 DEF Position
<1>5. Position("en", Langs) = 1 /\ Position("en-US", Langs) = 2 /\ Position("en-GB", Langs) = 3
  BY <1>2 DEF Position
<1>6. Position("json3", Formats) = 1 /\ Position("vtt", Formats) = 2 /\ Position("srt", Formats) = 3
  BY <1>3 DEF Position
<1> QED
  BY <1>4, <1>5, <1>6

\* A track the loops reach has a place in each of the lists.
LEMMA CandidateFacts ==
  ASSUME tracks \subseteq Tracks, NEW t \in Candidates
  PROVE  /\ t \in Tracks
         /\ t.source \in {"subtitles", "automatic_captions"}
         /\ t.lang \in {"en", "en-US", "en-GB"}
         /\ t.ext \in {"json3", "vtt", "srt"}
         /\ t.place \in Nat
<1>1. /\ t \in tracks
      /\ \E i \in DOMAIN Langs : Langs[i] = t.lang
      /\ \E i \in DOMAIN Formats : Formats[i] = t.ext
  BY DEF Candidates
<1>2. t.lang \in {"en", "en-US", "en-GB"}
  BY <1>1 DEF Langs
<1>3. t.ext \in {"json3", "vtt", "srt"}
  BY <1>1 DEF Formats
<1> QED
  BY <1>1, <1>2, <1>3, TracksAssumption

\* One number orders tracks by source, language and format, in this order.
LEMMA LoopsPreferTheBetter ==
  ASSUME tracks \subseteq Tracks, NEW t \in Candidates, NEW u \in Candidates
  PROVE  /\ Before(t, u) <=> Better(t, u)
         /\ ~(Before(t, u) /\ Before(u, t))
<1> DEFINE s(x) == Position(x.source, Sources)
           l(x) == Position(x.lang, Langs)
           e(x) == Position(x.ext, Formats)
<1>1. ASSUME NEW x \in Candidates
      PROVE  /\ s(x) \in {1, 2} /\ l(x) \in {1, 2, 3} /\ e(x) \in {1, 2, 3}
             /\ x.source = (IF s(x) = 1 THEN "subtitles" ELSE "automatic_captions")
             /\ x.lang = (IF l(x) = 1 THEN "en" ELSE IF l(x) = 2 THEN "en-US" ELSE "en-GB")
             /\ x.ext = (IF e(x) = 1 THEN "json3" ELSE IF e(x) = 2 THEN "vtt" ELSE "srt")
  BY CandidateFacts, Positions
<1>2. \A x, y \in Candidates :
        Before(x, y) <=> LET rank(z) == 9 * s(z) + 3 * l(z) + e(z)
                         IN  rank(x) < rank(y) \/ (rank(x) = rank(y) /\ x.place < y.place)
  BY DEF Before
<1> HIDE DEF s, l, e
<1>3. \A x, y \in Candidates :
        Before(x, y) <=>
          \/ s(x) < s(y)
          \/ s(x) = s(y) /\ l(x) < l(y)
          \/ s(x) = s(y) /\ l(x) = l(y) /\ e(x) < e(y)
          \/ s(x) = s(y) /\ l(x) = l(y) /\ e(x) = e(y) /\ x.place < y.place
  BY <1>1, <1>2
<1>4. t.place \in Nat /\ u.place \in Nat
  BY CandidateFacts
<1>5. /\ t.source = "subtitles" /\ u.source = "automatic_captions" <=> s(t) < s(u)
      /\ t.source = u.source <=> s(t) = s(u)
  BY <1>1
<1>6. /\ (t.lang = "en" /\ u.lang # "en") \/ (t.lang = "en-US" /\ u.lang = "en-GB")
           <=> l(t) < l(u)
      /\ t.lang = u.lang <=> l(t) = l(u)
  BY <1>1
<1>7. /\ (t.ext = "json3" /\ u.ext # "json3") \/ (t.ext = "vtt" /\ u.ext = "srt")
           <=> e(t) < e(u)
      /\ t.ext = u.ext <=> e(t) = e(u)
  BY <1>1
<1>8. Before(t, u) <=> Better(t, u)
  BY <1>3, <1>5, <1>6, <1>7 DEF Better
<1>9. ~(Before(t, u) /\ Before(u, t))
  BY <1>1, <1>3, <1>4
<1> QED
  BY <1>8, <1>9

\* The search goes up in the order of the loops: what was asked comes before
\* what was not, the track at hand before the rest, and nothing with plain words
\* was passed over.
TrackInv ==
  /\ tracks \subseteq Tracks
  /\ track \in tracks \cup {NoTrack}
  /\ outcome \in [Tracks -> {"unasked", "unreachable", "silent", "words"}]
  /\ found \in {"searching", "transcript", "none", "raised"}
  /\ \A t \in Candidates : outcome[t] # "words"
  /\ \A t \in Candidates, u \in Remaining : outcome[t] # "unasked" => Before(t, u)
  /\ track # NoTrack =>
       track \in Remaining /\ \A u \in Remaining \ {track} : Before(track, u)
  /\ found = "none" => Remaining = {}
  /\ found = "transcript" => track # NoTrack

IndInv == FileInv /\ TrackInv

\* A track passed over: those that are left come after it.
LEMMA PassedOver ==
  ASSUME TrackInv, NEW t \in Remaining, \A u \in Remaining \ {t} : Before(t, u),
         NEW why \in {"unreachable", "silent"},
         outcome' = [outcome EXCEPT ![t] = why],
         found = "searching", found' = found, track' = NoTrack, tracks' = tracks
  PROVE  TrackInv'
<1>1. tracks \subseteq Tracks /\ t \in Candidates /\ t \in Tracks
  BY CandidateFacts DEF TrackInv, Remaining
<1>2. outcome' \in [Tracks -> {"unasked", "unreachable", "silent", "words"}]
  BY DEF TrackInv
<1>3. outcome'[t] = why /\ \A u \in Tracks \ {t} : outcome'[u] = outcome[u]
  BY <1>1 DEF TrackInv
<1>4. Candidates' = Candidates /\ Candidates \subseteq Tracks
  BY <1>1, CandidateFacts DEF Candidates
<1>5. Remaining' = Remaining \ {t}
  BY <1>3, <1>4 DEF Remaining
<1>6. \A u \in Candidates' : outcome'[u] # "words"
  BY <1>3, <1>4 DEF TrackInv
<1>7. ASSUME NEW v \in Candidates', NEW u \in Remaining', outcome'[v] # "unasked"
      PROVE  Before(v, u)
  <2>1. CASE v = t
    BY <1>5, <2>1
  <2>2. CASE v # t
    <3>1. v \in Candidates /\ outcome[v] # "unasked" /\ u \in Remaining
      BY <1>3, <1>4, <1>5, <1>7, <2>2
    <3> QED
      BY <3>1 DEF TrackInv
  <2> QED
    BY <2>1, <2>2
<1> QED
  BY <1>1, <1>2, <1>6, <1>7 DEF TrackInv

\* A track at hand, or found: nothing else about the tracks changes.
LEMMA TrackAtHand ==
  ASSUME TrackInv, NEW t \in Remaining, \A u \in Remaining \ {t} : Before(t, u),
         track' = t, found' \in {"searching", "transcript"},
         outcome' = outcome, tracks' = tracks
  PROVE  TrackInv'
<1>1. tracks \subseteq Tracks /\ t \in tracks /\ t # NoTrack
  BY NoTrackAssumption DEF TrackInv, Remaining, Candidates
<1>2. Candidates' = Candidates
  BY DEF Candidates
<1>3. Remaining' = Remaining
  BY <1>2 DEF Remaining
<1> QED
  BY <1>1, <1>2, <1>3 DEF TrackInv

LEMMA TracksUnchanged ==
  ASSUME TrackInv, UNCHANGED <<tracks, track, outcome>>,
         \/ found' = found
         \/ found' = "raised"
         \/ found' = "none" /\ Remaining = {}
         \/ found' = "transcript" /\ track # NoTrack
  PROVE  TrackInv'
<1>1. Candidates' = Candidates
  BY DEF Candidates
<1>2. Remaining' = Remaining
  BY <1>1 DEF Remaining
<1> QED
  BY <1>1, <1>2 DEF TrackInv

LEMMA FileUnchanged == FileInv /\ UNCHANGED fileVars => FileInv'
  BY DEF FileInv, fileVars, Sorted, SaidAfter, Lines

LEMMA Initially == Init => IndInv
<1> SUFFICES ASSUME Init PROVE IndInv
  OBVIOUS
<1>1. FileInv
  BY NoFileIsEmpty DEF Init
<1>2. tracks \subseteq Tracks /\ track = NoTrack /\ found = "searching"
  BY DEF Init
<1>3. outcome = [t \in Tracks |-> "unasked"]
  BY DEF Init
<1>4. \A t \in Candidates : outcome[t] = "unasked"
  BY <1>2, <1>3 DEF Candidates
<1> QED
  BY <1>1, <1>2, <1>3, <1>4 DEF IndInv, TrackInv

LEMMA Step == IndInv /\ [Next]_vars => IndInv'
<1> SUFFICES ASSUME IndInv, [Next]_vars PROVE IndInv'
  OBVIOUS
<1>0. FileInv /\ TrackInv
  BY DEF IndInv
<1>1. ASSUME NEW t \in Tracks, FetchFails(t) PROVE IndInv'
  <2>1. TrackInv'
    BY <1>0, <1>1, PassedOver DEF FetchFails, Turn
  <2> QED
    BY <1>0, <1>1, <2>1, FileUnchanged DEF FetchFails, IndInv
<1>2. ASSUME NEW t \in Tracks, FetchRaises(t) PROVE IndInv'
  <2>1. TrackInv'
    BY <1>0, <1>2, TracksUnchanged DEF FetchRaises
  <2> QED
    BY <1>0, <1>2, <2>1, FileUnchanged DEF FetchRaises, IndInv
<1>3. ASSUME NEW t \in Tracks, FetchJson(t) PROVE IndInv'
  <2>1. /\ t \in Remaining /\ \A u \in Remaining \ {t} : Before(t, u)
        /\ track = NoTrack /\ found = "searching" /\ tracks' = tracks /\ UNCHANGED fileVars
    BY <1>3 DEF FetchJson, Turn
  <2>2. CASE track' = t /\ found' = "transcript" /\ UNCHANGED outcome
    <3>1. TrackInv'
      BY <1>0, <2>1, <2>2, TrackAtHand
    <3> QED
      BY <1>0, <2>1, <3>1, FileUnchanged DEF IndInv
  <2>3. CASE outcome' = [outcome EXCEPT ![t] = "silent"] /\ UNCHANGED <<track, found>>
    <3>1. TrackInv'
      BY <1>0, <2>1, <2>3, PassedOver
    <3> QED
      BY <1>0, <2>1, <3>1, FileUnchanged DEF IndInv
  <2> QED
    BY <1>3, <2>2, <2>3 DEF FetchJson
<1>4. ASSUME NEW t \in Tracks, FetchFile(t) PROVE IndInv'
  <2>1. /\ t \in Remaining /\ \A u \in Remaining \ {t} : Before(t, u)
        /\ found = "searching" /\ t.ext # "json3" /\ Open(t.ext)
        /\ track' = t /\ UNCHANGED <<tracks, outcome, found>>
    BY <1>4 DEF FetchFile, Turn
  <2>2. t.ext \in {"vtt", "srt"}
    BY <1>0, <2>1, CandidateFacts DEF TrackInv, Remaining
  <2>3. FileInv'
    BY <2>1, <2>2, OpenFile
  <2>4. TrackInv'
    BY <1>0, <2>1, TrackAtHand
  <2> QED
    BY <2>3, <2>4 DEF IndInv
<1>5. CASE Write
  <2>1. TrackInv'
    BY <1>0, <1>5, TracksUnchanged DEF Write
  <2>2. FileInv'
    BY <1>0, <1>5, CommentInFile, CueInFile DEF Write
  <2> QED
    BY <2>1, <2>2 DEF IndInv
<1>6. CASE Parse
  <2>1. found = "searching" /\ track # NoTrack /\ tracks' = tracks
    BY <1>6 DEF Parse
  <2>2. CASE Transcript # << >>
    <3>1. found' = "transcript" /\ UNCHANGED <<fileVars, track, outcome>>
      BY <1>6, <2>2 DEF Parse
    <3>2. TrackInv'
      BY <1>0, <2>1, <3>1, TracksUnchanged
    <3> QED
      BY <1>0, <3>1, <3>2, FileUnchanged DEF IndInv
  <2>3. CASE Transcript = << >>
    <3>1. ~HasWords
      BY <1>0, <2>3, WordsAreKept
    <3>2. /\ outcome' = [outcome EXCEPT ![track] = "silent"]
          /\ track' = NoTrack /\ Close /\ found' = found
      BY <1>6, <2>3, <3>1 DEF Parse
    <3>3. track \in Remaining /\ \A u \in Remaining \ {track} : Before(track, u)
      BY <1>0, <2>1 DEF TrackInv
    <3>4. TrackInv'
      BY <1>0, <2>1, <3>2, <3>3, PassedOver
    <3> QED
      BY <3>2, <3>4, CloseFile DEF IndInv
  <2> QED
    BY <2>2, <2>3
<1>7. CASE GiveUp
  <2>1. TrackInv'
    BY <1>0, <1>7, TracksUnchanged DEF GiveUp
  <2> QED
    BY <1>0, <1>7, <2>1, FileUnchanged DEF GiveUp, IndInv
<1>8. CASE UNCHANGED vars
  <2>1. TrackInv'
    BY <1>0, <1>8, TracksUnchanged DEF vars
  <2> QED
    BY <1>0, <1>8, <2>1, FileUnchanged DEF vars, IndInv
<1> QED
  BY <1>1, <1>2, <1>3, <1>4, <1>5, <1>6, <1>7, <1>8 DEF Next

\* Every reachable state of a search, of any number of tracks and cues.
THEOREM Invariance == Spec => []IndInv
  BY Initially, Step, PTL DEF Spec

\* TypeOK: a transcript names lines of its file, and every track has an outcome.
THEOREM TypeCorrect == Spec => []TypeOK
<1>1. IndInv => TypeOK
  BY FileTypes DEF IndInv, TrackInv, TypeOK
<1> QED
  BY <1>1, Invariance, PTL

\* ExactWhenUnambiguous: whatever the length of a file and the order of its cues,
\* comments and style sheets, the parsers keep what is said, whole and in order,
\* when no line looks like something else.
THEOREM ParsersAreExact == Spec => []ExactWhenUnambiguous
<1>1. IndInv => ExactWhenUnambiguous
  BY FileExact DEF IndInv
<1> QED
  BY <1>1, Invariance, PTL

\* BestTrackWins: of any list of tracks, those passed over are better than the one
\* at hand, could not be fetched or say nothing, and none that remains is better.
THEOREM BestTrack == Spec => []BestTrackWins
<1>1. IndInv => BestTrackWins
  <2> SUFFICES ASSUME TrackInv, NEW t \in Candidates
               PROVE  /\ outcome[t] # "words"
                      /\ found = "none" => outcome[t] # "unasked"
                      /\ found = "transcript" /\ Better(t, track) => outcome[t] # "unasked"
                      /\ outcome[t] # "unasked" /\ track # NoTrack => Better(t, track)
    BY DEF IndInv, BestTrackWins
  <2>1. tracks \subseteq Tracks /\ outcome[t] # "words"
    BY DEF TrackInv
  <2>2. found = "none" => outcome[t] # "unasked"
    BY DEF TrackInv, Remaining
  <2>3. track # NoTrack =>
          /\ track \in Candidates /\ track \in Remaining
          /\ \A u \in Remaining \ {track} : Before(track, u)
    BY DEF TrackInv, Remaining
  <2>4. found = "transcript" /\ Better(t, track) => outcome[t] # "unasked"
    <3> SUFFICES ASSUME found = "transcript", Better(t, track), outcome[t] = "unasked"
                 PROVE  FALSE
      OBVIOUS
    <3>1. track # NoTrack
      BY DEF TrackInv
    <3>2. Before(t, track)
      BY <2>1, <2>3, <3>1, LoopsPreferTheBetter
    <3>3. t = track \/ Before(track, t)
      BY <2>3, <3>1 DEF Remaining
    <3> QED
      BY <2>1, <2>3, <3>1, <3>2, <3>3, LoopsPreferTheBetter
  <2>5. outcome[t] # "unasked" /\ track # NoTrack => Better(t, track)
    BY <2>1, <2>3, LoopsPreferTheBetter DEF TrackInv
  <2> QED
    BY <2>1, <2>2, <2>4, <2>5
<1> QED
  BY <1>1, Invariance, PTL

-----------------------------------------------------------------------------
(***************************************************************************)
(* Induction over numbers and sequences, by the first counterexample.      *)
(***************************************************************************)

\* A set of numbers has a least: what holds of the first and of the successor of
\* each holds of all, or else there is a first for which it does not.
LEMMA Least ==
  ASSUME NEW S \in SUBSET Nat, S # {}
  PROVE  \E m \in S : \A k \in S : m <= k
<1>1. PICK m \in S : \A k \in S : ~(<<k, m>> \in OpToRel(<, Nat))
  BY WFMin, NatLessThanWellFounded, Zenon
<1>2. \A k \in S : ~(k < m)
  BY <1>1 DEF OpToRel
<1> QED
  BY <1>2

\* What FlattenSeq adds up to.
Accumulates(C, s, n) ==
  \E f \in [1..n -> Seq(C)] :
    /\ f[1] = s[1]
    /\ \A i \in 2..n : f[i] = f[i - 1] \o s[i]
    /\ FlattenSeq(s) = f[n]

\* The recursion of FlattenSeq: each sequence is added to those before it.
LEMMA Flattened ==
  ASSUME NEW C, NEW s, NEW n \in Nat \ {0}, Len(s) = n, \A i \in 1..n : s[i] \in Seq(C)
  PROVE  Accumulates(C, s, n)
<1> DEFINE Body(f, m) == [i \in 1..m |-> IF i = 1 THEN s[i] ELSE f[i - 1] \o s[i]]
           Bad == {m \in 1..n : \A f : f # Body(f, m)}
<1>1. Bad = {}
  <2> SUFFICES ASSUME Bad # {} PROVE FALSE
    OBVIOUS
  <2>1. PICK m \in Bad : \A k \in Bad : m <= k
    <3> HIDE DEF Body
    <3>1. Bad \in SUBSET Nat
      OBVIOUS
    <3> HIDE DEF Bad
    <3> QED
      BY <3>1, Least
  <2>2. m \in 1..n /\ \A f : f # Body(f, m)
    OBVIOUS
  <2>3. CASE m = 1
    <3> DEFINE g == [i \in 1..1 |-> s[1]]
    <3>1. g = Body(g, 1)
      OBVIOUS
    <3> QED
      BY <2>2, <2>3, <3>1
  <2>4. CASE m # 1
    <3>1. m - 1 \in 1..n /\ ~(m <= m - 1)
      BY <2>2, <2>4
    <3>2. PICK f : f = Body(f, m - 1)
      <4>1. m - 1 \notin Bad
        BY <2>1, <3>1
      <4> HIDE DEF Body
      <4> QED
        BY <3>1, <4>1
    <3> DEFINE g == [i \in 1..m |-> IF i = m THEN f[m - 1] \o s[m] ELSE f[i]]
    <3>3. ASSUME NEW i \in 1..m PROVE g[i] = IF i = 1 THEN s[i] ELSE g[i - 1] \o s[i]
      <4>1. CASE i = 1
        <5>1. 1 \in 1..m - 1 /\ i # m
          BY <2>2, <2>4, <4>1
        <5>2. f[1] = s[1]
          BY <3>2, <5>1
        <5> QED
          BY <4>1, <5>1, <5>2
      <4>2. CASE i # 1 /\ i # m
        <5>1. i \in 1..m - 1 /\ i - 1 \in 1..m /\ i - 1 # m
          BY <2>2, <4>2
        <5>2. f[i] = f[i - 1] \o s[i]
          BY <3>2, <4>2, <5>1
        <5> QED
          BY <4>2, <5>1, <5>2
      <4>3. CASE i # 1 /\ i = m
        <5>1. i - 1 \in 1..m /\ i - 1 # m
          BY <2>2, <4>3
        <5> QED
          BY <4>3, <5>1
      <4> QED
        BY <4>1, <4>2, <4>3
    <3>4. g = Body(g, m)
      BY <3>3
    <3> QED
      BY <2>2, <3>4
  <2> QED
    BY <2>3, <2>4
<1>2. \E f : f = Body(f, n)
  <2>1. n \in 1..n
    OBVIOUS
  <2> HIDE DEF Body
  <2>2. ~(\A f : f # Body(f, n))
    BY <1>1, <2>1
  <2> QED
    BY <2>2
<1> DEFINE F == CHOOSE f : f = Body(f, n)
<1>3. F = Body(F, n)
  BY <1>2
<1>4. FlattenSeq(s) = F[n]
  BY DEF FlattenSeq
<1> HIDE DEF F
<1>5. F[1] = s[1] /\ \A i \in 2..n : F[i] = F[i - 1] \o s[i]
  <2>1. 1 \in 1..n /\ \A i \in 2..n : i \in 1..n /\ i # 1
    OBVIOUS
  <2> QED
    BY <1>3, <2>1
<1>6. \A i \in 1..n : F[i] \in Seq(C)
  <2> DEFINE Wild == {i \in 1..n : F[i] \notin Seq(C)}
  <2> SUFFICES ASSUME Wild # {} PROVE FALSE
    OBVIOUS
  <2>1. PICK i \in Wild : \A k \in Wild : i <= k
    <3>1. Wild \in SUBSET Nat
      OBVIOUS
    <3> HIDE DEF Wild
    <3> QED
      BY <3>1, Least
  <2>2. i # 1
    BY <1>5
  <2>3. i \in 2..n /\ i - 1 \in 1..n /\ ~(i <= i - 1)
    BY <2>2
  <2>4. F[i - 1] \in Seq(C) /\ s[i] \in Seq(C) /\ F[i] = F[i - 1] \o s[i]
    BY <1>5, <2>1, <2>3
  <2>5. F[i - 1] \o s[i] \in Seq(C)
    BY <2>4
  <2>6. F[i] \notin Seq(C)
    OBVIOUS
  <2> QED
    BY <2>4, <2>5, <2>6
<1> QED
  <2>1. F \in [1..n -> Seq(C)]
    BY <1>3, <1>6
  <2> QED
    BY <1>4, <1>5, <2>1 DEF Accumulates

-----------------------------------------------------------------------------
(***************************************************************************)
(* A value of the frontmatter, written and read back.                      *)
(***************************************************************************)
Size == Len(value)

\* The length of what is written for the first k characters: a quote takes two.
Off(k) == k + Cardinality({j \in 1..k : value[j] = "quote"})

\* What is written for each character stands where those before it end.
Layout ==
  /\ Len(text) = Off(Size) + 2
  /\ \A k \in 1..Size : \A i \in 1..Len(Written(value[k])) :
       text[Off(k - 1) + i] = Written(value[k])[i]
  /\ text[Off(Size) + 1] = "quote" /\ text[Off(Size) + 2] = "newline"

ReadSoFar ==
  /\ Len(read) <= Size
  /\ at = Off(Len(read)) + 1
  /\ \A i \in 1..Len(read) : read[i] = value[i]

Plain == \A i \in DOMAIN value : value[i] \in {"letter", "quote"}

MatterInv ==
  /\ MatterTypeOK
  /\ status = "writing" => at = 1 /\ read = << >>
  /\ status # "writing" => Layout
  /\ Plain => /\ status # "malformed"
              /\ status = "reading" => ReadSoFar
              /\ status = "closed" => read = value

LEMMA WrittenFacts ==
  /\ \A c \in Char : Written(c) \in Seq(Char)
  /\ \A c : c = "quote" => /\ Len(Written(c)) = 2
                           /\ Written(c)[1] = "backslash" /\ Written(c)[2] = "quote"
  /\ \A c : c # "quote" => Len(Written(c)) = 1 /\ Written(c)[1] = c
<1>1. /\ "quote" \in Char /\ "backslash" \in Char
  BY DEF Char
<1>2. \A c \in Char : <<c>> \in Seq(Char)
  OBVIOUS
<1>3. <<"backslash", "quote">> \in Seq(Char)
  BY <1>1
<1>4. \A c \in Char : Written(c) \in Seq(Char)
  BY <1>2, <1>3 DEF Written
<1>5. \A c : c # "quote" => Len(Written(c)) = 1 /\ Written(c)[1] = c
  BY DEF Written
<1>6. \A c : c = "quote" =>
        /\ Len(Written(c)) = 2
        /\ Written(c)[1] = "backslash" /\ Written(c)[2] = "quote"
  BY DEF Written
<1> QED
  BY <1>4, <1>5, <1>6

LEMMA Offsets ==
  /\ Off(0) = 0
  /\ \A k \in Nat : Off(k) \in Nat
  /\ \A k \in Nat \ {0} : Off(k) = Off(k - 1) + Len(Written(value[k]))
<1> DEFINE Quotes(k) == {j \in 1..k : value[j] = "quote"}
<1>1. ASSUME NEW k \in Nat PROVE IsFiniteSet(Quotes(k)) /\ Cardinality(Quotes(k)) \in Nat
  <2>1. IsFiniteSet(1..k) /\ Quotes(k) \subseteq 1..k
    BY FS_Interval
  <2> HIDE DEF Quotes
  <2>2. IsFiniteSet(Quotes(k))
    BY <2>1, FS_Subset
  <2> QED
    BY <2>2, FS_CardinalityType
<1>2. Off(0) = 0
  <2>1. Quotes(0) = {}
    OBVIOUS
  <2>2. Cardinality({}) = 0
    BY FS_EmptySet
  <2>3. Off(0) = 0 + Cardinality(Quotes(0))
    BY DEF Off
  <2> HIDE DEF Quotes
  <2> QED
    BY <2>1, <2>2, <2>3
<1>3. \A k \in Nat : Off(k) = k + Cardinality(Quotes(k))
  BY DEF Off
<1>4. ASSUME NEW k \in Nat \ {0} PROVE Off(k) = Off(k - 1) + Len(Written(value[k]))
  <2>0. k - 1 \in Nat /\ k \in Nat
    OBVIOUS
  <2>1. CASE value[k] = "quote"
    <3>1. Quotes(k) = Quotes(k - 1) \cup {k} /\ k \notin Quotes(k - 1)
      BY <2>1
    <3> HIDE DEF Quotes
    <3>2. Cardinality(Quotes(k)) = Cardinality(Quotes(k - 1)) + 1
      BY <1>1, <2>0, <3>1, FS_AddElement
    <3>3. Len(Written(value[k])) = 2
      BY <2>1, WrittenFacts
    <3> QED
      BY <1>1, <1>3, <2>0, <3>2, <3>3
  <2>2. CASE value[k] # "quote"
    <3>1. Quotes(k) = Quotes(k - 1)
      BY <2>2
    <3> HIDE DEF Quotes
    <3>2. Len(Written(value[k])) = 1
      BY <2>2, WrittenFacts
    <3> QED
      BY <1>1, <1>3, <2>0, <3>1, <3>2
  <2> QED
    BY <2>1, <2>2
<1> HIDE DEF Quotes
<1>5. \A k \in Nat : Off(k) \in Nat
  BY <1>1, <1>3
<1> QED
  BY <1>2, <1>4, <1>5

\* The text that Write makes of the value.
LEMMA WrittenText ==
  ASSUME NEW lines, lines = FlattenSeq([i \in DOMAIN value |-> Written(value[i])]),
         value \in Seq(Char)
  PROVE  /\ lines \in Seq(Char) /\ Len(lines) = Off(Size)
         /\ \A k \in 1..Size : \A i \in 1..Len(Written(value[k])) :
              /\ Off(k - 1) + i \in 1..Len(lines)
              /\ lines[Off(k - 1) + i] = Written(value[k])[i]
<1> DEFINE n == Len(value)
           w == [i \in DOMAIN value |-> Written(value[i])]
<1>1. /\ n \in Nat /\ Len(w) = n
      /\ \A i \in 1..n : value[i] \in Char /\ w[i] = Written(value[i])
  OBVIOUS
<1>2. \A i \in 1..n : w[i] \in Seq(Char)
  BY <1>1, WrittenFacts
<1>3. CASE n = 0
  <2>1. lines = << >>
    <3>1. w = << >>
      BY <1>3
    <3> QED
      BY <1>1, <1>3, <3>1 DEF FlattenSeq
  <2>2. Size = 0 /\ Off(0) = 0 /\ 1..0 = {}
    BY <1>3, Offsets DEF Size
  <2>3. << >> \in Seq(Char) /\ Len(<< >>) = 0
    OBVIOUS
  <2> QED
    BY <2>1, <2>2, <2>3
<1>4. CASE n # 0
  <2>0. lines = FlattenSeq(w)
    OBVIOUS
  <2> HIDE DEF w, n
  <2>1. PICK f \in [1..n -> Seq(Char)] :
          /\ f[1] = w[1]
          /\ \A i \in 2..n : f[i] = f[i - 1] \o w[i]
          /\ FlattenSeq(w) = f[n]
    <3>1. n \in Nat \ {0}
      BY <1>1, <1>4
    <3>2. Accumulates(Char, w, n)
      BY <1>1, <1>2, <3>1, Flattened
    <3> QED
      BY <3>2 DEF Accumulates
  <2> DEFINE Fits(k) ==
               /\ Len(f[k]) = Off(k)
               /\ \A j \in 1..k : \A i \in 1..Len(w[j]) :
                    Off(j - 1) + i \in 1..Len(f[k]) /\ f[k][Off(j - 1) + i] = w[j][i]
             Bad == {k \in 1..n : ~Fits(k)}
  <2>2. ASSUME NEW k \in 1..n, k # 1 => Fits(k - 1) PROVE Fits(k)
    <3>1. k \in Nat \ {0} /\ f[k] \in Seq(Char) /\ w[k] \in Seq(Char)
      BY <1>1, <1>2
    <3>2. Off(k) = Off(k - 1) + Len(w[k]) /\ Off(k - 1) \in Nat /\ Len(w[k]) \in Nat
      BY <1>1, <3>1, Offsets
    <3>3. CASE k = 1
      <4>1. f[k] = w[k] /\ Off(k - 1) = 0
        BY <2>1, <3>3, Offsets
      <4>2. \A j \in 1..k : j = k
        BY <3>3
      <4> QED
        BY <3>1, <3>2, <4>1, <4>2
    <3>4. CASE k # 1
      <4>1. k \in 2..n /\ k - 1 \in 1..n
        BY <1>1, <3>4
      <4>2. f[k] = f[k - 1] \o w[k] /\ f[k - 1] \in Seq(Char)
        BY <2>1, <4>1
      <4>3. Len(f[k - 1]) = Off(k - 1)
        BY <2>2, <3>4
      <4> DEFINE head == f[k - 1]
                 tail == w[k]
      <4>c. /\ Len(head \o tail) = Len(head) + Len(tail)
            /\ \A i \in 1..Len(head) : (head \o tail)[i] = head[i]
            /\ \A i \in 1..Len(tail) : (head \o tail)[Len(head) + i] = tail[i]
        <5>1. head \in Seq(Char) /\ tail \in Seq(Char)
          BY <3>1, <4>2
        <5> HIDE DEF head, tail
        <5> QED
          BY <5>1
      <4>4. Len(f[k]) = Off(k)
        BY <3>2, <4>2, <4>3, <4>c
      <4>5. ASSUME NEW j \in 1..k, NEW i \in 1..Len(w[j])
            PROVE  Off(j - 1) + i \in 1..Len(f[k]) /\ f[k][Off(j - 1) + i] = w[j][i]
        <5>1. CASE j = k
          <6>1. i \in 1..Len(w[k]) /\ Off(k - 1) + i \in 1..Off(k)
            BY <3>2, <5>1
          <6>2. f[k][Off(k - 1) + i] = w[k][i]
            BY <4>2, <4>3, <4>c, <6>1
          <6> QED
            BY <4>4, <5>1, <6>1, <6>2
        <5>2. CASE j # k
          <6>1. j \in 1..k - 1
            BY <3>1, <5>2
          <6>2. Off(j - 1) + i \in 1..Len(f[k - 1]) /\ f[k - 1][Off(j - 1) + i] = w[j][i]
            BY <2>2, <3>4, <6>1
          <6>3. f[k][Off(j - 1) + i] = w[j][i]
            BY <4>2, <4>c, <6>2
          <6>4. Off(k - 1) <= Off(k) /\ Off(k) \in Nat
            BY <3>2
          <6> QED
            BY <3>2, <4>3, <4>4, <6>2, <6>3, <6>4
        <5> QED
          BY <5>1, <5>2
      <4> QED
        BY <4>4, <4>5
    <3> QED
      BY <3>3, <3>4
  <2> HIDE DEF Fits
  <2>3. Bad = {}
    <3> SUFFICES ASSUME Bad # {} PROVE FALSE
      OBVIOUS
    <3>1. PICK k \in Bad : \A j \in Bad : k <= j
      <4>1. Bad \in SUBSET Nat
        BY <1>1
      <4> HIDE DEF Bad
      <4> QED
        BY <4>1, Least
    <3>2. k \in 1..n /\ ~Fits(k)
      OBVIOUS
    <3>3. k # 1 => k - 1 \in 1..n /\ ~(k <= k - 1)
      BY <1>1, <3>2
    <3>4. k # 1 => Fits(k - 1)
      BY <3>1, <3>3
    <3> QED
      BY <2>2, <3>2, <3>4
  <2>4. Fits(n) /\ n \in 1..n
    <3>1. n \in 1..n
      BY <1>1, <1>4
    <3> QED
      BY <2>3, <3>1
  <2>5. lines = f[n] /\ lines \in Seq(Char)
    BY <2>0, <2>1, <2>4
  <2> QED
    BY <1>1, <2>4, <2>5 DEF Fits, Size, n
<1> QED
  BY <1>3, <1>4

LEMMA MatterInitially == MatterInit => MatterInv
<1> SUFFICES ASSUME MatterInit PROVE MatterInv
  OBVIOUS
<1>1. PICK n \in 0..MaxLength : value \in [1..n -> Char]
  BY DEF MatterInit
<1>2. n \in Nat /\ n <= MaxLength
  OBVIOUS
<1>3. value \in Seq(Char) /\ Len(value) = n
  BY <1>1, <1>2
<1>4. text = << >> /\ at = 1 /\ read = << >> /\ status = "writing"
  BY DEF MatterInit
<1>5. << >> \in Seq(Char) /\ << >> \in Seq(ReadChar) /\ 1 \in 1..Len(<< >>) + 1
  OBVIOUS
<1>6. MatterTypeOK
  BY <1>2, <1>3, <1>4, <1>5 DEF MatterTypeOK
<1> QED
  BY <1>4, <1>6 DEF MatterInv

\* The text once written: it is that of the value and ends its line.
LEMMA WrittenDown ==
  ASSUME MatterInv, WriteValue
  PROVE  MatterInv'
<1>0. /\ value \in Seq(Char) /\ Len(value) <= MaxLength
      /\ status = "writing" /\ at = 1 /\ read = << >>
      /\ value' = value /\ at' = at /\ read' = read /\ status' = "reading"
  BY DEF MatterInv, MatterTypeOK, WriteValue
<1> DEFINE lines == FlattenSeq([i \in DOMAIN value |-> Written(value[i])])
<1>1. /\ lines \in Seq(Char) /\ Len(lines) = Off(Size)
      /\ \A k \in 1..Size : \A i \in 1..Len(Written(value[k])) :
           /\ Off(k - 1) + i \in 1..Len(lines)
           /\ lines[Off(k - 1) + i] = Written(value[k])[i]
  BY <1>0, WrittenText
<1>2. text' = lines \o <<"quote", "newline">>
  BY DEF WriteValue
<1> HIDE DEF lines
<1>3. <<"quote", "newline">> \in Seq(Char)
  <2>1. "quote" \in Char /\ "newline" \in Char
    BY DEF Char
  <2> QED
    BY <2>1
<1>4. /\ text' \in Seq(Char) /\ Len(text') = Len(lines) + 2
      /\ text'[Len(lines) + 1] = "quote" /\ text'[Len(lines) + 2] = "newline"
      /\ \A i \in 1..Len(lines) : text'[i] = lines[i]
  <2> DEFINE close == <<"quote", "newline">>
  <2>1. Len(close) = 2 /\ close[1] = "quote" /\ close[2] = "newline" /\ 1 \in 1..2 /\ 2 \in 1..2
    OBVIOUS
  <2>2. close \in Seq(Char) /\ text' = lines \o close
    BY <1>2, <1>3
  <2> HIDE DEF close
  <2>3. /\ lines \o close \in Seq(Char)
        /\ Len(lines \o close) = Len(lines) + Len(close)
        /\ \A i \in 1..Len(lines) : (lines \o close)[i] = lines[i]
        /\ \A i \in 1..Len(close) : (lines \o close)[Len(lines) + i] = close[i]
    <3>1. lines \in Seq(Char) /\ close \in Seq(Char)
      BY <1>1, <2>2
    <3> QED
      BY ONLY <3>1
  <2> QED
    BY <2>1, <2>2, <2>3
<1>5. Size' = Size /\ \A k : Off(k)' = Off(k)
  BY <1>0 DEF Size, Off
<1>6. Layout'
  <2>1. Len(text') = Off(Size) + 2 /\ text'[Off(Size) + 1] = "quote" /\ text'[Off(Size) + 2] = "newline"
    BY <1>1, <1>4
  <2>2. \A k \in 1..Size : \A i \in 1..Len(Written(value[k])) :
          text'[Off(k - 1) + i] = Written(value[k])[i]
    BY <1>1, <1>4
  <2> QED
    BY <1>0, <1>5, <2>1, <2>2 DEF Layout
<1>7. MatterTypeOK'
  <2>1. 1 \in 1..Len(text') + 1
    BY <1>1, <1>4
  <2>2. << >> \in Seq(ReadChar)
    OBVIOUS
  <2> QED
    BY <1>0, <1>4, <2>1, <2>2 DEF MatterTypeOK
<1>8. ReadSoFar'
  <2>1. Len(read') = 0 /\ at' = 1 /\ Size \in Nat
    BY <1>0 DEF Size
  <2>2. Off(0) = 0
    BY Offsets
  <2> QED
    BY <1>5, <2>1, <2>2 DEF ReadSoFar
<1> QED
  BY <1>0, <1>6, <1>7, <1>8 DEF MatterInv

\* Nothing that is written changes while it is read.
LEMMA WrittenStays ==
  ASSUME UNCHANGED <<value, text>>
  PROVE  /\ Size' = Size /\ \A k : Off(k)' = Off(k)
         /\ Layout' <=> Layout
         /\ Plain' <=> Plain
<1>1. Size' = Size /\ \A k : Off(k)' = Off(k)
  BY DEF Size, Off
<1> QED
  BY <1>1 DEF Layout, Plain

\* What the reader of letters and quotes has before it.
LEMMA WhatComesNext ==
  ASSUME MatterInv, Plain, status = "reading"
  PROVE  LET k == Len(read)
         IN  /\ k \in 0..Size
             /\ k < Size /\ value[k + 1] = "letter" =>
                  text[at] = "letter" /\ at + 1 = Off(k + 1) + 1
             /\ k < Size /\ value[k + 1] = "quote" =>
                  text[at] = "backslash" /\ text[at + 1] = "quote" /\ at + 2 = Off(k + 1) + 1
             /\ k < Size => value[k + 1] \in {"letter", "quote"}
             /\ k = Size => /\ read = value
                           /\ text[at] = "quote" /\ at + 1 = Len(text) /\ text[at + 1] = "newline"
<1> DEFINE k == Len(read)
<1>1. /\ value \in Seq(Char) /\ read \in Seq(ReadChar)
      /\ Layout /\ ReadSoFar
  BY DEF MatterInv, MatterTypeOK
<1>2. k \in Nat /\ Size \in Nat /\ k <= Size /\ at = Off(k) + 1
  BY <1>1 DEF ReadSoFar, Size
<1>3. Off(k) \in Nat /\ (k + 1) - 1 = k /\ k + 1 \in Nat \ {0}
  <2>1. (k + 1) - 1 = k /\ k + 1 \in Nat \ {0}
    BY <1>2
  <2> HIDE DEF k
  <2>2. Off(k) \in Nat
    BY <1>2, Offsets
  <2> QED
    BY <2>1, <2>2
<1>4. Off(k + 1) = Off(k) + Len(Written(value[k + 1]))
  BY <1>3, Offsets
<1>5. k < Size =>
        /\ value[k + 1] \in {"letter", "quote"}
        /\ \A i \in 1..Len(Written(value[k + 1])) :
             text[Off(k) + i] = Written(value[k + 1])[i]
  <2> SUFFICES ASSUME k < Size
               PROVE  /\ value[k + 1] \in {"letter", "quote"}
                      /\ \A i \in 1..Len(Written(value[k + 1])) :
                           text[Off(k) + i] = Written(value[k + 1])[i]
    OBVIOUS
  <2>1. k + 1 \in 1..Size
    BY <1>2
  <2>2. value[k + 1] \in {"letter", "quote"}
    BY <1>1, <2>1 DEF Plain, Size
  <2> QED
    BY <1>1, <1>3, <2>1, <2>2 DEF Layout
<1>6. k < Size /\ value[k + 1] = "letter" => text[at] = "letter" /\ at + 1 = Off(k + 1) + 1
  <2> SUFFICES ASSUME k < Size, value[k + 1] = "letter"
               PROVE  text[at] = "letter" /\ at + 1 = Off(k + 1) + 1
    OBVIOUS
  <2>1. /\ Len(Written(value[k + 1])) = 1 /\ Written(value[k + 1])[1] = "letter"
        /\ 1 \in 1..1
    BY WrittenFacts
  <2> QED
    BY <1>2, <1>3, <1>4, <1>5, <2>1
<1>7. k < Size /\ value[k + 1] = "quote" =>
        text[at] = "backslash" /\ text[at + 1] = "quote" /\ at + 2 = Off(k + 1) + 1
  <2> SUFFICES ASSUME k < Size, value[k + 1] = "quote"
               PROVE  text[at] = "backslash" /\ text[at + 1] = "quote" /\ at + 2 = Off(k + 1) + 1
    OBVIOUS
  <2>1. /\ Len(Written(value[k + 1])) = 2 /\ 1 \in 1..2 /\ 2 \in 1..2
        /\ Written(value[k + 1])[1] = "backslash" /\ Written(value[k + 1])[2] = "quote"
    BY WrittenFacts
  <2>2. text[Off(k) + 1] = "backslash" /\ text[Off(k) + 2] = "quote"
    BY <1>5, <2>1
  <2>3. at + 1 = Off(k) + 2 /\ at + 2 = Off(k + 1) + 1
    <3>1. Off(k + 1) = Off(k) + 2
      BY <1>4, <2>1
    <3>2. at = Off(k) + 1 /\ Off(k) \in Nat
      BY <1>2, <1>3
    <3> QED
      BY <3>1, <3>2
  <2> QED
    BY <1>2, <2>2, <2>3
<1>8. k = Size => /\ read = value
                  /\ text[at] = "quote" /\ at + 1 = Len(text) /\ text[at + 1] = "newline"
  <2> SUFFICES ASSUME k = Size
               PROVE  /\ read = value
                      /\ text[at] = "quote" /\ at + 1 = Len(text) /\ text[at + 1] = "newline"
    OBVIOUS
  <2>1. Len(read) = Len(value) /\ \A i \in 1..Len(read) : read[i] = value[i]
    BY <1>1 DEF ReadSoFar, Size
  <2>2. read = value
    BY <1>1, <2>1, SeqEqual
  <2>3. Len(text) = Off(k) + 2 /\ text[Off(k) + 1] = "quote" /\ text[Off(k) + 2] = "newline"
    BY <1>1 DEF Layout
  <2>4. at + 1 = Off(k) + 2
    BY <1>2, <1>3
  <2> QED
    BY <1>2, <2>2, <2>3, <2>4
<1> QED
  BY <1>2, <1>5, <1>6, <1>7, <1>8

\* One more character of the value is read.
LEMMA ReadOne ==
  ASSUME MatterInv, Plain, status = "reading", Len(read) < Size,
         value[Len(read) + 1] \in ReadChar,
         at' = Off(Len(read) + 1) + 1, read' = read \o <<value[Len(read) + 1]>>,
         UNCHANGED <<value, text>>
  PROVE  ReadSoFar'
<1> DEFINE k == Len(read)
           c == value[k + 1]
<1>1. read \in Seq(ReadChar) /\ ReadSoFar /\ value \in Seq(Char)
  BY DEF MatterInv, MatterTypeOK
<1>2. k \in Nat /\ Size \in Nat /\ k + 1 <= Size
  BY <1>1 DEF Size
<1>3. /\ Len(read') = k + 1 /\ read'[k + 1] = c
      /\ \A i \in 1..k : read'[i] = read[i]
  <2>1. read' = read \o <<c>> /\ c \in ReadChar
    OBVIOUS
  <2> HIDE DEF c
  <2> QED
    BY <1>1, <2>1
<1>4. \A i \in 1..k + 1 : read'[i] = value[i]
  <2>1. \A i \in 1..k : read'[i] = value[i]
    BY <1>1, <1>3 DEF ReadSoFar
  <2>2. \A i \in 1..k + 1 : i \in 1..k \/ i = k + 1
    BY <1>2
  <2> QED
    BY <1>3, <2>1, <2>2
<1> QED
  BY <1>2, <1>3, <1>4, WrittenStays DEF ReadSoFar

\* What each step of the reader does to the place it is at and to what it has read.
LEMMA ReadTypes ==
  ASSUME MatterInv, status = "reading",
         ReadLetter \/ ReadEscape \/ ReadBreaks \/ ReadQuote
  PROVE  MatterTypeOK' /\ UNCHANGED <<value, text>> /\ status' # "writing"
<1>1. /\ value \in Seq(Char) /\ Len(value) <= MaxLength /\ text \in Seq(Char)
      /\ at \in 1..Len(text) + 1 /\ read \in Seq(ReadChar)
      /\ Layout
  BY DEF MatterInv, MatterTypeOK
<1>2. Len(text) \in Nat /\ text[Len(text)] = "newline"
  <2>1. value \in Seq(Char) => Size \in Nat
    BY DEF Size
  <2>2. Off(Size) \in Nat
    BY <1>1, <2>1, Offsets
  <2>3. Len(text) = Off(Size) + 2 /\ text[Off(Size) + 2] = "newline"
    BY <1>1 DEF Layout
  <2> QED
    BY <2>2, <2>3
<1>3. ASSUME NEW d \in Nat, NEW chars \in Seq(ReadChar), Take(d, chars),
             at + d <= Len(text) + 1
      PROVE  MatterTypeOK' /\ UNCHANGED <<value, text>> /\ status' # "writing"
  <2>1. at' = at + d /\ read' = read \o chars /\ UNCHANGED <<value, text, status>>
    BY <1>3 DEF Take
  <2>2. at' \in 1..Len(text) + 1
    BY <1>1, <1>2, <1>3, <2>1
  <2>3. read' \in Seq(ReadChar)
    BY <1>1, <2>1
  <2> QED
    BY <1>1, <2>1, <2>2, <2>3 DEF MatterTypeOK
<1>4. ASSUME NEW how \in {"closed", "malformed"}, End(how)
      PROVE  MatterTypeOK' /\ UNCHANGED <<value, text>> /\ status' # "writing"
  BY <1>1, <1>4 DEF End, MatterTypeOK
<1>5. ASSUME NEW c \in ReadChar PROVE <<c>> \in Seq(ReadChar)
  OBVIOUS
<1>6. /\ {"letter", "quote", "backslash", "newline", "space", "escaped"} \subseteq ReadChar
      /\ << >> \in Seq(ReadChar)
  BY DEF Char, ReadChar
<1>7. CASE ReadLetter
  <2>1. Take(1, <<"letter">>) /\ at <= Len(text)
    BY <1>7 DEF ReadLetter, Here
  <2>2. at + 1 <= Len(text) + 1 /\ 1 \in Nat
    BY <1>1, <1>2, <2>1
  <2>3. <<"letter">> \in Seq(ReadChar)
    BY <1>5, <1>6
  <2> QED
    BY <1>3, <2>1, <2>2, <2>3
<1>8. CASE ReadEscape
  <2>1. at <= Len(text) /\ text[at] = "backslash"
    BY <1>8 DEF ReadEscape, Here
  <2>2. at + 2 <= Len(text) + 1 /\ 2 \in Nat
    BY <1>1, <1>2, <2>1
  <2>3. CASE text[at + 1] \in {"quote", "backslash"} /\ Take(2, <<text[at + 1]>>)
    BY <1>3, <1>5, <1>6, <2>2, <2>3
  <2>4. CASE Take(2, << >>)
    BY <1>3, <1>6, <2>2, <2>4
  <2>5. CASE Take(2, <<"escaped">>)
    BY <1>3, <1>5, <1>6, <2>2, <2>5
  <2>6. CASE End("malformed")
    BY <1>4, <2>6
  <2> QED
    BY <1>8, <2>3, <2>4, <2>5, <2>6 DEF ReadEscape
<1>9. CASE ReadBreaks
  <2> DEFINE after == {i \in at..Len(text) : text[i] # "newline"}
             n == CHOOSE i \in after : \A j \in after : i <= j
             breaks == IF n - at = 1 THEN <<"space">> ELSE [i \in 1..n - at - 1 |-> "newline"]
  <2>1. /\ text[at] = "newline"
        /\ IF after = {} THEN End("malformed") ELSE Take(n - at, breaks)
    BY <1>9 DEF ReadBreaks, Here
  <2>2. CASE after = {}
    BY <1>4, <2>1, <2>2
  <2>3. CASE after # {}
    <3>1. after \in SUBSET Nat
      BY <1>1
    <3>2. \E i \in after : \A j \in after : i <= j
      <4> HIDE DEF after
      <4> QED
        BY <2>3, <3>1, Least
    <3>3. n \in after
      <4> HIDE DEF after
      <4> QED
        BY <3>2
    <3> HIDE DEF n
    <3>4. n \in at..Len(text) /\ n # at
      BY <2>1, <3>3
    <3>5. /\ n - at \in Nat /\ n - at - 1 \in Nat
          /\ at + (n - at) <= Len(text) + 1
      BY <1>1, <1>2, <3>4
    <3>6. breaks \in Seq(ReadChar)
      <4>1. [i \in 1..n - at - 1 |-> "newline"] \in Seq(ReadChar)
        BY <1>6, <3>5
      <4>2. <<"space">> \in Seq(ReadChar)
        BY <1>5, <1>6
      <4> QED
        BY <4>1, <4>2
    <3>7. Take(n - at, breaks)
      BY <2>1, <2>3
    <3> HIDE DEF breaks
    <3> QED
      BY <1>3, <3>5, <3>6, <3>7
  <2> QED
    BY <2>2, <2>3
<1>10. CASE ReadQuote
  <2>1. End("closed") \/ End("malformed")
    BY <1>10 DEF ReadQuote
  <2> QED
    BY <1>4, <2>1
<1> QED
  BY <1>7, <1>8, <1>9, <1>10

\* What each step of the reader does when there are letters and quotes only.
LEMMA ReadPlain ==
  ASSUME MatterInv, status = "reading", Plain,
         ReadLetter \/ ReadEscape \/ ReadBreaks \/ ReadQuote
  PROVE  (status' = "reading" /\ ReadSoFar') \/ (status' = "closed" /\ read' = value')
<1> DEFINE k == Len(read)
<1>1. /\ k \in 0..Size
      /\ k < Size /\ value[k + 1] = "letter" =>
           text[at] = "letter" /\ at + 1 = Off(k + 1) + 1
      /\ k < Size /\ value[k + 1] = "quote" =>
           text[at] = "backslash" /\ text[at + 1] = "quote" /\ at + 2 = Off(k + 1) + 1
      /\ k < Size => value[k + 1] \in {"letter", "quote"}
      /\ k = Size => /\ read = value
                    /\ text[at] = "quote" /\ at + 1 = Len(text) /\ text[at + 1] = "newline"
  BY WhatComesNext
<1>2. k < Size \/ k = Size
  BY <1>1, ReadTypes DEF Size, MatterInv, MatterTypeOK
<1>3. {"letter", "quote"} \subseteq ReadChar
  BY DEF Char, ReadChar
<1>4. CASE k < Size /\ value[k + 1] = "letter"
  <2>1. ReadLetter
    BY <1>1, <1>4 DEF ReadEscape, ReadBreaks, ReadQuote, Here
  <2>2. /\ at' = at + 1 /\ read' = read \o <<"letter">>
        /\ UNCHANGED <<value, text, status>>
    BY <2>1 DEF ReadLetter, Take
  <2>3. at' = Off(Len(read) + 1) + 1 /\ read' = read \o <<value[Len(read) + 1]>>
    BY <1>1, <1>4, <2>2
  <2>4. Len(read) < Size /\ value[Len(read) + 1] \in ReadChar
    BY <1>3, <1>4
  <2> QED
    BY <2>2, <2>3, <2>4, ReadOne
<1>5. CASE k < Size /\ value[k + 1] = "quote"
  <2>1. ReadEscape
    BY <1>1, <1>5 DEF ReadLetter, ReadBreaks, ReadQuote, Here
  <2>2. /\ at' = at + 2 /\ read' = read \o <<"quote">>
        /\ UNCHANGED <<value, text, status>>
    BY <1>1, <1>5, <2>1 DEF ReadEscape, Take
  <2>3. at' = Off(Len(read) + 1) + 1 /\ read' = read \o <<value[Len(read) + 1]>>
    BY <1>1, <1>5, <2>2
  <2>4. Len(read) < Size /\ value[Len(read) + 1] \in ReadChar
    BY <1>3, <1>5
  <2> QED
    BY <2>2, <2>3, <2>4, ReadOne
<1>6. CASE k = Size
  <2>1. ReadQuote
    BY <1>1, <1>6 DEF ReadLetter, ReadEscape, ReadBreaks, Here
  <2>2. End("closed")
    BY <1>1, <1>6, <2>1 DEF ReadQuote
  <2> QED
    BY <1>1, <1>6, <2>2 DEF End
<1> QED
  BY <1>1, <1>2, <1>4, <1>5, <1>6

LEMMA MatterStep == MatterInv /\ [MatterNext]_(matterVars) => MatterInv'
<1> SUFFICES ASSUME MatterInv, [MatterNext]_(matterVars) PROVE MatterInv'
  OBVIOUS
<1>1. CASE WriteValue
  BY <1>1, WrittenDown
<1>2. CASE ReadLetter \/ ReadEscape \/ ReadBreaks \/ ReadQuote
  <2>1. status = "reading"
    BY <1>2 DEF ReadLetter, ReadEscape, ReadBreaks, ReadQuote, Here
  <2>2. MatterTypeOK' /\ UNCHANGED <<value, text>> /\ status' # "writing"
    BY <1>2, <2>1, ReadTypes
  <2>3. Layout' /\ (Plain' <=> Plain)
    BY <2>1, <2>2, WrittenStays DEF MatterInv
  <2>4. Plain => (status' = "reading" /\ ReadSoFar') \/ (status' = "closed" /\ read' = value')
    BY <1>2, <2>1, ReadPlain
  <2> QED
    BY <2>2, <2>3, <2>4 DEF MatterInv
<1>3. CASE UNCHANGED matterVars
  <2>1. UNCHANGED <<value, text, at, read, status>>
    BY <1>3 DEF matterVars
  <2>2. (Layout' <=> Layout) /\ (Plain' <=> Plain) /\ (ReadSoFar' <=> ReadSoFar)
    BY <2>1, WrittenStays DEF ReadSoFar
  <2> QED
    BY <2>1, <2>2 DEF MatterInv, MatterTypeOK
<1> QED
  BY <1>1, <1>2, <1>3 DEF MatterNext

\* Every reachable state of a value that is written and read, of any length.
THEOREM MatterInvariance == MatterSpec => []MatterInv
  BY MatterInitially, MatterStep, PTL DEF MatterSpec

\* TypeOK: the reader stays within the text, and reads characters.
THEOREM MatterTypeCorrect == MatterSpec => []MatterTypeOK
<1>1. MatterInv => MatterTypeOK
  BY DEF MatterInv
<1> QED
  BY <1>1, MatterInvariance, PTL

\* QuotesSurvive: a value of letters and quotes, of any length and with quotes
\* anywhere in it, is read back as _format_frontmatter was given it.
THEOREM QuotesAreReadBack == MatterSpec => []QuotesSurvive
<1>1. MatterInv => QuotesSurvive
  BY DEF MatterInv, Plain, QuotesSurvive
<1> QED
  BY <1>1, MatterInvariance, PTL
=============================================================================
