------------------------------- MODULE Recall -------------------------------
(***************************************************************************)
(* GET /api/v1/recall: recall handlers rank the in-memory embedding list   *)
(* while capture handlers append to it.  `records` is the live list, not a *)
(* copy: cosine_topk reads it three times (to stack the vectors, to        *)
(* compare its length with k, and to number its elements) and an append    *)
(* may fall between any two of them.  The process and its recalls are one  *)
(* of those that share the database: it loses its list and its handlers    *)
(* when it ends, and its next start fills the list from the embeddings     *)
(* table, which other processes write as well.                             *)
(*                                                                         *)
(* A vector is abstracted to its cosine score for each query; a degenerate *)
(* all-zero vector has the score NegInf, below every other.                *)
(***************************************************************************)
EXTENDS Naturals, Sequences, FiniteSets, SequencesExt, Ascending

CONSTANTS
  Captures,  \* the captures handlers may add
  Recalls,   \* the recall requests
  MaxScore,  \* scores of valid vectors are 1..MaxScore
  MaxLimit   \* bound on the limit parameter (100 in the API)

ASSUME BoundsAssumption == MaxScore \in Nat \ {0} /\ MaxLimit \in Nat \ {0}

VARIABLES
  up,        \* the daemon process is running
  rows,      \* committed captures rows
  embedded,  \* committed embeddings rows
  records,   \* app.state.embedding_records
  score,     \* score of each capture's vector, per recall query
  pc,        \* where each recall handler is
  limit,     \* its limit parameter
  known,     \* history: the records there were when it arrived
  size,      \* number of vectors it stacked
  ranked,    \* capture ids returned by cosine_topk
  hits,      \* capture ids answered
  code       \* HTTP status answered

storeVars == <<up, rows, embedded, records, score>>
recallVars == <<pc, limit, known, size, ranked, hits, code>>
vars == <<storeVars, recallVars>>

NegInf == 0

Elements(s) == {s[i] : i \in 1..Len(s)}

TypeOK ==
  /\ up \in BOOLEAN
  /\ rows \subseteq Captures
  /\ embedded \subseteq rows
  /\ records \in Seq(Captures)
  /\ score \in [Recalls -> [Captures -> NegInf..MaxScore]]
  /\ pc \in [Recalls -> {"idle", "embed", "stack", "compare", "arange",
                         "hydrate", "done", "lost"}]
  /\ limit \in [Recalls -> 0..MaxLimit]
  /\ known \in [Recalls -> SUBSET Captures]
  /\ size \in [Recalls -> 0..Cardinality(rows)]
  /\ ranked \in [Recalls -> Seq(Captures)]
  /\ hits \in [Recalls -> Seq(Captures)]
  /\ code \in [Recalls -> {"none", "200", "500", "503"}]

\* A vector is zero for every query or for none.
Init ==
  /\ up = FALSE
  /\ rows = {}
  /\ embedded = {}
  /\ records = << >>
  /\ \E zeros \in SUBSET Captures :
       score \in {s \in [Recalls -> [Captures -> NegInf..MaxScore]] :
                    \A t \in Recalls, c \in Captures : s[t][c] = NegInf <=> c \in zeros}
  /\ pc = [t \in Recalls |-> "idle"]
  /\ limit = [t \in Recalls |-> 0]
  /\ known = [t \in Recalls |-> {}]
  /\ size = [t \in Recalls |-> 0]
  /\ ranked = [t \in Recalls |-> << >>]
  /\ hits = [t \in Recalls |-> << >>]
  /\ code = [t \in Recalls |-> "none"]

-----------------------------------------------------------------------------
(***************************************************************************)
(* create_capture as recall sees it (CapturePipeline): rows are committed, *)
(* later their embeddings, in this process or another; a handler of this   *)
(* process appends its record after that, in rare cases without an         *)
(* embedding that was committed.                                           *)
(***************************************************************************)
Commit(R, E) ==
  /\ IsFiniteSet(R)
  /\ E \subseteq rows
  /\ rows' = rows \cup R
  /\ embedded' = embedded \cup E
  /\ UNCHANGED <<up, records, score, recallVars>>

AppendRecord(c) ==
  /\ up
  /\ c \in rows \ Elements(records)
  /\ records' = Append(records, c)
  /\ UNCHANGED <<up, rows, embedded, score, recallVars>>

\* The process dies with its list and its handlers.
Crash ==
  /\ up
  /\ up' = FALSE
  /\ records' = << >>
  /\ pc' = [t \in Recalls |-> IF pc[t] \in {"idle", "done"} THEN pc[t] ELSE "lost"]
  /\ UNCHANGED <<rows, embedded, score, limit, known, size, ranked, hits, code>>

\* The process starts: load_all_vectors names no order.
Restart ==
  /\ ~up
  /\ up' = TRUE
  /\ records' \in SetToSeqs(embedded)
  /\ UNCHANGED <<rows, embedded, score, recallVars>>

-----------------------------------------------------------------------------
(***************************************************************************)
(* numpy, over the n stacked vectors: argpartition and argsort break ties  *)
(* arbitrarily.                                                            *)
(***************************************************************************)
ScoreAt(t, i) == score[t][records[i]]

ArgPartition(t, n, k) ==
  {I \in SUBSET (1..n) : /\ Cardinality(I) = k
                         /\ \A i \in I, j \in (1..n) \ I : ScoreAt(t, i) >= ScoreAt(t, j)}

ArgSort(t, I) ==
  {s \in [1..Cardinality(I) -> I] :
     \A i, j \in 1..Cardinality(I) :
       i < j => s[i] # s[j] /\ ScoreAt(t, s[i]) >= ScoreAt(t, s[j])}

Valid(t) == {i \in 1..size[t] : ScoreAt(t, i) # NegInf}

\* Mutated form: degenerate vectors count as candidates.
KAll(t) == IF limit[t] < size[t] THEN limit[t] ELSE size[t]

\* k = min(limit, n_valid).
K(t) == IF limit[t] < Cardinality(Valid(t)) THEN limit[t] ELSE Cardinality(Valid(t))

-----------------------------------------------------------------------------
(***************************************************************************)
(* recall, step by step.                                                   *)
(***************************************************************************)
Goto(t, label) == pc' = [pc EXCEPT ![t] = label]

Answer(t, result, ids) ==
  /\ Goto(t, "done")
  /\ code' = [code EXCEPT ![t] = result]
  /\ hits' = [hits EXCEPT ![t] = ids]

Arrive(t, n) ==
  /\ up
  /\ pc[t] = "idle"
  /\ limit' = [limit EXCEPT ![t] = n]
  /\ known' = [known EXCEPT ![t] = Elements(records)]
  /\ IF records = << >>
       THEN Answer(t, "200", << >>)
       ELSE Goto(t, "embed") /\ UNCHANGED <<hits, code>>
  /\ UNCHANGED <<storeVars, size, ranked>>

EmbedQuery(t) ==
  /\ pc[t] = "embed"
  /\ Goto(t, "stack")
  /\ UNCHANGED <<storeVars, limit, known, size, ranked, hits, code>>

EmbedQueryFails(t) ==
  /\ pc[t] = "embed"
  /\ Answer(t, "503", << >>)
  /\ UNCHANGED <<storeVars, limit, known, size, ranked>>

\* Mutated form: one vector more than the list holds.
StackOneMore(t) ==
  /\ pc[t] = "stack"
  /\ size' = [size EXCEPT ![t] = Len(records) + 1]
  /\ Goto(t, "hydrate")
  /\ UNCHANGED <<storeVars, limit, known, ranked, hits, code>>

\* np.stack over the list as it is now, then the mask of valid vectors; no
\* valid vector, no result.
Stack(t) ==
  /\ pc[t] = "stack"
  /\ size' = [size EXCEPT ![t] = Len(records)]
  /\ Goto(t, IF \E c \in Elements(records) : score[t][c] # NegInf
               THEN "compare" ELSE "hydrate")
  /\ UNCHANGED <<storeVars, limit, known, ranked, hits, code>>

Rank(t, s) ==
  /\ ranked' = [ranked EXCEPT ![t] = [i \in 1..Len(s) |-> records[s[i]]]]
  /\ Goto(t, "hydrate")

\* Mutated form: one candidate too few is kept.
SelectTooFew(t) ==
  /\ pc[t] = "compare"
  /\ K(t) < Len(records)
  /\ \E I \in ArgPartition(t, size[t], K(t) - 1) : \E s \in ArgSort(t, I) : Rank(t, s)
  /\ UNCHANGED <<storeVars, limit, known, size, hits, code>>

\* Mutated form: the candidates are those of the list now, not of the stack.
SelectTopOfNow(t) ==
  /\ pc[t] = "compare"
  /\ K(t) < Len(records)
  /\ \E I \in ArgPartition(t, Len(records), K(t)) : \E s \in ArgSort(t, I) : Rank(t, s)
  /\ UNCHANGED <<storeVars, limit, known, size, hits, code>>

\* `if k < len(records)`: the list's length now.
SelectTop(t) ==
  /\ pc[t] = "compare"
  /\ K(t) < Len(records)
  /\ \E I \in ArgPartition(t, size[t], K(t)) : \E s \in ArgSort(t, I) : Rank(t, s)
  /\ UNCHANGED <<storeVars, limit, known, size, hits, code>>

SelectAll(t) ==
  /\ pc[t] = "compare"
  /\ K(t) >= Len(records)
  /\ Goto(t, "arange")
  /\ UNCHANGED <<storeVars, limit, known, size, ranked, hits, code>>

\* np.arange(len(records)): the length again, to index the stacked scores.
NumberAll(t) ==
  /\ pc[t] = "arange"
  /\ Len(records) <= size[t]
  /\ \E s \in ArgSort(t, 1..Len(records)) : Rank(t, s)
  /\ UNCHANGED <<storeVars, limit, known, size, hits, code>>

\* Mutated form: np.arange(len(records) + 1).
NumberAllFailsOffByOne(t) ==
  /\ pc[t] = "arange"
  /\ Len(records) + 1 > size[t]
  /\ Answer(t, "500", << >>)
  /\ UNCHANGED <<storeVars, limit, known, size, ranked>>

\* A longer list by now: IndexError, which nothing catches.
NumberAllFails(t) ==
  /\ pc[t] = "arange"
  /\ Len(records) > size[t]
  /\ Answer(t, "500", << >>)
  /\ UNCHANGED <<storeVars, limit, known, size, ranked>>

\* The ids whose rows are found, in the order of their ranks.
Hydrate(t) ==
  /\ pc[t] = "hydrate"
  /\ LET found == {i \in 1..Len(ranked[t]) : ranked[t][i] \in rows}
     IN  Answer(t, "200", [k \in 1..Cardinality(found) |-> ranked[t][Nth(found, k)]])
  /\ UNCHANGED <<storeVars, limit, known, size, ranked>>

Handler(t) ==
  \/ EmbedQuery(t)
  \/ EmbedQueryFails(t)
  \/ Stack(t)
  \/ SelectTop(t)
  \/ SelectAll(t)
  \/ NumberAll(t)
  \/ NumberAllFails(t)
  \/ Hydrate(t)

Next ==
  \/ \E R \in SUBSET (Captures \ rows), E \in SUBSET (rows \ embedded) : Commit(R, E)
  \/ \E c \in Captures : AppendRecord(c)
  \/ Crash
  \/ Restart
  \/ \E t \in Recalls, n \in 1..MaxLimit : Arrive(t, n)
  \/ \E t \in Recalls : Handler(t)

Spec == Init /\ [][Next]_vars

-----------------------------------------------------------------------------
Answered(t) == pc[t] = "done" /\ code[t] = "200"

\* Hits are distinct, in order of score, at most limit, and never a degenerate
\* vector, although the list grows between the reads that number it.
HitsAreRanked ==
  \A t \in Recalls : Answered(t) =>
    /\ Len(hits[t]) <= limit[t]
    /\ \A i, j \in 1..Len(hits[t]) : i < j =>
         hits[t][i] # hits[t][j] /\ score[t][hits[t][i]] >= score[t][hits[t][j]]
    /\ \A c \in Elements(hits[t]) : score[t][c] # NegInf

\* A record the list held when the recall arrived is left out only for limit
\* hits that score at least as high: a recall racing captures may miss the new
\* ones only.  Hydration drops nothing either: a record is in the list only when
\* its row is committed.
KnownRecordsCompete ==
  \A t \in Recalls : Answered(t) =>
    /\ hits[t] = ranked[t]
    /\ \A c \in known[t] \ Elements(hits[t]) :
         score[t][c] # NegInf =>
           /\ Len(hits[t]) = limit[t]
           /\ \A h \in Elements(hits[t]) : score[t][h] >= score[t][c]

\* A recall ends in a 500 only when a record was appended while it ran and its
\* limit left out none of the vectors it had stacked.
FailsOnlyForAnAppend ==
  [][\A t \in Recalls : code[t] # "500" /\ code'[t] = "500" =>
       known[t] # Elements(records) /\ size[t] <= limit[t]]_vars

-----------------------------------------------------------------------------
(***************************************************************************)
(* Stacking the vectors is the moment at which a recall looks: what is     *)
(* appended between the reads that follow changes nothing but a 500.       *)
(***************************************************************************)
Stacked(t) ==
  IF pc[t] \in {"compare", "arange", "hydrate"} THEN {records[i] : i \in 1..size[t]} ELSE {}

Looking(t) ==
  CASE pc[t] \in {"embed", "stack"} -> "asked"
    [] pc[t] \in {"compare", "arange", "hydrate"} -> "looked"
    [] OTHER -> pc[t]

AtomicRecall == INSTANCE AtomicRecall WITH
  stored <- embedded,
  list <- Elements(records),
  state <- [t \in Recalls |-> Looking(t)],
  seen <- [t \in Recalls |-> Stacked(t)]

\* Recalls are linearizable: each answers with the best of one snapshot of the
\* list, taken between its request and its answer, although cosine_topk reads the
\* list three times while capture handlers append to it.
ImplementsAtomicRecall == AtomicRecall!Spec

-----------------------------------------------------------------------------
(***************************************************************************)
(* A statement of the repository that the code does not keep.              *)
(***************************************************************************)

\* "concurrent POSTs cannot corrupt the list (a parallel recall may miss the
\* new record by one request, which is acceptable)": a recall whose query was
\* embedded is answered with hits, whatever is appended meanwhile.
AppendsAreHarmless == \A t \in Recalls : code[t] # "500"
=============================================================================
