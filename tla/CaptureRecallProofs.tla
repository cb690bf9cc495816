------------------------- MODULE CaptureRecallProofs -------------------------
(***************************************************************************)
(* Recalls beside the real pipeline.  What is proved of the two modules    *)
(* alone is carried over: the pipeline's invariant holds here because a    *)
(* recall changes nothing of the pipeline; Recall's holds because every    *)
(* step here is one of Recall's or none.                                   *)
(***************************************************************************)
EXTENDS CaptureRecall, FiniteSetTheorems, SequenceTheorems, TLAPS

PP == INSTANCE CapturePipelineProofs
RP == INSTANCE RecallProofs WITH
  Captures <- Requests, up <- Up, embedded <- embRows, pc <- rpc

\* The list is the observed process's cache in some order.
Link == RP!Elements(records) = cache[Observed]

\* No process reads a snapshot that lacks a row of its cache: it has loaded the row
\* when it had no transaction open, or inserted it.
Fresh == \A p \in Processes : hidden[p] \cap cache[p] = {}

\* What was stored at its start is in the cache of a process as long as it runs.
Started == Up => stored \subseteq cache[Observed]

\* Hits were in the list once, so they are embedded unless their handler was broken.
HitsInv == \A t \in Recalls : RP!Elements(hits[t]) \subseteq rows \cap (embRows \cup broken)

Inv ==
  /\ RP!IndInv
  /\ HitsInv
  /\ Link
  /\ Fresh
  /\ Started
  /\ IsFiniteSet(pendRows)

-----------------------------------------------------------------------------
(***************************************************************************)
(* The instances of CaptureRecall and those made here have the same        *)
(* definitions, one by one.                                                *)
(***************************************************************************)

\* The handlers that CaptureRecall composes are those the theorems are about.
LEMMA SamePipeline == (Pipeline!Init => PP!Init) /\ (Pipeline!Next => PP!Next)
<1> USE DEF Pipeline!At, PP!At, Pipeline!Goto, PP!Goto, Pipeline!Answer, PP!Answer,
    Pipeline!Fail, PP!Fail, Pipeline!Errors, PP!Errors, Pipeline!Visible, PP!Visible,
    Pipeline!FindByUrl, PP!FindByUrl, Pipeline!InTx, PP!InTx, Pipeline!MayWrite, PP!MayWrite,
    Pipeline!OpenTx, PP!OpenTx, Pipeline!CloseTx, PP!CloseTx, Pipeline!RollbackTx, PP!RollbackTx,
    Pipeline!Store, PP!Store, Pipeline!CommitTx, PP!CommitTx, Pipeline!InsertFails, PP!InsertFails,
    Pipeline!captureVars, PP!captureVars, Pipeline!txVars, PP!txVars,
    Pipeline!dbVars, PP!dbVars, Pipeline!clientVars, PP!clientVars
<1>1. Pipeline!Init => PP!Init
  BY DEF Pipeline!Init, PP!Init
<1>2. ASSUME NEW r, Pipeline!Handler(r) PROVE PP!Handler(r)
  <2> USE DEF PP!Handler
  <2>1. Pipeline!DedupHit(r) \/ Pipeline!DedupMiss(r) => PP!Handler(r)
    BY DEF Pipeline!DedupHit, PP!DedupHit, Pipeline!DedupMiss, PP!DedupMiss
  <2>2. Pipeline!Extract(r) \/ Pipeline!ExtractFails(r) => PP!Handler(r)
    BY DEF Pipeline!Extract, PP!Extract, Pipeline!ExtractFails, PP!ExtractFails
  <2>3. Pipeline!OpenFile(r) \/ Pipeline!WriteFile(r) \/ Pipeline!WriteFails(r) => PP!Handler(r)
    BY DEF Pipeline!OpenFile, PP!OpenFile, Pipeline!WriteFile, PP!WriteFile,
       Pipeline!WriteFails, PP!WriteFails
  <2>4. Pipeline!BeginRow(r) \/ Pipeline!BeginRowFails(r) => PP!Handler(r)
    BY DEF Pipeline!BeginRow, PP!BeginRow, Pipeline!BeginRowFails, PP!BeginRowFails
  <2>5. Pipeline!InsertRow(r) => PP!InsertRow(r)
    BY DEF Pipeline!InsertRow, PP!InsertRow
  <2>6. Pipeline!InsertRowFails(r) => PP!InsertRowFails(r)
    BY DEF Pipeline!InsertRowFails, PP!InsertRowFails
  <2>7. Pipeline!RollbackRow(r) => PP!RollbackRow(r)
    BY DEF Pipeline!RollbackRow, PP!RollbackRow
  <2>8. Pipeline!CommitRow(r) => PP!CommitRow(r)
    BY DEF Pipeline!CommitRow, PP!CommitRow
  <2>9. Pipeline!CommitRowFails(r) => PP!CommitRowFails(r)
    BY DEF Pipeline!CommitRowFails, PP!CommitRowFails
  <2>10. Pipeline!EmbedFails(r) \/ Pipeline!BeginEmb(r) => PP!Handler(r)
    BY DEF Pipeline!EmbedFails, PP!EmbedFails, Pipeline!BeginEmb, PP!BeginEmb
  <2>11. Pipeline!InsertEmb(r) => PP!InsertEmb(r)
    BY DEF Pipeline!InsertEmb, PP!InsertEmb
  <2>12. Pipeline!InsertEmbFails(r) => PP!InsertEmbFails(r)
    BY DEF Pipeline!InsertEmbFails, PP!InsertEmbFails
  <2>13. Pipeline!RollbackEmb(r) => PP!RollbackEmb(r)
    BY DEF Pipeline!RollbackEmb, PP!RollbackEmb
  <2>14. Pipeline!CommitEmb(r) => PP!CommitEmb(r)
    BY DEF Pipeline!CommitEmb, PP!CommitEmb
  <2>15. Pipeline!CommitEmbFails(r) => PP!CommitEmbFails(r)
    BY DEF Pipeline!CommitEmbFails, PP!CommitEmbFails
  <2>16. Pipeline!Append(r) \/ Pipeline!Respond(r) => PP!Handler(r)
    BY DEF Pipeline!Append, PP!Append, Pipeline!Respond, PP!Respond
  <2> QED
    BY <1>2, <2>1, <2>2, <2>3, <2>4, <2>5, <2>6, <2>7, <2>8, <2>9, <2>10, <2>11, <2>12,
       <2>13, <2>14, <2>15, <2>16 DEF Pipeline!Handler
<1>3. ASSUME NEW r, NEW u, NEW p, Pipeline!Post(r, u, p) PROVE PP!Post(r, u, p)
  BY <1>3 DEF Pipeline!Post, PP!Post
<1>4. ASSUME NEW p PROVE /\ Pipeline!Load(p) => PP!Load(p)
                         /\ Pipeline!Bind(p) => PP!Bind(p)
                         /\ Pipeline!Stop(p) => PP!Stop(p)
                         /\ Pipeline!Exit(p) => PP!Exit(p)
  BY DEF Pipeline!Load, PP!Load, Pipeline!Bind, PP!Bind, Pipeline!Stop, PP!Stop,
     Pipeline!Exit, PP!Exit
<1> HIDE DEF Pipeline!At, PP!At, Pipeline!Goto, PP!Goto, Pipeline!Answer, PP!Answer,
    Pipeline!Fail, PP!Fail, Pipeline!Errors, PP!Errors, Pipeline!Visible, PP!Visible,
    Pipeline!FindByUrl, PP!FindByUrl, Pipeline!InTx, PP!InTx, Pipeline!MayWrite, PP!MayWrite,
    Pipeline!OpenTx, PP!OpenTx, Pipeline!CloseTx, PP!CloseTx, Pipeline!RollbackTx, PP!RollbackTx,
    Pipeline!Store, PP!Store, Pipeline!CommitTx, PP!CommitTx, Pipeline!InsertFails, PP!InsertFails
<1> QED
  BY <1>1, <1>2, <1>3, <1>4 DEF Pipeline!Next, PP!Next

\* Ranking does not depend on the rows that Reader and RP take for committed.
LEMMA SameRanking ==
  /\ \A S : Reader!Cardinality(S) = RP!Cardinality(S)
  /\ \A s : Reader!Elements(s) = RP!Elements(s)
  /\ \A t, n, k : Reader!ArgPartition(t, n, k) = RP!ArgPartition(t, n, k)
  /\ \A t, I : Reader!ArgSort(t, I) = RP!ArgSort(t, I)
  /\ \A t : Reader!K(t) = RP!K(t)
  /\ \A I, k : Reader!Nth(I, k) = RP!Nth(I, k)
<1>1. \A S : Reader!Cardinality(S) = RP!Cardinality(S)
  BY DEF Reader!Cardinality, RP!Cardinality
<1>2. \A s : Reader!Elements(s) = RP!Elements(s)
  BY DEF Reader!Elements, RP!Elements
<1>3. \A t, n, k : Reader!ArgPartition(t, n, k) = RP!ArgPartition(t, n, k)
  BY <1>1 DEF Reader!ArgPartition, RP!ArgPartition, Reader!ScoreAt, RP!ScoreAt
<1>4. \A t, I : Reader!ArgSort(t, I) = RP!ArgSort(t, I)
  BY <1>1 DEF Reader!ArgSort, RP!ArgSort, Reader!ScoreAt, RP!ScoreAt
<1>5. \A t : Reader!Valid(t) = RP!Valid(t)
  BY DEF Reader!Valid, RP!Valid, Reader!ScoreAt, RP!ScoreAt, Reader!NegInf, RP!NegInf
<1>6. \A t : Reader!K(t) = RP!K(t)
  BY <1>1, <1>5 DEF Reader!K, RP!K
<1>7. \A I, k : Reader!Nth(I, k) = RP!Nth(I, k)
  BY <1>1 DEF Reader!Nth, RP!Nth
<1> QED
  BY <1>1, <1>2, <1>3, <1>4, <1>6, <1>7

\* What CaptureRecall calls Recall's promise is the specification that RecallProofs
\* is about.
LEMMA SameRecall == (Committed!Init <=> RP!Init) /\ (RP!Next => Committed!Next)
<1>1. Committed!Init <=> RP!Init
  BY DEF Committed!Init, RP!Init, Committed!NegInf, RP!NegInf
<1>2. \A S : RP!Cardinality(S) = Committed!Cardinality(S)
  BY DEF RP!Cardinality, Committed!Cardinality
<1>3. \A S : RP!SetToSeqs(S) = Committed!SetToSeqs(S)
  BY <1>2 DEF RP!SetToSeqs, Committed!SetToSeqs
<1>4. \A t, n, k : RP!ArgPartition(t, n, k) = Committed!ArgPartition(t, n, k)
  BY <1>2 DEF RP!ArgPartition, Committed!ArgPartition, RP!ScoreAt, Committed!ScoreAt
<1>5. \A t, I : RP!ArgSort(t, I) = Committed!ArgSort(t, I)
  BY <1>2 DEF RP!ArgSort, Committed!ArgSort, RP!ScoreAt, Committed!ScoreAt
<1>6. \A t : RP!Valid(t) = Committed!Valid(t)
  BY DEF RP!Valid, Committed!Valid, RP!ScoreAt, Committed!ScoreAt, RP!NegInf, Committed!NegInf
<1>7. \A t : RP!K(t) = Committed!K(t)
  BY <1>2, <1>6 DEF RP!K, Committed!K
<1>8. \A I, k : RP!Nth(I, k) = Committed!Nth(I, k)
  BY <1>2 DEF RP!Nth, Committed!Nth
<1>9. ASSUME NEW c, RP!AppendRecord(c) PROVE Committed!AppendRecord(c)
  BY <1>9 DEF RP!AppendRecord, Committed!AppendRecord, RP!Elements, Committed!Elements,
     RP!recallVars, Committed!recallVars
<1>14. ASSUME NEW R, NEW E, RP!Commit(R, E) PROVE Committed!Commit(R, E)
  BY <1>14 DEF RP!Commit, Committed!Commit, RP!IsFiniteSet, Committed!IsFiniteSet,
     RP!recallVars, Committed!recallVars
<1>10. RP!Crash => Committed!Crash
  BY DEF RP!Crash, Committed!Crash
<1>11. RP!Restart => Committed!Restart
  BY <1>3 DEF RP!Restart, Committed!Restart, RP!recallVars, Committed!recallVars
<1>12. ASSUME NEW t, NEW n, RP!Arrive(t, n) PROVE Committed!Arrive(t, n)
  BY <1>12 DEF RP!Arrive, Committed!Arrive, RP!Answer, Committed!Answer, RP!Goto, Committed!Goto,
     RP!Elements, Committed!Elements, RP!storeVars, Committed!storeVars
<1>13. ASSUME NEW t, RP!Handler(t) PROVE Committed!Handler(t)
  <2> USE DEF RP!Goto, Committed!Goto, RP!Answer, Committed!Answer, RP!Rank, Committed!Rank,
              RP!storeVars, Committed!storeVars
  <2>1. RP!EmbedQuery(t) => Committed!EmbedQuery(t)
    BY DEF RP!EmbedQuery, Committed!EmbedQuery
  <2>2. RP!EmbedQueryFails(t) => Committed!EmbedQueryFails(t)
    BY DEF RP!EmbedQueryFails, Committed!EmbedQueryFails
  <2>3. RP!Stack(t) => Committed!Stack(t)
    BY DEF RP!Stack, Committed!Stack, RP!Elements, Committed!Elements, RP!NegInf, Committed!NegInf
  <2>4. RP!SelectTop(t) => Committed!SelectTop(t)
    BY <1>4, <1>5, <1>7 DEF RP!SelectTop, Committed!SelectTop
  <2>5. RP!SelectAll(t) => Committed!SelectAll(t)
    BY <1>7 DEF RP!SelectAll, Committed!SelectAll
  <2>6. RP!NumberAll(t) => Committed!NumberAll(t)
    BY <1>5 DEF RP!NumberAll, Committed!NumberAll
  <2>7. RP!NumberAllFails(t) => Committed!NumberAllFails(t)
    BY DEF RP!NumberAllFails, Committed!NumberAllFails
  <2>8. RP!Hydrate(t) => Committed!Hydrate(t)
    BY <1>2, <1>8 DEF RP!Hydrate, Committed!Hydrate
  <2> QED
    BY <1>13, <2>1, <2>2, <2>3, <2>4, <2>5, <2>6, <2>7, <2>8 DEF RP!Handler, Committed!Handler
<1> QED
  BY <1>1, <1>9, <1>10, <1>11, <1>12, <1>13, <1>14 DEF RP!Next, Committed!Next

-----------------------------------------------------------------------------
(***************************************************************************)
(* The pipeline beside recalls is the pipeline.                            *)
(***************************************************************************)

\* A recall changes nothing of the pipeline.
LEMMA PipelineRuns == Spec => PP!Spec
<1>1. Init => PP!Init
  BY SamePipeline DEF Init
<1>2. [Next]_vars => [PP!Next]_(PP!vars)
  BY SamePipeline DEF Next, Capture, Recall, vars, pipelineVars, PP!vars, PP!clientVars,
     PP!captureVars, PP!txVars, PP!dbVars
<1> QED
  BY <1>1, <1>2, PTL DEF Spec, PP!Spec

\* So its invariant holds.
LEMMA PipelineInvariance == Spec => [](PP!TypeOK /\ PP!IndInv)
<1>1. PP!Spec => []PP!TypeOK
  BY PP!TypeCorrect, NoRequestAssumption, NoUrlAssumption, NoProcessAssumption
<1>2. PP!Spec => []PP!IndInv
  BY PP!Invariance, NoRequestAssumption, NoUrlAssumption, NoProcessAssumption
<1> QED
  BY <1>1, <1>2, PipelineRuns, PTL

-----------------------------------------------------------------------------
(***************************************************************************)
(* The steps of recalls.                                                   *)
(***************************************************************************)

\* Reading over the pipeline's connection a recall sees rows that no one has
\* committed, but hydrates committed ones only.
LEMMA RecallSteps ==
  ASSUME RP!IndInv, Link, Fresh, UNCHANGED pipelineVars, NEW t \in Recalls
  PROVE  /\ \A n : Reader!Arrive(t, n) => RP!Arrive(t, n)
         /\ Reader!Handler(t) => RP!Handler(t)
<1> USE DEF Reader!Goto, RP!Goto, Reader!Answer, RP!Answer, Reader!Rank, RP!Rank,
            Reader!storeVars, RP!storeVars, pipelineVars, Up
<1>1. ASSUME NEW n, Reader!Arrive(t, n) PROVE RP!Arrive(t, n)
  BY <1>1 DEF Reader!Arrive, RP!Arrive, Reader!Elements, RP!Elements
<1>2. Reader!EmbedQuery(t) => RP!EmbedQuery(t)
  BY DEF Reader!EmbedQuery, RP!EmbedQuery
<1>3. Reader!EmbedQueryFails(t) => RP!EmbedQueryFails(t)
  BY DEF Reader!EmbedQueryFails, RP!EmbedQueryFails
<1>4. Reader!Stack(t) => RP!Stack(t)
  BY DEF Reader!Stack, RP!Stack, Reader!Elements, RP!Elements, Reader!NegInf, RP!NegInf
<1>5. Reader!SelectTop(t) => RP!SelectTop(t)
  BY SameRanking DEF Reader!SelectTop, RP!SelectTop
<1>6. Reader!SelectAll(t) => RP!SelectAll(t)
  BY SameRanking DEF Reader!SelectAll, RP!SelectAll
<1>7. Reader!NumberAll(t) => RP!NumberAll(t)
  BY SameRanking DEF Reader!NumberAll, RP!NumberAll
<1>8. Reader!NumberAllFails(t) => RP!NumberAllFails(t)
  BY DEF Reader!NumberAllFails, RP!NumberAllFails
<1>9. ASSUME Reader!Hydrate(t) PROVE RP!Hydrate(t)
  <2>1. RP!Elements(ranked[t]) \subseteq RP!Elements(records)
    BY <1>9, RP!RankedAreListed, BoundsAssumption DEF Reader!Hydrate
  <2>2. RP!Elements(ranked[t]) \subseteq rows \ hidden[Observed]
    BY <2>1, ObservedAssumption DEF RP!IndInv, RP!TypeOK, RP!ListInv, Link, Fresh
  <2>3. {i \in 1..Len(ranked[t]) : ranked[t][i] \in Pipeline!Visible(Observed)}
        = {i \in 1..Len(ranked[t]) : ranked[t][i] \in rows}
    BY <2>2 DEF Pipeline!Visible, RP!Elements
  <2> QED
    BY <1>9, <2>3, SameRanking DEF Reader!Hydrate, RP!Hydrate
<1> QED
  BY <1>1, <1>2, <1>3, <1>4, <1>5, <1>6, <1>7, <1>8, <1>9 DEF Reader!Handler, RP!Handler

-----------------------------------------------------------------------------
(***************************************************************************)
(* The steps of captures.                                                  *)
(***************************************************************************)

\* There is one sequence of nothing.
LEMMA NothingToAppend == ASSUME NEW s \in SetToSeqs({}) PROVE s = << >>
<1>1. Cardinality({}) = 0
  BY FS_EmptySet
<1>2. s \in [1..0 -> {}]
  BY <1>1 DEF SetToSeqs
<1>3. s \in Seq({}) /\ Len(s) = 0
  BY <1>2
<1> QED
  BY <1>3, EmptySeq

\* And one of a single capture.
LEMMA OneToAppend == ASSUME NEW c, NEW s \in SetToSeqs({c}) PROVE s = << c >>
<1>1. Cardinality({c}) = 1
  BY FS_Singleton
<1>2. s \in [1..1 -> {c}]
  BY <1>1 DEF SetToSeqs
<1>3. s \in Seq({c})
  BY <1>2, SeqDef
<1>4. 1..Len(s) = 1..1 /\ Len(s) \in Nat
  BY <1>2, <1>3, LenProperties
<1>5. Len(s) = 1 /\ s[1] = c
  BY <1>2, <1>4
<1> QED
  BY <1>3, <1>5

\* RP's enumerations are CaptureRecall's.
LEMMA SameEnumerations == \A S : SetToSeqs(S) = RP!SetToSeqs(S)
<1>1. \A S : Cardinality(S) = RP!Cardinality(S)
  BY DEF Cardinality, RP!Cardinality
<1> QED
  BY <1>1 DEF SetToSeqs, RP!SetToSeqs

\* The list follows the cache: unchanged, one longer, emptied, or refilled.
LEMMA ListFollows ==
  ASSUME RP!IndInv, Link, RecordsFollow, NEW old, NEW now,
         old = cache[Observed], now = cache'[Observed]
  PROVE  /\ now = old => records' = records
         /\ \A c \in Requests \ old : now = old \cup {c} => records' = Append(records, c)
         /\ now = {} => records' = << >>
         /\ old = {} /\ RP!IsFiniteSet(now) => records' \in RP!SetToSeqs(now)
<1>1. PICK new \in SetToSeqs(now \ old) :
        records' = IF old \subseteq now THEN records \o new ELSE new
  BY DEF RecordsFollow
<1>2. records \in Seq(Requests) /\ records \o << >> = records
  <2>1. records \in Seq(Requests)
    BY DEF RP!IndInv, RP!TypeOK
  <2> QED
    BY <2>1, ConcatEmptySeq
<1>3. ASSUME old = {} PROVE records = << >>
  <2>1. Len(records) \in Nat /\ (records # << >> => Len(records) # 0)
    BY <1>2, EmptySeq
  <2>2. \A i \in 1..Len(records) : FALSE
    BY <1>3 DEF Link, RP!Elements
  <2> QED
    BY <2>1, <2>2
<1>4. ASSUME now = old PROVE records' = records
  <2>1. now \ old = {} /\ old \subseteq now
    BY <1>4
  <2> QED
    BY <1>1, <1>2, <2>1, NothingToAppend
<1>5. ASSUME NEW c \in Requests \ old, now = old \cup {c}
      PROVE  records' = Append(records, c)
  <2>1. now \ old = {c} /\ old \subseteq now
    BY <1>5
  <2>2. records' = records \o << c >>
    BY <1>1, <2>1, OneToAppend
  <2> QED
    BY <1>2, <2>2, AppendIsConcat
<1>6. ASSUME now = {} PROVE records' = << >>
  <2>1. now \ old = {} /\ (old \subseteq now => old = {})
    BY <1>6
  <2> QED
    BY <1>1, <1>2, <1>3, <2>1, NothingToAppend
<1>7. ASSUME old = {}, RP!IsFiniteSet(now) PROVE records' \in RP!SetToSeqs(now)
  <2>1. now \ old = now /\ old \subseteq now
    BY <1>7
  <2>2. records' = << >> \o new /\ new \in RP!SetToSeqs(now)
    BY <1>1, <1>3, <1>7, <2>1, SameEnumerations
  <2>3. new \in Seq(now)
    BY <1>7, <2>2, BoundsAssumption, RP!Enumerations
  <2> QED
    BY <2>2, <2>3, ConcatEmptySeq
<1> QED
  BY <1>4, <1>5, <1>6, <1>7

\* What a step of the pipeline does to what recall reads: nothing, or a commit of
\* any process, one record more, the end of the process or its start.
StoreStep ==
  \/ UNCHANGED <<Up, rows, embRows>> /\ cache'[Observed] = cache[Observed]
  \/ /\ UNCHANGED Up /\ cache'[Observed] = cache[Observed]
     /\ \E R \in SUBSET (Requests \ rows), E \in SUBSET (rows \ embRows) :
          IsFiniteSet(R) /\ rows' = rows \cup R /\ embRows' = embRows \cup E
  \/ /\ Up /\ UNCHANGED <<Up, rows, embRows>>
     /\ \E r \in rows \ cache[Observed] : cache'[Observed] = cache[Observed] \cup {r}
  \/ Up /\ ~Up' /\ cache'[Observed] = {} /\ UNCHANGED <<rows, embRows>>
  \/ /\ ~Up /\ Up' /\ UNCHANGED <<rows, embRows>>
     /\ cache[Observed] = {} /\ cache'[Observed] = embRows

\* A commit of rows that are new and of embeddings whose rows are there.
LEMMA StoreIsCommit ==
  ASSUME PP!TypeOK, PP!IndInv, Fresh, NEW p \in Processes,
         NEW R \in SUBSET (Requests \ rows), NEW E \in SUBSET rows,
         IsFiniteSet(R), PP!Store(p, R, E), UNCHANGED <<phase, cache>>
  PROVE  StoreStep /\ Fresh'
<1>1. rows' = rows \cup R /\ embRows' = embRows \cup (E \ embRows)
  BY DEF PP!Store
<1>2. StoreStep
  BY <1>1 DEF StoreStep, Up
<1>3. \A q \in Processes : hidden'[q] \subseteq hidden[q] \cup R
  BY DEF PP!Store
<1>4. \A q \in Processes : cache[q] \subseteq rows
  BY DEF PP!IndInv, PP!HomeInv, PP!CacheMatchesIndex
<1>5. Fresh'
  BY <1>3, <1>4 DEF Fresh
<1> QED
  BY <1>2, <1>5

\* What is pending is new, and so is a row at its INSERT.
LEMMA CommitSteps ==
  ASSUME PP!TypeOK, PP!IndInv, Fresh, IsFiniteSet(pendRows), NEW r \in Requests,
         PP!InsertRow(r) \/ PP!CommitRow(r) \/ PP!InsertEmb(r) \/ PP!CommitEmb(r)
  PROVE  StoreStep /\ Fresh' /\ IsFiniteSet(pendRows')
<1> USE DEF PP!At
<1>1. home[r] \in Processes
  BY DEF PP!InsertRow, PP!CommitRow, PP!InsertEmb, PP!CommitEmb, PP!IndInv, PP!HomeInv
<1>2. ASSUME UNCHANGED <<phase, rows, embRows, hidden, cache>> PROVE StoreStep /\ Fresh'
  BY <1>2 DEF StoreStep, Fresh, Up
<1>3. CASE PP!InsertRow(r)
  <2>1. r \notin rows
    BY <1>3 DEF PP!InsertRow, PP!IndInv, PP!DurableInv, PP!AfterRow, PP!EmbSteps, PP!Final
  <2>2. {r} \in SUBSET (Requests \ rows) /\ {} \in SUBSET rows /\ IsFiniteSet({r})
    BY <2>1, FS_Singleton
  <2>3. UNCHANGED <<phase, cache>>
    BY <1>3 DEF PP!InsertRow
  <2>4. UNCHANGED <<rows, embRows, hidden>> \/ PP!Store(home[r], {r}, {})
    BY <1>3 DEF PP!InsertRow
  <2>5. pendRows' = pendRows \cup {r} \/ pendRows' = pendRows
    BY <1>3 DEF PP!InsertRow
  <2> QED
    BY <1>1, <1>2, <2>2, <2>3, <2>4, <2>5, StoreIsCommit, FS_AddElement
<1>4. CASE PP!InsertEmb(r)
  <2>1. r \in rows
    BY <1>4 DEF PP!InsertEmb, PP!Visible, PP!IndInv, PP!TxInv
  <2>2. {} \in SUBSET (Requests \ rows) /\ {r} \in SUBSET rows /\ IsFiniteSet({})
    BY <2>1, FS_EmptySet
  <2>3. UNCHANGED <<phase, cache, pendRows>>
    BY <1>4 DEF PP!InsertEmb
  <2>4. UNCHANGED <<rows, embRows, hidden>> \/ PP!Store(home[r], {}, {r})
    BY <1>4 DEF PP!InsertEmb
  <2> QED
    BY <1>1, <1>2, <2>2, <2>3, <2>4, StoreIsCommit
<1>5. CASE PP!CommitRow(r) \/ PP!CommitEmb(r)
  <2> DEFINE R == {o \in pendRows : home[o] = home[r]}
             E == {o \in pendEmbs : home[o] = home[r]}
  <2>1. /\ PP!Store(home[r], R, E) /\ UNCHANGED <<phase, cache>>
        /\ pendRows' \subseteq pendRows
    BY <1>5 DEF PP!CommitRow, PP!CommitEmb, PP!CommitTx, PP!CloseTx
  <2>2. R \in SUBSET (Requests \ rows) /\ E \in SUBSET rows
    BY DEF PP!TypeOK, PP!IndInv, PP!TxInv, PP!DurableInv
  <2>3. IsFiniteSet(R) /\ IsFiniteSet(pendRows')
    BY <2>1, FS_Subset
  <2> HIDE DEF R, E
  <2> QED
    BY <1>1, <2>1, <2>2, <2>3, StoreIsCommit
<1> QED
  BY <1>3, <1>4, <1>5

\* Every other step of a handler leaves the durable store alone; only Append touches
\* a cache.
LEMMA PipelineSteps ==
  ASSUME PP!TypeOK, PP!IndInv, Fresh, IsFiniteSet(pendRows), PP!Next
  PROVE  StoreStep /\ Fresh' /\ IsFiniteSet(pendRows')
<1> USE DEF PP!At, PP!Goto, PP!captureVars, PP!txVars, PP!dbVars, PP!clientVars
<1>1. ASSUME UNCHANGED <<phase, rows, embRows, cache>>, pendRows' \subseteq pendRows,
             \A p \in Processes : hidden'[p] \subseteq hidden[p]
      PROVE  StoreStep /\ Fresh' /\ IsFiniteSet(pendRows')
  BY <1>1, FS_Subset DEF StoreStep, Fresh, Up
<1>2. ASSUME NEW r \in Requests, PP!Append(r)
      PROVE  StoreStep /\ Fresh' /\ IsFiniteSet(pendRows')
  <2>1. /\ UNCHANGED <<phase, rows, embRows, hidden, pendRows>>
        /\ cache' = [cache EXCEPT ![home[r]] = @ \cup {r}]
        /\ r \in rows /\ phase[home[r]] # "down" /\ r \notin hidden[home[r]]
        /\ home[r] \in Processes
    BY <1>2 DEF PP!Append, PP!IndInv, PP!HomeInv, PP!DurableInv, PP!Final
  <2>2. Fresh'
    BY <2>1 DEF Fresh, PP!TypeOK
  <2>3. CASE home[r] = Observed /\ r \notin cache[Observed]
    <3>1. cache'[Observed] = cache[Observed] \cup {r}
      BY <2>1, <2>3 DEF PP!TypeOK
    <3> QED
      BY <2>1, <2>2, <2>3, <3>1 DEF StoreStep, Up
  <2>4. CASE ~(home[r] = Observed /\ r \notin cache[Observed])
    <3>1. cache'[Observed] = cache[Observed]
      BY <2>1, <2>4, ObservedAssumption DEF PP!TypeOK
    <3> QED
      BY <2>1, <2>2, <3>1 DEF StoreStep, Up
  <2> QED
    BY <2>3, <2>4
<1>3. ASSUME NEW r \in Requests,
             \/ PP!DedupHit(r) \/ PP!DedupMiss(r) \/ PP!Extract(r) \/ PP!ExtractFails(r)
             \/ PP!OpenFile(r) \/ PP!WriteFile(r) \/ PP!WriteFails(r)
             \/ PP!BeginRow(r) \/ PP!BeginRowFails(r) \/ PP!EmbedFails(r)
             \/ PP!BeginEmb(r) \/ PP!Respond(r)
      PROVE  StoreStep /\ Fresh' /\ IsFiniteSet(pendRows')
  <2>1. UNCHANGED <<phase, rows, embRows, cache, pendRows, hidden>>
    BY <1>3 DEF PP!DedupHit, PP!DedupMiss, PP!Extract, PP!ExtractFails, PP!OpenFile,
       PP!WriteFile, PP!WriteFails, PP!BeginRow, PP!BeginRowFails, PP!OpenTx,
       PP!EmbedFails, PP!BeginEmb, PP!Respond
  <2> QED
    BY <1>1, <2>1
<1>4. ASSUME NEW r \in Requests, PP!RollbackTx(r) \/ UNCHANGED PP!dbVars,
             UNCHANGED <<phase, cache>>
      PROVE  StoreStep /\ Fresh' /\ IsFiniteSet(pendRows')
  <2>1. pendRows' \subseteq pendRows /\ UNCHANGED <<rows, embRows>>
    BY <1>4 DEF PP!RollbackTx, PP!CloseTx
  <2>2. \A p \in Processes : hidden'[p] \subseteq hidden[p]
    BY <1>4 DEF PP!RollbackTx, PP!TypeOK
  <2> QED
    BY <1>1, <1>4, <2>1, <2>2
<1>5. ASSUME NEW r \in Requests,
             \/ PP!InsertRowFails(r) \/ PP!RollbackRow(r) \/ PP!CommitRowFails(r)
             \/ PP!InsertEmbFails(r) \/ PP!RollbackEmb(r) \/ PP!CommitEmbFails(r)
      PROVE  StoreStep /\ Fresh' /\ IsFiniteSet(pendRows')
  <2>1. UNCHANGED <<phase, cache>>
    BY <1>5 DEF PP!InsertRowFails, PP!RollbackRow, PP!CommitRowFails, PP!InsertEmbFails,
       PP!RollbackEmb, PP!CommitEmbFails
  <2>2. PP!RollbackTx(r) \/ UNCHANGED PP!dbVars
    BY <1>5 DEF PP!InsertRowFails, PP!RollbackRow, PP!CommitRowFails, PP!InsertEmbFails,
       PP!RollbackEmb, PP!CommitEmbFails, PP!InsertFails
  <2> QED
    BY <1>4, <2>1, <2>2
<1>6. ASSUME NEW r \in Requests, NEW u \in Urls, NEW p \in Processes, PP!Post(r, u, p)
      PROVE  StoreStep /\ Fresh' /\ IsFiniteSet(pendRows')
  BY <1>1, <1>6 DEF PP!Post
<1>7. ASSUME NEW p \in Processes, PP!Load(p)
      PROVE  StoreStep /\ Fresh' /\ IsFiniteSet(pendRows')
  <2>1. /\ phase[p] = "down" /\ phase' = [phase EXCEPT ![p] = "loaded"]
        /\ cache' = [cache EXCEPT ![p] = embRows]
        /\ UNCHANGED <<rows, embRows, hidden, pendRows>>
    BY <1>7 DEF PP!Load
  <2>2. hidden[p] = {} /\ cache[p] = {}
    <3>1. ~PP!InTx(p)
      BY <2>1, NoRequestAssumption DEF PP!IndInv, PP!OwnerInv, PP!HomeInv, PP!InTx, PP!TypeOK,
         PP!TxSteps, PP!RowSteps, PP!EmbSteps, PP!RollbackSteps, PP!Final
    <3> QED
      BY <2>1, <3>1 DEF PP!IndInv, PP!HomeInv
  <2>3. Fresh'
    BY <2>1, <2>2 DEF Fresh, PP!TypeOK
  <2>4. StoreStep
    <3>1. CASE p = Observed
      BY <2>1, <2>2, <3>1 DEF StoreStep, Up, PP!TypeOK
    <3>2. CASE p # Observed
      BY <2>1, <3>2, ObservedAssumption DEF StoreStep, Up, PP!TypeOK
    <3> QED
      BY <3>1, <3>2
  <2> QED
    BY <2>1, <2>3, <2>4
<1>8. ASSUME NEW p \in Processes, PP!Bind(p) \/ PP!Stop(p)
      PROVE  StoreStep /\ Fresh' /\ IsFiniteSet(pendRows')
  <2>1. UNCHANGED <<rows, embRows, cache, hidden, pendRows>>
    BY <1>8 DEF PP!Bind, PP!Stop
  <2>2. Up' = Up
    BY <1>8, ObservedAssumption DEF PP!Bind, PP!Stop, PP!TypeOK, Up
  <2> QED
    BY <2>1, <2>2 DEF StoreStep, Fresh
<1>9. ASSUME NEW p \in Processes, PP!Exit(p)
      PROVE  StoreStep /\ Fresh' /\ IsFiniteSet(pendRows')
  <2>1. /\ phase[p] # "down" /\ phase' = [phase EXCEPT ![p] = "down"]
        /\ cache' = [cache EXCEPT ![p] = {}] /\ hidden' = [hidden EXCEPT ![p] = {}]
        /\ UNCHANGED <<rows, embRows>> /\ pendRows' \subseteq pendRows
    BY <1>9 DEF PP!Exit
  <2>2. Fresh'
    BY <2>1 DEF Fresh, PP!TypeOK
  <2>3. StoreStep
    <3>1. CASE p = Observed
      BY <2>1, <3>1 DEF StoreStep, Up, PP!TypeOK
    <3>2. CASE p # Observed
      BY <2>1, <3>2, ObservedAssumption DEF StoreStep, Up, PP!TypeOK
    <3> QED
      BY <3>1, <3>2
  <2> QED
    BY <2>1, <2>2, <2>3, FS_Subset
<1> QED
  BY <1>2, <1>3, <1>5, <1>6, <1>7, <1>8, <1>9, CommitSteps DEF PP!Next, PP!Handler

\* Each is a step of Recall, and the list keeps up with the cache.
LEMMA CaptureSteps ==
  ASSUME PP!TypeOK, PP!IndInv, Inv, Capture
  PROVE  [RP!Next]_(RP!vars) /\ Link' /\ Fresh' /\ Started' /\ IsFiniteSet(pendRows')
<1> DEFINE old == cache[Observed]
           now == cache'[Observed]
<1>0. RP!IndInv /\ Link /\ Fresh /\ Started /\ IsFiniteSet(pendRows)
  BY DEF Inv
<1>1. StoreStep /\ Fresh' /\ IsFiniteSet(pendRows') /\ RecordsFollow /\ UNCHANGED score
  BY <1>0, SamePipeline, PipelineSteps DEF Capture
<1>2. Up' = Up => UNCHANGED RP!recallVars
  BY DEF Capture, recallVars, RP!recallVars
<1>9. ASSUME UNCHANGED Up, old \subseteq now PROVE Started'
  BY <1>0, <1>9 DEF Capture, Started
<1>3. CASE UNCHANGED <<Up, rows, embRows>> /\ now = old
  <2>1. records' = records
    BY <1>0, <1>1, <1>3, ListFollows
  <2>2. UNCHANGED RP!vars
    BY <1>1, <1>2, <1>3, <2>1 DEF RP!vars, RP!storeVars
  <2> QED
    BY <1>0, <1>1, <1>3, <1>9, <2>1, <2>2 DEF Link, RP!Elements
<1>4. ASSUME UNCHANGED Up, now = old,
             NEW R \in SUBSET (Requests \ rows), NEW E \in SUBSET (rows \ embRows),
             IsFiniteSet(R), rows' = rows \cup R, embRows' = embRows \cup E
      PROVE  RP!Next /\ Link' /\ Started'
  <2>1. records' = records
    BY <1>0, <1>1, <1>4, ListFollows
  <2>2. RP!IsFiniteSet(R)
    BY <1>4 DEF RP!IsFiniteSet, IsFiniteSet
  <2>3. RP!Commit(R, E)
    BY <1>1, <1>2, <1>4, <2>1, <2>2 DEF RP!Commit
  <2> QED
    BY <1>0, <1>4, <1>9, <2>1, <2>3 DEF Link, RP!Elements, RP!Next
<1>6. ASSUME Up, UNCHANGED <<Up, rows, embRows>>, NEW r \in rows \ old, now = old \cup {r}
      PROVE  RP!Next /\ Link' /\ Started'
  <2>0. r \in Requests
    BY DEF PP!TypeOK
  <2>1. records' = Append(records, r)
    BY <1>0, <1>1, <1>6, <2>0, ListFollows
  <2>2. RP!AppendRecord(r)
    BY <1>0, <1>1, <1>2, <1>6, <2>1 DEF Link, RP!AppendRecord
  <2>3. RP!Elements(records') = RP!Elements(records) \cup {r}
    <3>1. /\ Len(records') = Len(records) + 1 /\ Len(records) \in Nat
          /\ \A i \in 1..Len(records) : records'[i] = records[i]
          /\ records'[Len(records) + 1] = r
      BY <1>0, <2>0, <2>1 DEF RP!IndInv, RP!TypeOK
    <3>2. 1..Len(records') = 1..Len(records) \cup {Len(records) + 1}
      BY <3>1
    <3> QED
      BY <3>1, <3>2 DEF RP!Elements
  <2> QED
    BY <1>0, <1>6, <1>9, <2>0, <2>2, <2>3 DEF Link, RP!Next
<1>7. ASSUME Up, ~Up', now = {}, UNCHANGED <<rows, embRows>>
      PROVE  RP!Next /\ Link' /\ Started'
  <2>1. records' = << >>
    BY <1>0, <1>1, <1>7, ListFollows
  <2>2. RP!Crash
    BY <1>1, <1>7, <2>1 DEF Capture, LoseRecalls, RP!Crash
  <2>3. Link'
    BY <1>7, <2>1 DEF Link, RP!Elements
  <2> QED
    BY <1>7, <2>2, <2>3 DEF Started, RP!Next
<1>8. ASSUME ~Up, Up', old = {}, now = embRows, UNCHANGED <<rows, embRows>>
      PROVE  RP!Next /\ Link' /\ Started'
  <2>1. RP!IsFiniteSet(embRows)
    <3>1. RP!IsFiniteSet(rows) /\ embRows \subseteq rows
      BY <1>0 DEF RP!IndInv, RP!TypeOK, RP!ListInv
    <3>2. IsFiniteSet(rows)
      BY <3>1 DEF RP!IsFiniteSet, IsFiniteSet
    <3>3. IsFiniteSet(embRows)
      BY <3>1, <3>2, FS_Subset
    <3> QED
      BY <3>3 DEF RP!IsFiniteSet, IsFiniteSet
  <2>2. records' \in RP!SetToSeqs(embRows)
    BY <1>0, <1>1, <1>8, <2>1, ListFollows
  <2>3. UNCHANGED RP!recallVars /\ stored' = embRows
    BY <1>8 DEF Capture, recallVars, RP!recallVars
  <2>4. RP!Restart
    BY <1>1, <1>8, <2>2, <2>3 DEF RP!Restart
  <2>5. /\ records' \in Seq(embRows)
        /\ \A x \in embRows : \E i \in 1..Len(records') : records'[i] = x
    BY <2>1, <2>2, BoundsAssumption, RP!Enumerations
  <2>6. \A i \in 1..Len(records') : records'[i] \in embRows
    BY <2>5
  <2> QED
    BY <1>8, <2>3, <2>4, <2>5, <2>6 DEF Link, Started, RP!Elements, RP!Next
<1> HIDE DEF old, now
<1>10. [RP!Next]_(RP!vars) /\ Link' /\ Started'
  BY <1>1, <1>3, <1>4, <1>6, <1>7, <1>8 DEF StoreStep, old, now
<1> QED
  BY <1>1, <1>10

-----------------------------------------------------------------------------
(***************************************************************************)
(* Captures and recalls together.                                          *)
(***************************************************************************)

\* At first the list and the cache are empty.
LEMMA InitInvariant == Init => Inv
<1> SUFFICES ASSUME Init PROVE Inv
  OBVIOUS
<1>1. RP!Init
  BY SameRecall DEF Init
<1>2. RP!IndInv
  BY <1>1, RP!InitInvariant, BoundsAssumption
<1>3. HitsInv
  BY <1>1 DEF RP!Init, HitsInv, RP!Elements
<1>4. Link
  BY <1>1, ObservedAssumption DEF Init, Pipeline!Init, RP!Init, Link, RP!Elements
<1>5. Fresh /\ Started
  BY DEF Init, Pipeline!Init, Fresh, Started
<1>6. IsFiniteSet(pendRows)
  BY FS_EmptySet DEF Init, Pipeline!Init
<1> QED
  BY <1>2, <1>3, <1>4, <1>5, <1>6 DEF Inv

\* Beside a correct pipeline every step is a step of Recall.
LEMMA StepsOfRecall ==
  ASSUME PP!TypeOK, PP!IndInv, Inv, [Next]_vars
  PROVE  [RP!Next]_(RP!vars) /\ Link' /\ Fresh' /\ Started' /\ IsFiniteSet(pendRows')
<1>1. ASSUME UNCHANGED <<pipelineVars, stored, records>>
      PROVE  Link' /\ Fresh' /\ Started' /\ IsFiniteSet(pendRows')
  BY <1>1 DEF pipelineVars, Inv, Link, Fresh, Started, Up, RP!Elements
<1>2. CASE UNCHANGED vars
  <2>1. UNCHANGED RP!vars
    BY <1>2 DEF vars, pipelineVars, recallVars, RP!vars, RP!storeVars, RP!recallVars, Up
  <2> QED
    BY <1>1, <1>2, <2>1 DEF vars
<1>3. CASE Capture
  BY <1>3, CaptureSteps
<1>4. CASE Recall
  <2>1. UNCHANGED <<pipelineVars, stored>>
    BY <1>4 DEF Recall
  <2>2. RP!Next
    BY <1>4, RecallSteps DEF Recall, Inv, RP!Next
  <2>3. records' = records
    BY <1>4 DEF Recall, Reader!Handler, Reader!Arrive, Reader!EmbedQuery,
       Reader!EmbedQueryFails, Reader!Stack, Reader!SelectTop, Reader!SelectAll,
       Reader!NumberAll, Reader!NumberAllFails, Reader!Hydrate, Reader!storeVars
  <2> QED
    BY <1>1, <2>1, <2>2, <2>3
<1> QED
  BY <1>2, <1>3, <1>4 DEF Next

\* What was broken stays so.
LEMMA BrokenStays == PP!Next => broken \subseteq broken'
<1> USE DEF PP!clientVars, PP!captureVars, PP!txVars, PP!dbVars
<1>1. \A r : PP!CloseTx(r) => broken \subseteq broken'
  BY DEF PP!CloseTx
<1>2. ASSUME NEW r, PP!Handler(r) PROVE broken \subseteq broken'
  BY <1>1, <1>2 DEF PP!Handler, PP!DedupHit, PP!DedupMiss, PP!Extract, PP!ExtractFails,
     PP!OpenFile, PP!WriteFile, PP!WriteFails, PP!BeginRow, PP!BeginRowFails, PP!OpenTx,
     PP!InsertRow, PP!InsertRowFails, PP!InsertFails, PP!RollbackRow, PP!RollbackTx,
     PP!CommitRow, PP!CommitTx, PP!CommitRowFails, PP!EmbedFails, PP!BeginEmb, PP!InsertEmb,
     PP!InsertEmbFails, PP!RollbackEmb, PP!CommitEmb, PP!CommitEmbFails, PP!Append, PP!Respond
<1> QED
  BY <1>2 DEF PP!Next, PP!Post, PP!Load, PP!Bind, PP!Stop, PP!Exit

\* A hit was in the list, which is the cache, which matches the index.
LEMMA HitsStep ==
  ASSUME PP!TypeOK, PP!IndInv, Inv, [Next]_vars
  PROVE  HitsInv'
<1>1. [RP!Next]_(RP!vars)
  BY StepsOfRecall
<1>2. \A t \in Recalls : RP!Elements(hits'[t]) \subseteq RP!Elements(hits[t]) \cup cache[Observed]
  BY <1>1, RP!NewHitsAreListed, BoundsAssumption DEF Inv, Link
<1>3. cache[Observed] \subseteq rows \cap (embRows \cup broken)
  BY ObservedAssumption DEF PP!IndInv, PP!HomeInv, PP!CacheMatchesIndex
<1>4. rows \subseteq rows' /\ embRows \subseteq embRows' /\ broken \subseteq broken'
  <2>1. CASE Capture
    <3>1. PP!Next
      BY <2>1, SamePipeline DEF Capture
    <3> QED
      BY <3>1, PipelineSteps, BrokenStays DEF Inv, StoreStep
  <2>2. CASE UNCHANGED pipelineVars
    BY <2>2 DEF pipelineVars
  <2> QED
    BY <2>1, <2>2 DEF Next, Recall, vars
<1> QED
  BY <1>2, <1>3, <1>4 DEF HitsInv, Inv, RP!Elements

\* Recall's invariant, and a list that is the cache in some order.
THEOREM Invariance == Spec => []Inv
<1>1. PP!TypeOK /\ PP!IndInv /\ Inv /\ [Next]_vars => Inv'
  <2> SUFFICES ASSUME PP!TypeOK, PP!IndInv, Inv, [Next]_vars PROVE Inv'
    OBVIOUS
  <2>1. [RP!Next]_(RP!vars) /\ Link' /\ Fresh' /\ Started' /\ IsFiniteSet(pendRows')
    BY StepsOfRecall
  <2>2. RP!IndInv'
    BY <2>1, RP!NextInvariant, BoundsAssumption DEF Inv
  <2> QED
    BY <2>1, <2>2, HitsStep DEF Inv
<1> QED
  BY <1>1, InitInvariant, PipelineInvariance, PTL DEF Spec

\* All that is proved of Recall's recalls holds of recalls that read the list and
\* the connection of the real pipeline.
THEOREM Refinement == Spec => ImplementsRecall
<1>1. Init => Committed!Init
  BY DEF Init
<1>2. PP!TypeOK /\ PP!IndInv /\ Inv /\ [Next]_vars => [Committed!Next]_(Committed!vars)
  BY StepsOfRecall, SameRecall DEF RP!vars, RP!storeVars, RP!recallVars, Committed!vars,
     Committed!storeVars, Committed!recallVars
<1> QED
  BY <1>1, <1>2, Invariance, PipelineInvariance, PTL DEF Spec, ImplementsRecall, Committed!Spec

\* Recalls beside the real pipeline are linearizable too: each answers with the best
\* of one snapshot of the list that the capture handlers append to, although they
\* share its connection and see its uncommitted rows.
THEOREM RecallsAreAtomic == Spec => RP!ImplementsAtomicRecall
<1>1. Init => RP!Init
  BY SameRecall DEF Init
<1>2. PP!TypeOK /\ PP!IndInv /\ Inv /\ [Next]_vars => [RP!Next]_(RP!vars)
  BY StepsOfRecall
<1>3. Spec => RP!Spec
  BY <1>1, <1>2, Invariance, PipelineInvariance, PTL DEF Spec, RP!Spec
<1>4. RP!Spec => RP!ImplementsAtomicRecall
  BY RP!Refinement, BoundsAssumption
<1> QED
  BY <1>3, <1>4, PTL

\* A recall names captures that are stored for good, whatever it saw uncommitted,
\* whatever was torn and whichever process ended since.
THEOREM StoredHits == Spec => []HitsAreStored
<1>1. PP!IndInv /\ Inv => HitsAreStored
  <2> SUFFICES ASSUME PP!IndInv, Inv, NEW t \in Recalls, NEW c \in Committed!Elements(hits[t])
               PROVE  file[c] = "complete" /\ c \in rows /\ c \in embRows \cup broken
    BY DEF HitsAreStored
  <2>1. c \in rows /\ c \in embRows \cup broken
    BY DEF Inv, HitsInv, RP!Elements, Committed!Elements
  <2>2. c \in Requests
    BY <2>1 DEF Inv, RP!IndInv, RP!TypeOK
  <2> QED
    BY <2>1, <2>2 DEF PP!IndInv, PP!DurableInv
<1> QED
  BY <1>1, Invariance, PipelineInvariance, PTL

\* A recall knows every capture whose own POST its process has answered and that has
\* an embedding, and every embedding that was stored when the process started.
THEOREM OwnCapturesAreKnown == Spec => ReadYourCaptures
<1>1. PP!TypeOK /\ PP!IndInv /\ Inv /\ [Next]_vars =>
        [\A t \in Recalls : rpc[t] = "idle" /\ rpc'[t] # "idle" =>
           stored \cup AnsweredHere \subseteq known'[t]]_vars
  <2> SUFFICES ASSUME PP!TypeOK, PP!IndInv, Inv, Next,
                      NEW t \in Recalls, rpc[t] = "idle", rpc'[t] # "idle",
                      NEW r \in stored \cup AnsweredHere
               PROVE  r \in known'[t]
    OBVIOUS
  <2>1. rpc \in [Recalls -> {"idle", "embed", "stack", "compare", "arange",
                             "hydrate", "done", "lost"}]
    BY DEF Inv, RP!IndInv, RP!TypeOK
  <2>2. ~Capture
    BY <2>1 DEF Capture, LoseRecalls, recallVars
  <2>3. \A u \in Recalls : Reader!Handler(u) => rpc'[t] = rpc[t]
    BY <2>1 DEF Reader!Handler, Reader!EmbedQuery, Reader!EmbedQueryFails, Reader!Stack,
       Reader!SelectTop, Reader!SelectAll, Reader!NumberAll, Reader!NumberAllFails,
       Reader!Hydrate, Reader!Rank, Reader!Answer, Reader!Goto
  <2>4. PICK u \in Recalls, n \in 1..MaxLimit : Reader!Arrive(u, n)
    BY <2>2, <2>3 DEF Next, Recall
  <2>5. u = t
    BY <2>1, <2>4 DEF Reader!Arrive, Reader!Answer, Reader!Goto
  <2>6. Up /\ known'[t] = Reader!Elements(records)
    BY <2>4, <2>5 DEF Reader!Arrive, Inv, RP!IndInv, RP!TypeOK
  <2>7. ASSUME r \in AnsweredHere PROVE r \in cache[Observed]
    <3>1. /\ r \in embRows /\ r \in Requests \ broken
          /\ home[r] = Observed /\ status[r] = "201"
      BY <2>7 DEF AnsweredHere, Inv, RP!IndInv, RP!TypeOK
    <3>2. pc[r] = "done"
      BY <3>1 DEF PP!IndInv, PP!AnswerInv
    <3> QED
      BY <2>6, <3>1, <3>2, ObservedAssumption DEF PP!IndInv, PP!CacheMatchesIndex, Up
  <2>8. r \in cache[Observed]
    BY <2>6, <2>7 DEF Inv, Started
  <2> QED
    BY <2>6, <2>8, SameRanking DEF Inv, Link
<1> QED
  BY <1>1, Invariance, PipelineInvariance, PTL DEF Spec, ReadYourCaptures
=============================================================================
