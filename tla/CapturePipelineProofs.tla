----------------------- MODULE CapturePipelineProofs -----------------------
(***************************************************************************)
(* Proofs about module CapturePipeline, for any sets of requests, URLs and *)
(* processes.  TypeCorrect comes first, then one inductive invariant,      *)
(* IndInv, then what it gives: the safety properties and the refinement.   *)
(***************************************************************************)
EXTENDS CapturePipeline, TLAPS

USE DEF BeforeFile, RowSteps, EmbSteps, TxSteps, AfterRow, Final, PCs, Errors,
        Statuses, At, Goto, vars, clientVars, captureVars, txVars, dbVars

(***************************************************************************)
(* Strengthenings.                                                         *)
(***************************************************************************)
RollbackSteps == {"rollback", "rollbackEmb"}

\* Handlers run in live processes only, and only those hold a transaction, a
\* snapshot or a cache.
HomeInv ==
  /\ \A r \in Requests :
       /\ pc[r] = "idle" => home[r] = NoProcess
       /\ pc[r] # "idle" => home[r] \in Processes
       /\ pc[r] \notin {"idle"} \cup Final => phase[home[r]] \in {"serving", "stopping"}
  /\ \A p \in Processes : phase[p] = "down" => cache[p] = {}
  /\ \A p \in Processes : hidden[p] # {} => InTx(p)
  /\ \A p \in Processes : \A r \in hidden[p] : r \in rows /\ home[r] # p

\* An open transaction is that of a handler between BEGIN and COMMIT or ROLLBACK.
OwnerInv ==
  \A p \in Processes : InTx(p) =>
    home[txOwner[p]] = p /\ pc[txOwner[p]] \in TxSteps \cup RollbackSteps

\* A handler between these two owns it, unless a transaction was torn before; what
\* is pending is in some open transaction, in its own if it is not broken.
TxInv ==
  /\ \A r \in broken : home[r] \in torn
  /\ \A r \in Requests : pc[r] \in TxSteps \cup RollbackSteps =>
       home[r] \in torn \/ txOwner[home[r]] = r
  /\ \A r \in Requests \ broken : pc[r] \in TxSteps => txOwner[home[r]] = r
  /\ \A r \in pendRows : pc[r] = "commit" /\ InTx(home[r]) /\ r \notin rows
  /\ \A r \in pendEmbs : pc[r] = "commitEmb" /\ InTx(home[r])

\* Where a handler is tells what is durable of its capture.
DurableInv ==
  \A r \in Requests :
    /\ pc[r] \in BeforeFile => file[r] = "none"
    /\ pc[r] \in {"begin", "rollback"} \cup RowSteps => file[r] = "complete"
    /\ r \in rows => pc[r] \in {"commit"} \cup AfterRow \cup Final /\ file[r] = "complete"
    /\ pc[r] \in {"commitEmb", "append"} => r \in rows
    /\ r \in embRows => r \in rows /\ pc[r] \in {"commitEmb", "append", "respond"} \cup Final

\* So does the step of a handler that was not broken.
UnbrokenInv ==
  \A r \in Requests \ broken :
    /\ pc[r] = "commit" => r \in pendRows
    /\ pc[r] \in AfterRow => r \in rows
    /\ pc[r] = "commitEmb" => r \in pendEmbs /\ r \notin embRows
    /\ pc[r] = "append" => r \in embRows

\* Where a handler is tells what its client has been answered.
AnswerInv ==
  \A r \in Requests :
    /\ status[r] # "none" => pc[r] = "done"
    /\ status[r] \in Errors => (r \notin rows \/ r \in broken) /\ reply[r] = NoRequest
    /\ status[r] = "none" => reply[r] = NoRequest
    /\ status[r] = "201" => reply[r] # NoRequest
    /\ reply[r] = r => r \in rows

\* What a handler could know of its URL when it was posted, and what it made of it.
DedupInv ==
  /\ \A r \in Requests : seen[r] \subseteq rows
  /\ \A r \in Requests : reply[r] # NoRequest =>
       pc[reply[r]] \notin {"idle", "dedup", "extract"}
  /\ \A r \in Requests : pc[r] = "dedup" => seen[r] \cap hidden[home[r]] = {}
  /\ \A r \in Requests : pc[r] \notin {"idle", "dedup"} \cup Final =>
       \A s \in seen[r] : url[s] # url[r]

\* The inductive invariant: a step preserves it as a whole, none of its parts
\* alone (a capture's row needs its file, its embedding needs its row, ...).
IndInv ==
  /\ HomeInv
  /\ OwnerInv
  /\ TxInv
  /\ DurableInv
  /\ UnbrokenInv
  /\ AnswerInv
  /\ CacheMatchesIndex
  /\ DedupInv
  /\ SequentialDedup

-----------------------------------------------------------------------------
(***************************************************************************)
(* Type correctness.                                                       *)
(***************************************************************************)

\* Every reachable state of create_capture's model is well typed.
THEOREM TypeCorrect == Spec => []TypeOK
<1> DEFINE Placed == \A r \in Requests : pc[r] # "idle" => home[r] \in Processes
           Typed == TypeOK /\ Placed
<1>1. Init => Typed
  BY NoRequestAssumption DEF Init, TypeOK
<1>2. Typed /\ [Next]_vars => Typed'
  <2> SUFFICES ASSUME Typed, [Next]_vars PROVE Typed'
    OBVIOUS
  <2>1. ASSUME NEW r \in Requests, DedupHit(r) PROVE Typed'
    BY <2>1 DEF TypeOK, DedupHit, Answer, FindByUrl, Visible
  <2>2. ASSUME NEW r \in Requests, DedupMiss(r) PROVE Typed'
    BY <2>2 DEF TypeOK, DedupMiss, Visible
  <2>3. ASSUME NEW r \in Requests, Extract(r) PROVE Typed'
    BY <2>3 DEF TypeOK, Extract
  <2>4. ASSUME NEW r \in Requests, ExtractFails(r) PROVE Typed'
    BY <2>4 DEF TypeOK, ExtractFails, Fail, Answer
  <2>5. ASSUME NEW r \in Requests, OpenFile(r) PROVE Typed'
    BY <2>5 DEF TypeOK, OpenFile
  <2>6. ASSUME NEW r \in Requests, WriteFile(r) PROVE Typed'
    BY <2>6 DEF TypeOK, WriteFile
  <2>7. ASSUME NEW r \in Requests, WriteFails(r) PROVE Typed'
    BY <2>7 DEF TypeOK, WriteFails, Fail, Answer
  <2>8. ASSUME NEW r \in Requests, BeginRow(r) PROVE Typed'
    BY <2>8 DEF TypeOK, BeginRow, OpenTx, InTx
  <2>9. ASSUME NEW r \in Requests, BeginRowFails(r) PROVE Typed'
    BY <2>9 DEF TypeOK, BeginRowFails, Fail, Answer, InTx
  <2>10. ASSUME NEW r \in Requests, InsertRow(r) PROVE Typed'
    BY <2>10 DEF TypeOK, InsertRow, MayWrite, InTx, Store
  <2>11. ASSUME NEW r \in Requests, InsertRowFails(r) PROVE Typed'
    BY <2>11 DEF TypeOK, InsertRowFails, InsertFails, RollbackTx, CloseTx, InTx
  <2>12. ASSUME NEW r \in Requests, RollbackRow(r) PROVE Typed'
    BY <2>12 DEF TypeOK, RollbackRow, RollbackTx, CloseTx, Fail, Answer
  <2>13. ASSUME NEW r \in Requests, CommitRow(r) PROVE Typed'
    BY <2>13 DEF TypeOK, CommitRow, CommitTx, Store, CloseTx, InTx
  <2>14. ASSUME NEW r \in Requests, CommitRowFails(r) PROVE Typed'
    BY <2>14 DEF TypeOK, CommitRowFails, RollbackTx, CloseTx, Fail, Answer
  <2>15. ASSUME NEW r \in Requests, EmbedFails(r) PROVE Typed'
    BY <2>15 DEF TypeOK, EmbedFails
  <2>16. ASSUME NEW r \in Requests, BeginEmb(r) PROVE Typed'
    BY <2>16 DEF TypeOK, BeginEmb, OpenTx, InTx
  <2>17. ASSUME NEW r \in Requests, InsertEmb(r) PROVE Typed'
    BY <2>17 DEF TypeOK, InsertEmb, MayWrite, InTx, Store, Visible
  <2>18. ASSUME NEW r \in Requests, InsertEmbFails(r) PROVE Typed'
    BY <2>18 DEF TypeOK, InsertEmbFails, InsertFails, RollbackTx, CloseTx, InTx
  <2>19. ASSUME NEW r \in Requests, RollbackEmb(r) PROVE Typed'
    BY <2>19 DEF TypeOK, RollbackEmb, RollbackTx, CloseTx
  <2>20. ASSUME NEW r \in Requests, CommitEmb(r) PROVE Typed'
    BY <2>20 DEF TypeOK, CommitEmb, CommitTx, Store, CloseTx, InTx
  <2>21. ASSUME NEW r \in Requests, CommitEmbFails(r) PROVE Typed'
    BY <2>21 DEF TypeOK, CommitEmbFails, RollbackTx, CloseTx
  <2>22. ASSUME NEW r \in Requests, Append(r) PROVE Typed'
    BY <2>22 DEF TypeOK, Append
  <2>23. ASSUME NEW r \in Requests, Respond(r) PROVE Typed'
    BY <2>23 DEF TypeOK, Respond, Fail, Answer, Visible
  <2>24. ASSUME NEW r \in Requests, NEW u \in Urls, NEW p \in Processes, Post(r, u, p)
        PROVE  Typed'
    BY <2>24 DEF TypeOK, Post
  <2>25. ASSUME NEW p \in Processes, Load(p) PROVE Typed'
    BY <2>25 DEF TypeOK, Load
  <2>26. ASSUME NEW p \in Processes, Bind(p) PROVE Typed'
    BY <2>26 DEF TypeOK, Bind
  <2>27. ASSUME NEW p \in Processes, Stop(p) PROVE Typed'
    BY <2>27 DEF TypeOK, Stop
  <2>28. ASSUME NEW p \in Processes, Exit(p) PROVE Typed'
    BY <2>28 DEF TypeOK, Exit
  <2>29. CASE UNCHANGED vars
    BY <2>29 DEF TypeOK, vars
  <2> QED
    BY <2>1, <2>2, <2>3, <2>4, <2>5, <2>6, <2>7, <2>8, <2>9, <2>10, <2>11,
       <2>12, <2>13, <2>14, <2>15, <2>16, <2>17, <2>18, <2>19, <2>20, <2>21,
       <2>22, <2>23, <2>24, <2>25, <2>26, <2>27, <2>28, <2>29 DEF Next, Handler
<1>3. Typed => TypeOK
  OBVIOUS
<1> HIDE DEF Typed
<1> QED
  BY <1>1, <1>2, <1>3, PTL DEF Spec

-----------------------------------------------------------------------------
(***************************************************************************)
(* The inductive invariant.                                                *)
(***************************************************************************)

\* Whatever handlers interleave, fail, lose their transaction or crash, the durable
\* data, the connections, the caches and the answers stay in step as IndInv says.
THEOREM Invariance == Spec => []IndInv
<1> USE DEF IndInv, HomeInv, OwnerInv, TxInv, DurableInv, UnbrokenInv, AnswerInv,
            CacheMatchesIndex, DedupInv, SequentialDedup, RollbackSteps, InTx
<1>1. Init => IndInv
  BY NoRequestAssumption, NoProcessAssumption DEF Init
<1>2. TypeOK /\ IndInv /\ [Next]_vars => IndInv'
  <2> SUFFICES ASSUME TypeOK, IndInv, [Next]_vars PROVE IndInv'
    OBVIOUS
  <2> USE NoRequestAssumption, NoProcessAssumption DEF TypeOK
  <2>1. ASSUME NEW r \in Requests, DedupHit(r) PROVE IndInv'
    BY <2>1 DEF DedupHit, Answer, FindByUrl, Visible
  <2>2. ASSUME NEW r \in Requests, DedupMiss(r) PROVE IndInv'
    BY <2>2 DEF DedupMiss, Visible
  <2>3. ASSUME NEW r \in Requests, Extract(r) PROVE IndInv'
    BY <2>3 DEF Extract
  <2>4. ASSUME NEW r \in Requests, ExtractFails(r) PROVE IndInv'
    BY <2>4 DEF ExtractFails, Fail, Answer
  <2>5. ASSUME NEW r \in Requests, OpenFile(r) PROVE IndInv'
    BY <2>5 DEF OpenFile
  <2>6. ASSUME NEW r \in Requests, WriteFile(r) PROVE IndInv'
    BY <2>6 DEF WriteFile
  <2>7. ASSUME NEW r \in Requests, WriteFails(r) PROVE IndInv'
    BY <2>7 DEF WriteFails, Fail, Answer
  <2>8. ASSUME NEW r \in Requests, BeginRow(r) PROVE IndInv'
    BY <2>8 DEF BeginRow, OpenTx, InTx
  <2>9. ASSUME NEW r \in Requests, BeginRowFails(r) PROVE IndInv'
    BY <2>9 DEF BeginRowFails, Fail, Answer, InTx
  <2>10. ASSUME NEW r \in Requests, InsertRow(r) PROVE IndInv'
    <3>1. CASE InTx(home[r])
      BY <2>10, <3>1 DEF InsertRow, MayWrite
    <3>2. CASE ~InTx(home[r])
      <4> DEFINE p == home[r]
      <4>1. /\ r \in broken /\ r \notin rows /\ file[r] = "complete" /\ p \in Processes
            /\ pc[r] = "insert" /\ pc' = [pc EXCEPT ![r] = "commit"]
            /\ rows' = rows \cup {r} /\ embRows' = embRows
            /\ UNCHANGED <<phase, captureVars, file, txOwner, pendRows, pendEmbs, torn, broken,
                            cache, clientVars>>
        BY <2>10, <3>2 DEF InsertRow, Store
      <4>2. \A q \in Processes : \/ hidden'[q] = hidden[q]
                                 \/ q # p /\ InTx(q) /\ hidden'[q] = hidden[q] \cup {r}
                                 \/ q = p /\ hidden'[q] = {}
        BY <2>10, <3>2 DEF InsertRow, Store
      <4>3. HomeInv'
        BY <4>1, <4>2
      <4>4. OwnerInv' /\ TxInv'
        BY <4>1
      <4>5. DurableInv' /\ UnbrokenInv'
        BY <4>1
      <4>6. AnswerInv' /\ CacheMatchesIndex' /\ SequentialDedup'
        BY <4>1
      <4>7. DedupInv'
        <5>1. \A q \in Requests : r \notin seen[q]
          BY <4>1
        <5> QED
          BY <4>1, <4>2, <5>1
      <4> QED
        BY <4>3, <4>4, <4>5, <4>6, <4>7
    <3> QED
      BY <3>1, <3>2
  <2>11. ASSUME NEW r \in Requests, InsertRowFails(r) PROVE IndInv'
    <3>1. CASE UNCHANGED dbVars
      BY <2>11, <3>1 DEF InsertRowFails
    <3>2. CASE InTx(home[r]) /\ RollbackTx(r) /\ torn' = torn \cup {home[r]}
      BY <2>11, <3>2 DEF InsertRowFails, RollbackTx, CloseTx
    <3> QED
      BY <2>11, <3>1, <3>2 DEF InsertRowFails, InsertFails
  <2>12. ASSUME NEW r \in Requests, RollbackRow(r) PROVE IndInv'
    BY <2>12 DEF RollbackRow, RollbackTx, CloseTx, Fail, Answer
  <2>13. ASSUME NEW r \in Requests, CommitRow(r) PROVE IndInv'
    BY <2>13 DEF CommitRow, CommitTx, Store, CloseTx, InTx
  <2>14. ASSUME NEW r \in Requests, CommitRowFails(r) PROVE IndInv'
    BY <2>14 DEF CommitRowFails, RollbackTx, CloseTx, Fail, Answer
  <2>15. ASSUME NEW r \in Requests, EmbedFails(r) PROVE IndInv'
    BY <2>15 DEF EmbedFails
  <2>16. ASSUME NEW r \in Requests, BeginEmb(r) PROVE IndInv'
    BY <2>16 DEF BeginEmb, OpenTx, InTx
  <2>17. ASSUME NEW r \in Requests, InsertEmb(r) PROVE IndInv'
    BY <2>17 DEF InsertEmb, MayWrite, InTx, Store, Visible
  <2>18. ASSUME NEW r \in Requests, InsertEmbFails(r) PROVE IndInv'
    <3>1. CASE UNCHANGED dbVars
      BY <2>18, <3>1 DEF InsertEmbFails
    <3>2. CASE InTx(home[r]) /\ RollbackTx(r) /\ torn' = torn \cup {home[r]}
      BY <2>18, <3>2 DEF InsertEmbFails, RollbackTx, CloseTx
    <3> QED
      BY <2>18, <3>1, <3>2 DEF InsertEmbFails, InsertFails
  <2>19. ASSUME NEW r \in Requests, RollbackEmb(r) PROVE IndInv'
    BY <2>19 DEF RollbackEmb, RollbackTx, CloseTx
  <2>20. ASSUME NEW r \in Requests, CommitEmb(r) PROVE IndInv'
    BY <2>20 DEF CommitEmb, CommitTx, Store, CloseTx, InTx
  <2>21. ASSUME NEW r \in Requests, CommitEmbFails(r) PROVE IndInv'
    BY <2>21 DEF CommitEmbFails, RollbackTx, CloseTx
  <2>22. ASSUME NEW r \in Requests, Append(r) PROVE IndInv'
    BY <2>22 DEF Append
  <2>23. ASSUME NEW r \in Requests, Respond(r) PROVE IndInv'
    <3>1. r \in Visible(home[r]) <=> r \in rows
      BY <2>23 DEF Respond, Visible
    <3>2. CASE r \in rows
      BY <2>23, <3>1, <3>2 DEF Respond, Answer
    <3>3. CASE r \notin rows
      <4>1. /\ pc[r] = "respond" /\ pc' = [pc EXCEPT ![r] = "done"]
            /\ status' = [status EXCEPT ![r] = "500"]
            /\ reply' = [reply EXCEPT ![r] = NoRequest]
            /\ UNCHANGED <<phase, home, url, seen, captureVars, file, dbVars, cache>>
        BY <2>23, <3>1, <3>3 DEF Respond, Fail, Answer
      <4>2. HomeInv' /\ OwnerInv' /\ TxInv' /\ DurableInv' /\ UnbrokenInv'
        BY <4>1
      <4>3. AnswerInv'
        BY <3>3, <4>1
      <4>4. CacheMatchesIndex' /\ DedupInv' /\ SequentialDedup'
        BY <4>1
      <4> QED
        BY <4>2, <4>3, <4>4
    <3> QED
      BY <3>2, <3>3
  <2>24. ASSUME NEW r \in Requests, NEW u \in Urls, NEW p \in Processes, Post(r, u, p)
        PROVE  IndInv'
    BY <2>24 DEF Post
  <2>25. ASSUME NEW p \in Processes, Load(p) PROVE IndInv'
    BY <2>25 DEF Load
  <2>26. ASSUME NEW p \in Processes, Bind(p) PROVE IndInv'
    BY <2>26 DEF Bind
  <2>27. ASSUME NEW p \in Processes, Stop(p) PROVE IndInv'
    BY <2>27 DEF Stop
  <2>28. ASSUME NEW p \in Processes, Exit(p) PROVE IndInv'
    BY <2>28 DEF Exit
  <2>29. CASE UNCHANGED vars
    BY <2>29
  <2> QED
    BY <2>1, <2>2, <2>3, <2>4, <2>5, <2>6, <2>7, <2>8, <2>9, <2>10, <2>11,
       <2>12, <2>13, <2>14, <2>15, <2>16, <2>17, <2>18, <2>19, <2>20, <2>21,
       <2>22, <2>23, <2>24, <2>25, <2>26, <2>27, <2>28, <2>29 DEF Next, Handler
<1> QED
  BY <1>1, <1>2, TypeCorrect, PTL DEF Spec

-----------------------------------------------------------------------------
(***************************************************************************)
(* What the invariant gives.                                               *)
(***************************************************************************)

\* write_capture before insert_capture is enough: no row, committed or pending,
\* ever names a vault file that was not completely written.
THEOREM IndexedFilesAreComplete == Spec => []RowHasCompleteFile
<1>1. TypeOK /\ IndInv => RowHasCompleteFile
  BY DEF TypeOK, IndInv, TxInv, DurableInv, RowHasCompleteFile
<1> QED
  BY <1>1, TypeCorrect, Invariance, PTL

\* With BEGIN outside the try of `transaction`, a handler loses its transaction to
\* another one's statement only where SQLite has ended a transaction under a
\* failing INSERT before.
THEOREM TransactionsAreOwned == Spec => []TransactionOwnership
<1>1. TypeOK /\ IndInv => TransactionOwnership
  BY DEF TypeOK, IndInv, TxInv, TransactionOwnership
<1> QED
  BY <1>1, TypeCorrect, Invariance, PTL

\* The recall cache of each process lists committed captures, and the embeddings of
\* its own handlers but for those about to append and those that lost their
\* transaction, through every failure, restart and overlap of processes.
THEOREM CacheIsCurrent == Spec => []CacheMatchesIndex
<1>1. TypeOK /\ IndInv => CacheMatchesIndex
  BY DEF IndInv
<1> QED
  BY <1>1, TypeCorrect, Invariance, PTL

\* A request posted after its process could read a capture of its URL never creates
\* another and never gets an older one.
THEOREM LaterPostsDedup == Spec => []SequentialDedup
<1>1. TypeOK /\ IndInv => SequentialDedup
  BY DEF IndInv
<1> QED
  BY <1>1, TypeCorrect, Invariance, PTL

\* An error answer leaves no row unless the handler lost its transaction; a created
\* capture is committed even then.
THEOREM AnswersMatchIndex == Spec => []AnswerMatchesIndex
<1>1. TypeOK /\ IndInv => AnswerMatchesIndex
  BY DEF TypeOK, IndInv, TxInv, AnswerInv, AnswerMatchesIndex
<1> QED
  BY <1>1, TypeCorrect, Invariance, PTL

\* A client holds the id of a capture that does not exist only when the handler
\* whose uncommitted row its dedup read saw has failed or lost its transaction.
THEOREM PhantomsAreExplained == Spec => []PhantomsNeedAFailure
<1> USE DEF PhantomsNeedAFailure
<1>1. Init => PhantomsNeedAFailure
  BY DEF Init
<1>2. TypeOK /\ IndInv /\ PhantomsNeedAFailure /\ [Next]_vars => PhantomsNeedAFailure'
  <2> SUFFICES ASSUME TypeOK, IndInv, PhantomsNeedAFailure, [Next]_vars
               PROVE  PhantomsNeedAFailure'
    OBVIOUS
  <2> DEFINE Known == rows \cup pendRows \cup broken
             Told == UNCHANGED <<status, reply>>
             LostKept == \A q \in Requests : pc[q] = "lost" => pc'[q] = "lost"
  <2>1. Told /\ Known \subseteq Known' /\ LostKept => PhantomsNeedAFailure'
    BY DEF TypeOK, IndInv, AnswerInv
  \* Whoever answers, a row that was known and is not any more is its own.
  <2>2. ASSUME NEW r \in Requests, NEW c \in Errors,
               Fail(r, c), Known \ {r} \subseteq Known'
        PROVE  PhantomsNeedAFailure'
    BY <2>2 DEF Fail, Answer, TypeOK, IndInv, AnswerInv
  <2>3. ASSUME NEW r \in Requests, RollbackTx(r) PROVE Known \ {r} \subseteq Known'
    <3>1. \A o \in pendRows \ {r} : home[o] = home[r] => o \in Known'
      BY <2>3 DEF RollbackTx, CloseTx, TypeOK, IndInv, TxInv, InTx
    <3> QED
      BY <2>3, <3>1 DEF RollbackTx, CloseTx
  <2>4. ASSUME NEW r \in Requests, DedupHit(r) PROVE PhantomsNeedAFailure'
    BY <2>4 DEF DedupHit, Answer, FindByUrl, Visible, TypeOK, IndInv, AnswerInv
  <2>5. ASSUME NEW r \in Requests, Respond(r) PROVE PhantomsNeedAFailure'
    <3>1. CASE r \in Visible(home[r])
      BY <2>5, <3>1 DEF Respond, Answer, Visible, TypeOK, IndInv, AnswerInv
    <3>2. CASE r \notin Visible(home[r])
      BY <2>2, <2>5, <3>2 DEF Respond
    <3> QED
      BY <3>1, <3>2
  <2>6. ASSUME NEW r \in Requests, ExtractFails(r) \/ WriteFails(r) \/ BeginRowFails(r)
        PROVE  PhantomsNeedAFailure'
    BY <2>2, <2>6 DEF ExtractFails, WriteFails, BeginRowFails
  <2>7. ASSUME NEW r \in Requests, RollbackRow(r) \/ CommitRowFails(r)
        PROVE  PhantomsNeedAFailure'
    BY <2>2, <2>3, <2>7 DEF RollbackRow, CommitRowFails
  <2>8. ASSUME NEW r \in Requests,
               InsertRowFails(r) \/ InsertEmbFails(r) \/ RollbackEmb(r) \/ CommitEmbFails(r)
        PROVE  PhantomsNeedAFailure'
    <3>1. pc[r] \in {"insert", "insertEmb", "rollbackEmb", "commitEmb"} /\ Told /\ LostKept
      BY <2>8 DEF InsertRowFails, InsertEmbFails, RollbackEmb, CommitEmbFails, TypeOK
    <3>2. r \notin pendRows
      BY <3>1 DEF TypeOK, IndInv, TxInv
    <3>3. UNCHANGED dbVars \/ RollbackTx(r)
      BY <2>8 DEF InsertRowFails, InsertEmbFails, RollbackEmb, CommitEmbFails, InsertFails
    <3>4. r \in Known => r \in Known'
      BY <3>2, <3>3 DEF RollbackTx, CloseTx
    <3> QED
      BY <2>1, <2>3, <3>1, <3>3, <3>4
  <2>9. ASSUME NEW r \in Requests, CommitRow(r) \/ CommitEmb(r) PROVE PhantomsNeedAFailure'
    <3>1. Told /\ LostKept
      BY <2>9 DEF CommitRow, CommitEmb, TypeOK
    <3>2. Known \subseteq Known'
      BY <2>9 DEF CommitRow, CommitEmb, CommitTx, Store, CloseTx
    <3> QED
      BY <2>1, <3>1, <3>2
  <2>10. ASSUME NEW r \in Requests, InsertRow(r) \/ InsertEmb(r) PROVE PhantomsNeedAFailure'
    <3>1. Told /\ LostKept
      BY <2>10 DEF InsertRow, InsertEmb, TypeOK
    <3>2. Known \subseteq Known'
      BY <2>10 DEF InsertRow, InsertEmb, Store
    <3> QED
      BY <2>1, <3>1, <3>2
  <2>11. ASSUME NEW r \in Requests,
                DedupMiss(r) \/ Extract(r) \/ OpenFile(r) \/ WriteFile(r) \/ BeginRow(r) \/
                EmbedFails(r) \/ BeginEmb(r) \/ Append(r)
         PROVE  PhantomsNeedAFailure'
    BY <2>1, <2>11 DEF DedupMiss, Extract, OpenFile, WriteFile, BeginRow, OpenTx,
                       EmbedFails, BeginEmb, Append, TypeOK
  <2>12. ASSUME NEW r \in Requests, NEW u \in Urls, NEW p \in Processes, Post(r, u, p)
         PROVE  PhantomsNeedAFailure'
    BY <2>1, <2>12 DEF Post, TypeOK
  <2>13. ASSUME NEW p \in Processes, Load(p) \/ Bind(p) \/ Stop(p) PROVE PhantomsNeedAFailure'
    BY <2>1, <2>13 DEF Load, Bind, Stop
  \* A process that ends takes the handlers of the rows it had pending with it.
  <2>14. ASSUME NEW p \in Processes, Exit(p) PROVE PhantomsNeedAFailure'
    BY <2>14 DEF Exit, TypeOK, IndInv, TxInv, AnswerInv
  <2>15. CASE UNCHANGED vars
    BY <2>1, <2>15
  <2> QED
    BY <2>4, <2>5, <2>6, <2>7, <2>8, <2>9, <2>10, <2>11, <2>12, <2>13, <2>14, <2>15
    DEF Next, Handler
<1> QED
  BY <1>1, <1>2, TypeCorrect, Invariance, PTL DEF Spec

\* Embeddings are of indexed captures and indexed captures are in the vault.
THEOREM StoreIsLayered == Spec => []IndexedVault!Layered
<1>1. TypeOK /\ IndInv => IndexedVault!Layered
  BY DEF TypeOK, IndInv, DurableInv, IndexedVault!Layered
<1> QED
  BY <1>1, TypeCorrect, Invariance, PTL

\* The pipeline implements the layered, growing store of IndexedVault: crashes,
\* rollbacks and restarts are stuttering steps there.
THEOREM Refinement == Spec => ImplementsIndexedVault
<1> USE DEF IndexedVault!Init, IndexedVault!Next, IndexedVault!vars,
            IndexedVault!AddFile, IndexedVault!Commit
<1>1. Init => IndexedVault!Init
  BY DEF Init
<1>2. TypeOK /\ IndInv /\ [Next]_vars => [IndexedVault!Next]_(IndexedVault!vars)
  <2> SUFFICES ASSUME TypeOK, IndInv, [Next]_vars
               PROVE  [IndexedVault!Next]_(IndexedVault!vars)
    OBVIOUS
  <2> DEFINE Stutter == UNCHANGED <<file, rows, embRows>>
             Complete == {r \in Requests : file[r] = "complete"}
  <2>1. Stutter => [IndexedVault!Next]_(IndexedVault!vars)
    OBVIOUS
  <2>2. ASSUME NEW r \in Requests, OpenFile(r) PROVE UNCHANGED IndexedVault!vars
    BY <2>2 DEF OpenFile, TypeOK, IndInv, DurableInv
  <2>3. ASSUME NEW r \in Requests, WriteFile(r) PROVE IndexedVault!AddFile(r)
    BY <2>3 DEF WriteFile, TypeOK
  \* Whatever is pending has its file, or its row.
  <2>4. ASSUME NEW r \in Requests, InsertRow(r) \/ CommitRow(r) \/ InsertEmb(r) \/ CommitEmb(r)
        PROVE  Stutter \/ \E R, E \in SUBSET Requests : IndexedVault!Commit(R, E)
    <3>1. \A R, E \in SUBSET Requests :
            R \subseteq Complete /\ E \subseteq rows /\ Store(home[r], R, E) /\ UNCHANGED file
            => IndexedVault!Commit(R, E)
      BY DEF Store
    <3>2. pendRows \subseteq Complete /\ pendEmbs \subseteq rows
      BY DEF TypeOK, IndInv, TxInv, DurableInv
    <3> HIDE DEF IndexedVault!Commit
    <3>3. CASE InsertRow(r)
      <4>1. Stutter \/ (Store(home[r], {r}, {}) /\ UNCHANGED file)
        BY <3>3 DEF InsertRow
      <4>2. {r} \subseteq Complete
        BY <3>3 DEF InsertRow, TypeOK, IndInv, DurableInv
      <4>3. {r} \in SUBSET Requests /\ {} \in SUBSET Requests
        OBVIOUS
      <4> QED
        BY <3>1, <4>1, <4>2, <4>3
    <3>4. CASE InsertEmb(r)
      <4>1. Stutter \/ (Store(home[r], {}, {r}) /\ UNCHANGED file)
        BY <3>4 DEF InsertEmb
      <4>2. {r} \subseteq rows
        BY <3>4 DEF InsertEmb, Visible, TypeOK, IndInv, TxInv
      <4>3. {} \in SUBSET Requests /\ {r} \in SUBSET Requests /\ {} \subseteq Complete
        OBVIOUS
      <4> QED
        BY <3>1, <4>1, <4>2, <4>3
    <3>5. CASE CommitRow(r) \/ CommitEmb(r)
      <4> DEFINE R == {o \in pendRows : home[o] = home[r]}
                 E == {o \in pendEmbs : home[o] = home[r]}
      <4>1. Store(home[r], R, E) /\ UNCHANGED file
        BY <3>5 DEF CommitRow, CommitEmb, CommitTx
      <4>2. R \in SUBSET Requests /\ E \in SUBSET Requests
        BY DEF TypeOK
      <4>3. R \subseteq Complete /\ E \subseteq rows
        BY <3>2
      <4> QED
        BY <3>1, <4>1, <4>2, <4>3
    <3> QED
      BY <2>4, <3>3, <3>4, <3>5
  <2>5. ASSUME NEW r \in Requests, Handler(r), ~OpenFile(r), ~WriteFile(r),
               ~InsertRow(r), ~CommitRow(r), ~InsertEmb(r), ~CommitEmb(r)
        PROVE  Stutter
    BY <2>5 DEF Handler, DedupHit, DedupMiss, Extract, ExtractFails, WriteFails,
                BeginRow, BeginRowFails, OpenTx, InsertRowFails, InsertFails, RollbackRow,
                RollbackTx, CommitRowFails, EmbedFails, BeginEmb, InsertEmbFails,
                RollbackEmb, CommitEmbFails, Append, Respond
  <2>6. ASSUME NEW r \in Requests, NEW u \in Urls, NEW p \in Processes, Post(r, u, p)
        PROVE  Stutter
    BY <2>6 DEF Post
  <2>7. ASSUME NEW p \in Processes, Load(p) \/ Bind(p) \/ Stop(p) \/ Exit(p) PROVE Stutter
    BY <2>7 DEF Load, Bind, Stop, Exit
  <2>8. CASE UNCHANGED vars
    BY <2>1, <2>8
  <2> QED
    BY <2>1, <2>2, <2>3, <2>4, <2>5, <2>6, <2>7, <2>8 DEF Next
<1> QED
  BY <1>1, <1>2, TypeCorrect, Invariance, PTL
     DEF Spec, ImplementsIndexedVault, IndexedVault!Spec
=============================================================================
