--------------------------- MODULE CapturePipeline ---------------------------
(***************************************************************************)
(* POST /api/v1/captures of the Khiip daemon: concurrent handlers in a     *)
(* thread pool that write the markdown vault, then the SQLite index, then  *)
(* the embedding row, then the in-memory recall cache.                     *)
(*                                                                         *)
(* All handlers of a process share ONE sqlite3 connection, opened with     *)
(* check_same_thread=False and no lock of its own.  SQLite executes each   *)
(* statement atomically, knows at most one open transaction per            *)
(* connection, refuses a BEGIN inside it, a COMMIT or ROLLBACK outside it, *)
(* commits an INSERT outside it at once, and lets every statement of the   *)
(* connection read what that transaction has written so far.  A failing    *)
(* INSERT leaves the transaction open or, after a full disk or an I/O      *)
(* error, has ended it.                                                    *)
(*                                                                         *)
(* Two processes meet on the database while one stops and the next starts: *)
(* the port is free as soon as the old one has closed it, and the new one  *)
(* fills its cache before it binds.                                        *)
(*                                                                         *)
(* A capture is named by the request that minted it: every handler calls   *)
(* ULID() at most once, and ULIDs are taken to be unique.                  *)
(***************************************************************************)
EXTENDS Naturals

CONSTANTS
  Requests,   \* the POST requests; also the capture ids they may mint
  Urls,       \* the URLs posted (a URL and its SHA-256 hash are identified)
  Untimed,    \* the URLs whose extractor makes a call without a timeout
  Processes,  \* the runs of `khiip serve`; a process may start again
  NoRequest,  \* "no transaction open" / "no capture returned"
  NoUrl,      \* the URL of a request not posted yet
  NoProcess   \* the process of a request not posted yet

ASSUME NoRequestAssumption == NoRequest \notin Requests
ASSUME NoUrlAssumption == NoUrl \notin Urls
ASSUME NoProcessAssumption == NoProcess \notin Processes

VARIABLES
  phase,      \* where each process is: "down", "loaded", "serving", "stopping"
  pc,         \* where each handler is in create_capture
  home,       \* the process each request was posted to
  url,        \* the URL each request carries
  text,       \* the capture has text to embed (_compose_embed_text # "")
  recorded,   \* recorded_at of each capture, 0 before extraction
  clock,      \* the wall clock that recorded_at is taken from
  file,       \* the vault file of each capture: "none", "partial", "complete"
  rows,       \* committed rows of table captures
  embRows,    \* committed rows of table embeddings
  txOwner,    \* per process: the handler whose BEGIN opened the transaction
  pendRows,   \* captures rows written by the open transactions
  pendEmbs,   \* embeddings rows written by the open transactions
  hidden,     \* per process: rows committed since its transaction's snapshot
  cache,      \* per process: app.state.embedding_records
  status,     \* HTTP status each request was answered with
  reply,      \* capture id each request was answered with
  seen,       \* history: the committed rows its process read when each was posted
  torn,       \* history: processes where SQLite ended a transaction in an INSERT
  broken      \* history: handlers whose transaction a statement of another ended

clientVars == <<status, reply, seen, url, home>>
captureVars == <<text, recorded, clock>>
txVars == <<txOwner, pendRows, pendEmbs, hidden, torn, broken>>
dbVars == <<rows, embRows, txVars>>
vars == <<phase, pc, clientVars, captureVars, file, dbVars, cache>>

(***************************************************************************)
(* Program counters, in the order create_capture passes them.              *)
(***************************************************************************)
BeforeFile == {"idle", "dedup", "extract", "open"}
RowSteps   == {"insert", "commit"}
EmbSteps   == {"insertEmb", "commitEmb"}
TxSteps    == RowSteps \cup EmbSteps
AfterRow   == {"embed", "rollbackEmb", "append", "respond"} \cup EmbSteps
Final      == {"done", "lost"}
PCs == BeforeFile \cup {"write", "begin", "rollback"} \cup RowSteps \cup AfterRow \cup Final

Errors   == {"400", "500", "502"}
Statuses == {"none", "201"} \cup Errors

TypeOK ==
  /\ phase \in [Processes -> {"down", "loaded", "serving", "stopping"}]
  /\ pc \in [Requests -> PCs]
  /\ home \in [Requests -> Processes \cup {NoProcess}]
  /\ url \in [Requests -> Urls \cup {NoUrl}]
  /\ text \in [Requests -> BOOLEAN]
  /\ recorded \in [Requests -> Nat]
  /\ clock \in Nat
  /\ file \in [Requests -> {"none", "partial", "complete"}]
  /\ rows \subseteq Requests
  /\ embRows \subseteq Requests
  /\ txOwner \in [Processes -> Requests \cup {NoRequest}]
  /\ pendRows \subseteq Requests
  /\ pendEmbs \subseteq Requests
  /\ hidden \in [Processes -> SUBSET Requests]
  /\ cache \in [Processes -> SUBSET Requests]
  /\ status \in [Requests -> Statuses]
  /\ reply \in [Requests -> Requests \cup {NoRequest}]
  /\ seen \in [Requests -> SUBSET Requests]
  /\ torn \subseteq Processes
  /\ broken \subseteq Requests

Init ==
  /\ phase = [p \in Processes |-> "down"]
  /\ pc = [r \in Requests |-> "idle"]
  /\ home = [r \in Requests |-> NoProcess]
  /\ url = [r \in Requests |-> NoUrl]
  /\ text = [r \in Requests |-> FALSE]
  /\ recorded = [r \in Requests |-> 0]
  /\ clock = 0
  /\ file = [r \in Requests |-> "none"]
  /\ rows = {}
  /\ embRows = {}
  /\ txOwner = [p \in Processes |-> NoRequest]
  /\ pendRows = {}
  /\ pendEmbs = {}
  /\ hidden = [p \in Processes |-> {}]
  /\ cache = [p \in Processes |-> {}]
  /\ status = [r \in Requests |-> "none"]
  /\ reply = [r \in Requests |-> NoRequest]
  /\ seen = [r \in Requests |-> {}]
  /\ torn = {}
  /\ broken = {}

-----------------------------------------------------------------------------
(***************************************************************************)
(* Control flow of one handler.                                            *)
(***************************************************************************)
At(r, label) == pc[r] = label

Goto(r, label) == pc' = [pc EXCEPT ![r] = label]

Answer(r, code, id) ==
  /\ Goto(r, "done")
  /\ status' = [status EXCEPT ![r] = code]
  /\ reply' = [reply EXCEPT ![r] = id]
  /\ UNCHANGED <<seen, url, home>>

Fail(r, code) == Answer(r, code, NoRequest)

(***************************************************************************)
(* The connection of a process.  A SELECT sees the open transaction's own  *)
(* writes, whichever handler runs it, and otherwise the rows committed     *)
(* when the transaction first read.                                        *)
(***************************************************************************)
Visible(p) == (rows \ hidden[p]) \cup {r \in pendRows : home[r] = p}

\* Mutated form: ORDER BY recorded_at ASC.
FindByUrlOldest(p, u) ==
  {e \in Visible(p) : url[e] = u /\ \A o \in Visible(p) :
                        url[o] = u => recorded[e] <= recorded[o]}

\* Rows a SELECT ... WHERE url_hash ORDER BY recorded_at DESC LIMIT 1 may return.
FindByUrl(p, u) ==
  {e \in Visible(p) : url[e] = u /\ \A o \in Visible(p) :
                        url[o] = u => recorded[o] <= recorded[e]}

InTx(p) == txOwner[p] # NoRequest

\* One connection writes at a time, and none on top of a snapshot that is stale.
MayWrite(p) ==
  /\ \A o \in pendRows \cup pendEmbs : home[o] = p
  /\ hidden[p] = {}

OpenTx(r) ==
  /\ ~InTx(home[r])
  /\ txOwner' = [txOwner EXCEPT ![home[r]] = r]
  /\ UNCHANGED <<rows, embRows, pendRows, pendEmbs, hidden, torn, broken>>

\* r's statement ends the transaction there is, if any, whoever opened it.
CloseTx(r) ==
  /\ txOwner' = [txOwner EXCEPT ![home[r]] = NoRequest]
  /\ pendRows' = {o \in pendRows : home[o] # home[r]}
  /\ pendEmbs' = {o \in pendEmbs : home[o] # home[r]}
  /\ broken' = broken \cup ({txOwner[home[r]]} \ {r, NoRequest})

RollbackTx(r) ==
  /\ CloseTx(r)
  /\ hidden' = [hidden EXCEPT ![home[r]] = {}]
  /\ UNCHANGED <<rows, embRows>>

\* Transactions of other processes that have read already go on without the
\* rows p commits; a GET may have been what read.
Store(p, newRows, newEmbs) ==
  /\ rows' = rows \cup newRows
  /\ embRows' = embRows \cup newEmbs
  /\ \E early \in SUBSET {q \in Processes \ {p} : InTx(q)} :
       /\ \A q \in Processes \ {p} : hidden[q] # {} => q \in early
       /\ hidden' = [q \in Processes |->
                       IF q = p THEN {} ELSE
                       IF q \in early THEN hidden[q] \cup newRows ELSE hidden[q]]

CommitTx(r) ==
  /\ InTx(home[r])
  /\ Store(home[r], {o \in pendRows : home[o] = home[r]},
                     {o \in pendEmbs : home[o] = home[r]})
  /\ CloseTx(r)
  /\ UNCHANGED torn

\* An INSERT raises (a lock, a constraint, the disk): the transaction is still
\* open, or SQLite has ended it.
InsertFails(r) ==
  \/ UNCHANGED dbVars
  \/ /\ InTx(home[r])
     /\ RollbackTx(r)
     /\ torn' = torn \cup {home[r]}

-----------------------------------------------------------------------------
(***************************************************************************)
(* create_capture, step by step.                                           *)
(***************************************************************************)

\* A client posts URL u to p; `seen` remembers what could be read by then.
Post(r, u, p) ==
  /\ At(r, "idle")
  /\ phase[p] = "serving"
  /\ Goto(r, "dedup")
  /\ home' = [home EXCEPT ![r] = p]
  /\ url' = [url EXCEPT ![r] = u]
  /\ seen' = [seen EXCEPT ![r] = rows \ hidden[p]]
  /\ UNCHANGED <<phase, captureVars, file, dbVars, cache, status, reply>>

DedupHit(r) ==
  /\ At(r, "dedup")
  /\ \E e \in FindByUrl(home[r], url[r]) : Answer(r, "201", e)
  /\ UNCHANGED <<phase, captureVars, file, dbVars, cache>>

DedupMiss(r) ==
  /\ At(r, "dedup")
  /\ \A e \in Visible(home[r]) : url[e] # url[r]
  /\ Goto(r, "extract")
  /\ UNCHANGED <<phase, captureVars, file, dbVars, cache, clientVars>>

\* The extractor returns a CaptureData stamped with the current time.
Extract(r) ==
  /\ At(r, "extract")
  /\ clock' = clock + 1
  /\ recorded' = [recorded EXCEPT ![r] = clock + 1]
  /\ \E t \in BOOLEAN : text' = [text EXCEPT ![r] = t]
  /\ Goto(r, "open")
  /\ UNCHANGED <<phase, file, dbVars, cache, clientVars>>

\* Mutated form: a status the handler does not document.
ExtractFails504(r) ==
  /\ At(r, "extract")
  /\ Fail(r, "504")
  /\ UNCHANGED <<phase, captureVars, file, dbVars, cache>>

\* No extractor or ValueError: 400; ExtractorError or HTTPError: 502; else 500.
ExtractFails(r) ==
  /\ At(r, "extract")
  /\ \E code \in Errors : Fail(r, code)
  /\ UNCHANGED <<phase, captureVars, file, dbVars, cache>>

\* write_capture: open(..., "w") creates an empty file, the text follows.
OpenFile(r) ==
  /\ At(r, "open")
  /\ file' = [file EXCEPT ![r] = "partial"]
  /\ Goto(r, "write")
  /\ UNCHANGED <<phase, captureVars, dbVars, cache, clientVars>>

WriteFile(r) ==
  /\ At(r, "write")
  /\ file' = [file EXCEPT ![r] = "complete"]
  /\ Goto(r, "begin")
  /\ UNCHANGED <<phase, captureVars, dbVars, cache, clientVars>>

\* Mutated form: an OSError of write_capture is logged and swallowed.
WriteErrorSwallowed(r) ==
  /\ \/ At(r, "open")
     \/ At(r, "write")
  /\ Goto(r, "begin")
  /\ UNCHANGED <<phase, captureVars, file, dbVars, cache, clientVars>>

\* mkdir, open or write raises OSError: whatever was written stays behind.
WriteFails(r) ==
  /\ \/ At(r, "open")
     \/ At(r, "write")
  /\ Fail(r, "500")
  /\ UNCHANGED <<phase, captureVars, file, dbVars, cache>>

-----------------------------------------------------------------------------
(***************************************************************************)
(* The transaction that inserts the captures row.                          *)
(***************************************************************************)
BeginRow(r) ==
  /\ At(r, "begin")
  /\ OpenTx(r)
  /\ Goto(r, "insert")
  /\ UNCHANGED <<phase, captureVars, file, cache, clientVars>>

\* Mutated form: BEGIN moved inside the try of `transaction`.
BeginRowFailsRollingBack(r) ==
  /\ At(r, "begin")
  /\ InTx(home[r])
  /\ RollbackTx(r)
  /\ Fail(r, "500")
  /\ UNCHANGED <<phase, captureVars, file, cache, torn>>

\* BEGIN inside another handler's transaction raises, outside the try.
BeginRowFails(r) ==
  /\ At(r, "begin")
  /\ InTx(home[r])
  /\ Fail(r, "500")
  /\ UNCHANGED <<phase, captureVars, file, dbVars, cache>>

\* Into the transaction there is, be it another handler's; else for good.
InsertRow(r) ==
  /\ At(r, "insert")
  /\ MayWrite(home[r])
  /\ IF InTx(home[r])
       THEN pendRows' = pendRows \cup {r} /\ UNCHANGED <<rows, embRows, hidden>>
       ELSE Store(home[r], {r}, {}) /\ UNCHANGED pendRows
  /\ Goto(r, "commit")
  /\ UNCHANGED <<phase, captureVars, file, txOwner, pendEmbs, torn, broken,
                 cache, clientVars>>

InsertRowFails(r) ==
  /\ At(r, "insert")
  /\ InsertFails(r)
  /\ Goto(r, "rollback")
  /\ UNCHANGED <<phase, captureVars, file, cache, clientVars>>

\* ROLLBACK is a statement of its own, and raises when no transaction is open.
RollbackRow(r) ==
  /\ At(r, "rollback")
  /\ RollbackTx(r)
  /\ Fail(r, "500")
  /\ UNCHANGED <<phase, captureVars, file, cache, torn>>

CommitRow(r) ==
  /\ At(r, "commit")
  /\ CommitTx(r)
  /\ Goto(r, IF text[r] THEN "embed" ELSE "respond")
  /\ UNCHANGED <<phase, captureVars, file, cache, clientVars>>

\* Mutated form: the exception is logged and the new capture answered.
CommitRowFailsUnnoticed(r) ==
  /\ At(r, "commit")
  /\ RollbackTx(r)
  /\ Answer(r, "201", r)
  /\ UNCHANGED <<phase, captureVars, file, cache, torn>>

\* COMMIT raises: no transaction is open, or the disk failed and SQLite has
\* rolled back by itself.
CommitRowFails(r) ==
  /\ At(r, "commit")
  /\ RollbackTx(r)
  /\ Fail(r, "500")
  /\ UNCHANGED <<phase, captureVars, file, cache, torn>>

-----------------------------------------------------------------------------
(***************************************************************************)
(* The embedding: every exception is logged and swallowed.                 *)
(***************************************************************************)

\* Mutated form: the embedder's exception reaches the client.
EmbedFailsRaising(r) ==
  /\ At(r, "embed")
  /\ Fail(r, "500")
  /\ UNCHANGED <<phase, captureVars, file, dbVars, cache>>

\* The embedder raises, or BEGIN does inside another handler's transaction.
EmbedFails(r) ==
  /\ At(r, "embed")
  /\ Goto(r, "respond")
  /\ UNCHANGED <<phase, captureVars, file, dbVars, cache, clientVars>>

BeginEmb(r) ==
  /\ At(r, "embed")
  /\ OpenTx(r)
  /\ Goto(r, "insertEmb")
  /\ UNCHANGED <<phase, captureVars, file, cache, clientVars>>

\* The foreign key capture_id REFERENCES captures(id) is enforced.
InsertEmb(r) ==
  /\ At(r, "insertEmb")
  /\ MayWrite(home[r])
  /\ r \in Visible(home[r])
  /\ IF InTx(home[r])
       THEN pendEmbs' = pendEmbs \cup {r} /\ UNCHANGED <<rows, embRows, hidden>>
       ELSE Store(home[r], {}, {r}) /\ UNCHANGED pendEmbs
  /\ Goto(r, "commitEmb")
  /\ UNCHANGED <<phase, captureVars, file, txOwner, pendRows, torn, broken,
                 cache, clientVars>>

InsertEmbFails(r) ==
  /\ At(r, "insertEmb")
  /\ InsertFails(r)
  /\ Goto(r, "rollbackEmb")
  /\ UNCHANGED <<phase, captureVars, file, cache, clientVars>>

RollbackEmb(r) ==
  /\ At(r, "rollbackEmb")
  /\ RollbackTx(r)
  /\ Goto(r, "respond")
  /\ UNCHANGED <<phase, captureVars, file, cache, clientVars, torn>>

\* Mutated form: the cache is left to the next restart.
CommitEmbOnly(r) ==
  /\ At(r, "commitEmb")
  /\ CommitTx(r)
  /\ Goto(r, "respond")
  /\ UNCHANGED <<phase, captureVars, file, cache, clientVars>>

CommitEmb(r) ==
  /\ At(r, "commitEmb")
  /\ CommitTx(r)
  /\ Goto(r, "append")
  /\ UNCHANGED <<phase, captureVars, file, cache, clientVars>>

\* Mutated form: a failed COMMIT is not noticed.
CommitEmbFailsUnnoticed(r) ==
  /\ At(r, "commitEmb")
  /\ RollbackTx(r)
  /\ Goto(r, "append")
  /\ UNCHANGED <<phase, captureVars, file, cache, clientVars, torn>>

CommitEmbFails(r) ==
  /\ At(r, "commitEmb")
  /\ RollbackTx(r)
  /\ Goto(r, "respond")
  /\ UNCHANGED <<phase, captureVars, file, cache, clientVars, torn>>

Append(r) ==
  /\ At(r, "append")
  /\ cache' = [cache EXCEPT ![home[r]] = @ \cup {r}]
  /\ Goto(r, "respond")
  /\ UNCHANGED <<phase, captureVars, file, dbVars, clientVars>>

\* Mutated form: the answer waits until recall can find the capture.
RespondWhenRecallable(r) ==
  /\ At(r, "respond")
  /\ r \in cache[home[r]]
  /\ Answer(r, "201", r)
  /\ UNCHANGED <<phase, captureVars, file, dbVars, cache>>

\* find_capture_by_id, then `assert stored is not None`.
Respond(r) ==
  /\ At(r, "respond")
  /\ IF r \in Visible(home[r]) THEN Answer(r, "201", r) ELSE Fail(r, "500")
  /\ UNCHANGED <<phase, captureVars, file, dbVars, cache>>

-----------------------------------------------------------------------------
(***************************************************************************)
(* The processes.                                                          *)
(***************************************************************************)

\* Mutated form: init_schema recreates the embeddings table.
LoadDroppingEmbeddings(p) ==
  /\ phase[p] = "down"
  /\ phase' = [phase EXCEPT ![p] = "loaded"]
  /\ embRows' = {}
  /\ UNCHANGED <<pc, captureVars, file, rows, txVars, cache, clientVars>>

\* lifespan: init_schema leaves existing rows alone, load_all_vectors; another
\* process may still be serving.
Load(p) ==
  /\ phase[p] = "down"
  /\ phase' = [phase EXCEPT ![p] = "loaded"]
  /\ cache' = [cache EXCEPT ![p] = embRows]
  /\ UNCHANGED <<pc, captureVars, file, dbVars, clientVars>>

\* uvicorn binds the port once lifespan has started up.
Bind(p) ==
  /\ phase[p] = "loaded"
  /\ \A q \in Processes : phase[q] # "serving"
  /\ phase' = [phase EXCEPT ![p] = "serving"]
  /\ UNCHANGED <<pc, captureVars, file, dbVars, cache, clientVars>>

\* uvicorn closes the port first and then waits for the requests in flight.
Stop(p) ==
  /\ phase[p] = "serving"
  /\ phase' = [phase EXCEPT ![p] = "stopping"]
  /\ UNCHANGED <<pc, captureVars, file, dbVars, cache, clientVars>>

\* The process ends: stopped, killed, or unable to bind.  The handlers still in
\* flight, the open transaction and the cache are lost; files and committed rows
\* are with the operating system.
Exit(p) ==
  /\ phase[p] # "down"
  /\ phase' = [phase EXCEPT ![p] = "down"]
  /\ pc' = [r \in Requests |->
              IF home[r] = p /\ pc[r] # "done" THEN "lost" ELSE pc[r]]
  /\ txOwner' = [txOwner EXCEPT ![p] = NoRequest]
  /\ pendRows' = {r \in pendRows : home[r] # p}
  /\ pendEmbs' = {r \in pendEmbs : home[r] # p}
  /\ hidden' = [hidden EXCEPT ![p] = {}]
  /\ cache' = [cache EXCEPT ![p] = {}]
  /\ UNCHANGED <<captureVars, file, rows, embRows, torn, broken, clientVars>>

Handler(r) ==
  \/ DedupHit(r)
  \/ DedupMiss(r)
  \/ Extract(r)
  \/ ExtractFails(r)
  \/ OpenFile(r)
  \/ WriteFile(r)
  \/ WriteFails(r)
  \/ BeginRow(r)
  \/ BeginRowFails(r)
  \/ InsertRow(r)
  \/ InsertRowFails(r)
  \/ RollbackRow(r)
  \/ CommitRow(r)
  \/ CommitRowFails(r)
  \/ EmbedFails(r)
  \/ BeginEmb(r)
  \/ InsertEmb(r)
  \/ InsertEmbFails(r)
  \/ RollbackEmb(r)
  \/ CommitEmb(r)
  \/ CommitEmbFails(r)
  \/ Append(r)
  \/ Respond(r)

Next ==
  \/ \E r \in Requests : Handler(r)
  \/ \E r \in Requests, u \in Urls, p \in Processes : Post(r, u, p)
  \/ \E p \in Processes : Load(p) \/ Bind(p) \/ Stop(p) \/ Exit(p)

Spec == Init /\ [][Next]_vars

\* The handler waits for an upstream call that nothing limits in time.
MayHang(r) == pc[r] = "extract" /\ url[r] \in Untimed

(***************************************************************************)
(* Every other step of a handler ends: the upstream calls of the other     *)
(* extractors and SQLite's wait for the write lock have timeouts, and no   *)
(* step waits for a handler.                                               *)
(***************************************************************************)
FairSpec == Spec /\ \A r \in Requests : WF_vars(Handler(r) /\ ~MayHang(r))

-----------------------------------------------------------------------------
(***************************************************************************)
(* Safety.                                                                 *)
(***************************************************************************)

\* A captures row, committed or not, always points at a completely written
\* vault file, whatever fails or crashes between the two: the vault is the
\* authoritative copy and the index must be rebuildable from it.
RowHasCompleteFile == \A r \in rows \cup pendRows : file[r] = "complete"

\* Between its BEGIN and its COMMIT the open transaction is the handler's own and
\* holds that handler's writes only, although all handlers share one connection.
\* The one way to lose it leads through an INSERT under which SQLite ended the
\* transaction: the ROLLBACK that follows ends the next handler's.
TransactionOwnership ==
  /\ \A r \in Requests \ broken : pc[r] \in TxSteps => txOwner[home[r]] = r
  /\ \A r \in (pendRows \cup pendEmbs) \ broken : txOwner[home[r]] = r
  /\ \A r \in broken : home[r] \in torn

\* The recall cache of a running process lists committed captures only, and
\* holds the embedding of each of its own captures from the append on: recall
\* scores no vector that was rolled back and misses none for good, except of the
\* handlers that lost their transaction.
CacheMatchesIndex ==
  \A p \in Processes : phase[p] # "down" =>
    /\ cache[p] \subseteq rows
    /\ cache[p] \subseteq embRows \cup broken
    /\ \A r \in embRows \ broken : home[r] = p => r \in cache[p] \/ pc[r] = "append"

\* A request posted when its process could read a committed capture of its URL
\* creates nothing: it is answered with an existing capture, and with none older
\* than those, however many handlers, processes and crashes intervene.
SequentialDedup ==
  \A r \in Requests : status[r] = "201" =>
    \A s \in seen[r] : url[s] = url[r] =>
      reply[r] # r /\ recorded[s] <= recorded[reply[r]]

\* The client's answer and the index agree: an error answer leaves no captures
\* row behind, not even when the embedding fails, unless the handler lost its
\* transaction; and even then a capture reported as created is committed.
AnswerMatchesIndex ==
  \A r \in Requests :
    /\ status[r] \in Errors => r \notin rows \cup pendRows \/ r \in broken
    /\ reply[r] = r => r \in rows

\* A dedup read may see a row that is not committed yet, but the client is left
\* with the id of a capture that does not exist only when the handler inserting
\* it failed afterwards or lost its transaction: nothing else answers with an id,
\* or loses one.
PhantomsNeedAFailure ==
  \A r \in Requests : status[r] = "201" =>
    \/ reply[r] \in rows \cup pendRows \cup broken
    \/ status[reply[r]] \in Errors
    \/ pc[reply[r]] = "lost"

-----------------------------------------------------------------------------
(***************************************************************************)
(* Statements of the repository that the code does not keep.               *)
(***************************************************************************)

\* Dedup by url_hash: a URL has one un-superseded capture at most
\* (create_capture's docstring and its dedup test).
OneCapturePerUrl ==
  \A r, s \in rows : url[r] = url[s] => r = s

-----------------------------------------------------------------------------
(***************************************************************************)
(* Liveness.                                                               *)
(***************************************************************************)

\* Every posted request is answered unless its process ends or its own upstream
\* call hangs: no handler waits for another one's transaction or call.
RequestsAnswered ==
  \A r \in Requests : (pc[r] # "idle") ~> (pc[r] \in Final \/ MayHang(r))

\* A committed embedding becomes visible to the recalls of its process without a
\* restart, unless the process ends or the handler lost its transaction.
EmbeddingsRecallable ==
  \A r \in Requests, p \in Processes :
    (r \in embRows /\ home[r] = p) ~> (r \in cache[p] \cup broken \/ phase[p] = "down")

-----------------------------------------------------------------------------
(***************************************************************************)
(* What the pipeline promises: the vault, index and embeddings of module   *)
(* IndexedVault.                                                           *)
(***************************************************************************)
IndexedVault == INSTANCE IndexedVault WITH
  Captures <- Requests,
  files <- {r \in Requests : file[r] = "complete"},
  rows <- rows,
  embeddings <- embRows

\* Every step adds a complete file, indexes captures that have one, embeds
\* captures that are indexed, or changes nothing durable; crashes, rollbacks and
\* restarts take nothing away.
ImplementsIndexedVault == IndexedVault!Spec
=============================================================================
