# A verification development for Khiip

Khiip is a local daemon that captures web pages, posts, PDFs and videos into a
markdown vault, indexes them in SQLite, embeds them and answers semantic
queries. This directory holds TLA+ modules that model its behaviour, TLC
configurations that check them on small instances, and proofs that TLAPS checks
for every instance. Paths below are relative to `src/src/khiip/`.

## 1. The system

| component | state | operations | talks to |
|---|---|---|---|
| Capture pipeline: `daemon.py` `create_capture`, `storage/*` | vault files; tables `captures`, `embeddings`; one shared `sqlite3` connection and its transaction; `app.state.embedding_records` | `POST /api/v1/captures`: dedup, extract, write file, insert row, embed, insert embedding, append to the list, answer | registry, embedder, vault, SQLite |
| Semantic recall: `daemon.py` `recall`, `storage/embeddings_store.py` | reads the live embedding list | `GET /api/v1/recall`: embed the query, `cosine_topk`, hydrate | embedding list, SQLite |
| Listing: `daemon.py` `list_captures`, `storage/captures.py` | none of its own; clients keep an offset | `GET /api/v1/captures` with limit and offset | SQLite |
| API key: `config.py`, `auth.py`, `cli.py` | `auth.toml`; the copy in `app.state.api_key` | `ensure_auth`, `rotate_api_key`, `verify_bearer` | separate processes share the file |
| Startup, schema, threads: `daemon.py` `lifespan`, `storage/db.py`, `schema.sql` | the tables; the process's phase; threads and the requests waiting for one | start, run the script, load embeddings, bind the port, serve, shut down | SQLite, `auth.toml`, upstreams |
| Fallback chain: `extractors/resilience.py` | `last_retry_after`, reasons so far | `try_fallback_chain` | the extractors' sources |
| Extractors and registry: `extractors/*.py` | none between requests | dispatch, fetch, ask sources in order | upstreams, the chain |
| X payloads: `extractors/x.py` | none | two upstreams' JSON to title, description and body | |
| Subtitle tracks and parsers: `extractors/youtube.py` | none | choose a track, fetch it, VTT, SRT or json3 to transcript | upstreams |
| Frontmatter writer: `storage/filesystem.py` | none | YAML head and text of a vault file | whoever reads the vault |
| Configuration, CLI, embedder, PDF tables, edges table | see section 7 | | |

### What is hard

* FastAPI runs the synchronous handlers in a thread pool. **All of them share
  one SQLite connection** without a lock, so a handler meets another one's open
  transaction at any statement, reads its uncommitted rows, and must not commit
  or roll it back. It can: when SQLite has ended a transaction by itself, the
  **ROLLBACK that follows is a statement of its own** and hits whatever is open by then.
* **Two processes overlap** whenever one is stopped and the next started. uvicorn
  gives up the port first and then waits for the requests in flight; the new process
  loads its list before it binds. Both write the same database.
* A capture is written to **four places in turn** (file, row, embedding row,
  in-memory list). Each step can fail, and the process can die between any two.
* The dedup read is acted on **after an extraction of up to a minute**, while
  clients give up and retry after 30 s.
* Recall reads the length of the **live list three times** while captures
  append, and then looks its hits up in tables the captures are writing.
* The pool is **bounded, and `/health` runs on it too**: captures that wait for
  upstreams can occupy every thread, and one upstream call has no timeout.
* The schema script is **seventeen transactions, not one**: a first start may die
  between any two, and a second `serve` runs it at the same time, since the port
  is bound only after the startup.
* The key file is **rewritten in place** by processes that know nothing of each
  other, and the daemon keeps a copy from startup.
* A source can skip, answer or raise in many ways, and its Retry-After must
  survive the sources after it.
* Two upstreams describe a tweet in different JSON, rendered by **two copies of
  the rendering code** that should agree.
* A video has many subtitle tracks in several languages and formats; each may
  fail to download or turn out empty, and the search has to go on in order.
* A line-by-line subtitle parser and a one-character escape have to agree with
  formats whose grammars are larger.

`PROJECT.json` lists these at their lines, with the property that covers each.

### What makes each component correct

* *Pipeline*: a row has a complete file, an embedding has a row, the list has what
  its process embedded; an answer agrees with the index; a later post of a URL never
  makes a second capture; every request is answered. A handler whose transaction
  another one ended is the stated exception.
* *Recall*: hits are ranked, distinct, valid, at most `limit`; racing captures may
  hide the new records only; an answer is one that a single look at the list could
  have given.
* *Pipeline and recall together*: a hit is a capture stored for good; a capture
  answered with 201 is found by every later recall of the process that answered.
* *Listing*: paging to the end shows all that was there at the start.
* *Key*: commands that do not overlap agree on one key, whatever was killed
  before; a restart enforces a rotation.
* *Service*: a daemon that serves has the whole schema; every request it takes
  ends, but for those that calls without a timeout keep.
* *Chain, extractors*: an error means that every source was tried; the latest
  Retry-After is sent; no empty capture is stored; the specific extractor wins.
* *X payloads*: nothing a tweet says is lost, whichever upstream answered.
* *Tracks*: the transcript is of the best track that can be fetched and says
  anything.
* *Subtitles, frontmatter*: what is read back is what was said or written.

## 2. The modules

| module | what it is | abstract spec / proofs |
|---|---|---|
| `CapturePipeline` | concurrent `create_capture` handlers of overlapping processes | implements `IndexedVault`; `CapturePipelineProofs` |
| `IndexedVault` | vault, index and embeddings that only grow, each inside the one before | |
| `Recall` | recall handlers against a list that grows, is lost and reloaded | implements `AtomicRecall`; `RecallProofs` |
| `AtomicRecall` | recalls that look at the list once | |
| `CaptureRecall` | recalls of one process beside the pipeline: composes `CapturePipeline` and `Recall` | implements `Recall`; `CaptureRecallProofs` |
| `Service` | startup, thread pool, shutdown, a second daemon | `ServiceProofs` |
| `Listing` | a paging client against inserts and rollbacks | `ListingProofs` |
| `AuthKey` | command runs reading and rewriting `auth.toml` | `AuthKeyProofs` |
| `FallbackChain` | one call of `try_fallback_chain` | `ExtractionProofs` |
| `Extraction` | dispatch, fetch and the four extractors' sources; extends `FallbackChain` and `Tweets` | implements `FallbackChain`; `ExtractionProofs` |
| `Tweets` | operators: JSON of a tweet to title, description and body | |
| `Subtitles` | subtitle files and the two line parsers | |
| `Transcripts` | the search for a track; extends `Subtitles` | `FormatProofs` |
| `Ascending` | operators: a finite set of numbers in ascending order | `FormatProofs` |
| `Frontmatter` | a string value written and read back | `FormatProofs` |
| `MC...` | the instances TLC checks | |

A definition preceded by "Mutated form" or "Mutant" is not part of the model. It
is a plausible bug in the definition after it, and shows that a property would
notice.

### CapturePipeline

`pc[r]` is where handler `r` is in `create_capture`, and `home[r]` the process it runs
in; each action is the code up to the next point where another thread can come in:
the dedup SELECT (`DedupHit`, `DedupMiss`), the extraction, `open` and `write` of the
file, BEGIN, INSERT, COMMIT and ROLLBACK of both transactions, the embedder's call, the
append and the final SELECT. Every action has its failure: `ExtractFails` (400, 502 or
500), `WriteFails`, `BeginRowFails`, `InsertRowFails` with `RollbackRow`,
`CommitRowFails` end in an error answer, their counterparts of the embedding in the
answer without one, as the `except Exception` around them does.

Facts about SQLite and `sqlite3` that the model takes over: statements are
atomic; a connection has one transaction at most; BEGIN inside it raises, and so do
COMMIT and ROLLBACK outside; an INSERT outside it is committed at once; a SELECT on the
connection sees what the transaction has written; a failing INSERT leaves the
transaction open or, after a full disk or an I/O error, has ended it; a failing COMMIT
leaves nothing committed and no transaction. Between connections, one writes at a time
(`MayWrite`), and a transaction that has read goes on without what others commit
(`hidden`) and may not write on top of that. A read can be a GET's, so `Store` lets any
transaction be one that has read.

`transaction` (`storage/db.py:74`) runs BEGIN *before* its `try`, which is what keeps a
handler whose BEGIN failed from rolling back the owner's writes: the mutant that moves it
inside breaks `TransactionOwnership`. Its ROLLBACK is not kept from that. `torn` and
`broken` are history variables: in a process where SQLite ended a transaction under a
failing INSERT, the ROLLBACK that follows may end another handler's transaction, and
that handler is broken. Its INSERT is then committed by itself and its COMMIT raises, or
it may go on in the transaction of a third one. The properties say what holds of all
others, and what holds even of these; section 5 says what happens to them.

A process is down, loaded, serving or stopping. `Load` fills the cache while another
process may serve or stop; `Bind` needs that none serves; `Stop` gives up the port, and
the handlers in flight go on until they are answered or `Exit` comes, which stands for
the end of the process at any point: stopped, killed, or unable to bind.

A URL and its hash are one value, a capture's id is the request that made it,
and `recorded_at` is a strictly increasing clock, so that ties within one
microsecond are left out. What a crash keeps is what was given to the operating
system: power loss is not modelled.

### Recall

A handler's steps are the reads of the live list in `recall` and `cosine_topk`:
emptiness (`Arrive`), stacking (`Stack`), the comparison with `k`
(`SelectTop`, `SelectAll`), `np.arange(len(records))` (`NumberAll`,
`NumberAllFails`) and hydration. A vector is its score per query, `NegInf` for a
zero vector; `argpartition` and `argsort` may break ties in any way. A query
vector that is zero is left out, since it returns no hit before the list is read.

Captures are reduced to two events: rows or embeddings are committed, in any number at
once (`Commit`), and a record is appended. A crash loses the list and the handlers; the restart
loads it from the `embeddings` table, in any order, since `load_all`'s SELECT has no
ORDER BY.

`AtomicRecall` is what a client would like to believe: a recall asks, looks at the
captures in the list once, and is answered with a best result from what it saw. `Stack`
is that look. Before it a recall has asked, after it the recall has seen the first `size`
elements of the live list (`Stacked`), and the later reads of its length stutter. A 500
remains, and `AtomicRecall!Fail` says when: all that was seen would be a hit, and the
list holds more by now.

### CaptureRecall

The recalls are those of one process, `Observed`. Its list is here the cache that
`CapturePipeline` keeps for it, put in order, and the two sets of handlers step in any
interleaving over one connection, while other processes write the same database.
Recall's hydration therefore reads what that connection sees (`Visible`), uncommitted
rows among it. The property `ImplementsRecall` says that seen from the recall handlers
all this is module `Recall` over *committed* rows: so what `recall_safety` checks of a
simple environment holds beside the real pipeline. `stored` remembers the embeddings
there were when `Observed` loaded its list: `ReadYourCaptures` speaks of those and of the
captures it has answered since, and of no other process's.

### Service

Two instances of `khiipd serve` over one database file. `InitSchema` is one
statement of `schema.sql`, of which there are seventeen: `executescript` on a connection
with `isolation_level=None` makes each a transaction, and each has IF NOT EXISTS or OR
IGNORE. `Crash` also stands for a startup step that raises, which ends the
process. `Bind` is last because uvicorn runs the lifespan before it opens the
socket; a process that finds the port taken leaves. A failing warmup is only logged, so
it is no step. `Stop` closes the listening sockets, so that the next process may bind and
serve at once; `Close` waits for the requests in flight, and then the lifespan's
`finally` runs.

Each process has its own pool, queue and requests. FastAPI runs three things on a thread,
each queued for again: the dependency `verify_bearer`, the `def` endpoint, and the
validation of what it returned. `/health` has no dependency; a 401 ends a request after
the first, an exception after the second. A handler is the number of its upstream calls:
`Probes` for `/health`, up to `MaxCalls` for a capture, none otherwise. A call is
answered, or hangs until its timeout, or, only in a capture, is stuck: nothing limits it.
What a handler does with storage is in the other modules. The FIFO queue of threads,
the response validation and the graceful shutdown belong to anyio, FastAPI and uvicorn, and
are marked external.

### AuthKey

A process is one run of `serve`, of a `call` (capture or recall), of `auth show`
or of `rotate`. `exists`, `load`, truncation and writing are separate steps, and
a run may die at each. `ensure_auth`'s text is longer than `rotate_api_key`'s, so
a rotation written over it leaves a tail that is not TOML (`garbled`). `serve`
calls `ensure_auth` twice, and a second `serve` ends at the taken port only after
both: it may have regenerated the key by then. File mode and the 401 for a missing
header are left out.

### FallbackChain, Extraction and Tweets

`FallbackChain` is `try_fallback_chain` by itself. `Extraction` is a request from
dispatch to status: each source is the set of what it may do (skip with a
Retry-After, return a capture with some fields empty, raise), read off the
extractor's code, and it drives the chain's own actions, so that the chain's theorems
hold of it. A PDF's CreationDate is whether it matches the pattern, names
a day that exists, and its zone offset. A page is fetched once, and that fetch fails with
502, or with 500 when httpx cannot parse the URL. `source_hint` does not occur, as in the
code.

`Tweets` abstracts a text to whether it is there, and the first line or an article's
title also to whether it is blank, which is what `_synthesize_title` turns on.
The body is the set of sections rendered. `_render_body` and
`_render_vxtwitter_body` are two operators, as in the code, and
`TweetsAreKept` compares them. A community note is there or not: one of blanks only is left
out, which `_render_vxtwitter_body` would render and `_render_community_note` would not.

### Subtitles and Transcripts

`Subtitles`: files are built cue by cue, with comments, a style block, identifiers, both
forms of a timing and lines of tags alone, a line being the class the parsers' patterns
put it in; a transcript is the numbers of the lines kept. A byte order mark before the
head, REGION blocks and tags in SRT are left out. `Transcripts` runs the four nested loops of
`_fetch_transcript_from_ytdlp_info` over the tracks a video lists: a fetch that
fails is logged (`FetchFails`), one whose URL httpx cannot parse raises past the
loops (`FetchRaises`), a parser that leaves nothing sends the search on. A
json3 track is a track that gives text or does not.

### Listing, Frontmatter

`Listing`: a capture is its `recorded_at`; extraction stamps it some time before
the row is inserted, so rows arrive out of order; one transaction may be open
while a page is read. `Frontmatter`: characters are the four classes that writer or
YAML reader treat differently.

## 3. The runs

| run | states | shows |
|---|---|---|
| `capture_safety` | 3.9 M | three posts of one URL to two processes, every failure of a statement, crash, shutdown and start: six safety properties and the refinement of `IndexedVault` |
| `capture_liveness` | 57 k | two posts of either of two URLs, one of which may hang without a timeout: every request is answered, every committed embedding reaches the list, with the stated exceptions |
| `capture_duplicates` (violation) | | two overlapping posts of one URL leave two captures |
| `recall_safety` | 211 k | a recall, three captures appended at any moment, scores with ties and zero vectors, crash and reload; the refinement of `AtomicRecall` |
| `recall_index_error` (violation) | | an append between the two reads of the length: IndexError, 500 |
| `capture_recall` | 2.2 M | two posts to two processes beside a recall of one of them, with every failure, crash and start: hits are stored, a capture answered with 201 is found, and the refinement of `Recall` |
| `auth_safety` | 5.9 M | four runs of any command in any interleaving, killed anywhere |
| `extraction` | 15 k | every class of URL, key setting, tweet and PDF date, every answer of every source, Retry-After values with 0, which is falsy |
| `listing` | 31 k | up to four captures, pages of one to three |
| `transcripts` | 4.1 M | any subset of seven tracks, every failure of each; files of up to two cues of one or two lines, with comments and style blocks |
| `frontmatter` | 9 k | all values of up to five characters (the types are proved only) |
| `service` | 502 k | two daemons over one database, started, stopped and killed at any point of the schema script, one serving while the other ends; three requests on two threads each, upstreams that hang or get stuck |

**Why the bounds are enough.** Three handlers are one whose transaction SQLite ended,
one whose transaction its ROLLBACK then ends, and one that deduplicates against either or
begins after them; two processes are one beside another, and each may start again
without bound. One URL makes all of them meet. That dedup keeps several URLs apart
is proved for any set of them (`LaterPostsDedup`). Liveness is about handlers that might
wait for each other, for which one process and two requests suffice. Recalls write nothing, so one recall stands for each of many.
Three captures cover all relations of limit, valid vectors, stacked length and live
length, with one record before, between and after. Beside the real pipeline two
captures suffice, one in the list and one on its way, and one score: `recall_safety` has
the ties and the zero vectors. Four command
runs are a daemon, a rotation, a call and one more that overlaps or restarts. No
extractor has more than three sources. Zone offsets lie within, at and beyond
a day in both directions. Four captures and pages of three make full, partial and
empty pages. The seven tracks give each of the four loops two things to put in order, and
one that no loop reaches. Two cues show what one leaves behind for the next; when
several tracks are listed a file has one (`MaxCuesOfMany`), since a file tells
the search only whether its parser leaves anything. Five characters hold two
quotes with a neighbour on each side. Two daemons are one beside another, and
either is restarted without bound; three requests on two threads leave one to
wait, behind two that are stuck if need be. A handler makes one call (`MaxCalls`, `Probes`): a
second one, which could hang as well, is the same state with one less to go.
Every other counter is bounded by these: each request of the capture and recall
modules is sent once, a rotation and a regeneration make one key each.

**Deadlock** is checked in `capture_safety`, `capture_liveness` and `service`,
where the process may always crash, stop or start again. It is switched off
where the modelled actors finish (recall, capture and recall, key, extraction,
listing, transcripts, frontmatter).

**Fairness.** `CapturePipeline!FairSpec` is weak fairness of each handler's next
step, and of nothing else: a crash, a post and a start need never happen. A handler
that waits for an upstream call without a timeout is exempt (`MayHang`). There is one such
call: `extractors/youtube.py:403` makes a `YouTubeTranscriptApi()` without a session of
its own, and the library's has no timeout. Of all other steps the code justifies
fairness: the httpx clients have timeouts (10 to 60 s, probes 5 s), yt-dlp has a default
of 20 s, SQLite's busy wait is bounded, a BEGIN that meets an open transaction fails at
once rather than wait, and the thread pool schedules runnable threads. It assumes that
the parsers and the embedder return. `Extraction!FairSpec` says the same of one request:
all but the transcript source (`Untimed`) goes on. `Service!Spec` is weak fairness of each
request's next step: a queued one that is at the head and meets a free thread gets it,
and every upstream call ends but one that is stuck, for which no action is enabled.
Clients may send requests for ever, or never. An httpx timeout bounds each read, so the
assumption excludes an upstream that sends one byte at a time without end.

## 4. What is proved

`CapturePipelineProofs`, for any sets of requests, URLs and processes, from the
assumptions that the null values are none of these:

* `TypeCorrect`, one case per action;
* `Invariance`: the inductive invariant `IndInv`. The safety properties are not
  inductive by themselves: that a row has a complete file needs to know what a
  handler about to insert has done. `IndInv` therefore says, for each place a
  handler can be in, what is durable of its capture (`DurableInv`), what is durable or
  pending besides if its transaction was not ended by another (`UnbrokenInv`), what its
  client has been told (`AnswerInv`) and what it knew of its URL (`DedupInv`); that
  handlers, transactions and caches are those of live processes (`HomeInv`), that an open
  transaction belongs to a handler between BEGIN and ROLLBACK (`OwnerInv`), and that a
  handler between these owns it unless one was torn before in its process (`TxInv`);
* from it `IndexedFilesAreComplete`, `TransactionsAreOwned`, `CacheIsCurrent`,
  `LaterPostsDedup`, `AnswersMatchIndex`, `StoreIsLayered`;
* `PhantomsAreExplained`, by an induction of its own on top of `IndInv`: a step
  that answers nothing, takes away only rows of broken handlers and revives no lost one
  keeps it, and the few others are looked at one by one;
* `Refinement`: `Spec => IndexedVault!Spec`. The actions that complete a file or commit
  are steps of the abstract specification, all others stutter.

`RecallProofs`, for any number of recalls, captures, limits and scores, and any order
of reloading. `ListInv`: a process that is up has a list of committed captures without repetition. `KnownInv`:
what a handler knew when it began is in the list, and once it has stacked the vectors
it is among the first `size` of them. That follows from the list only growing while a
process lives, and is what makes ids read from the live list fit scores of an older
one. `RankInv`: what is about to be hydrated is a best result from the records stacked
(`Best`), hence one `cosine_topk` may return (`WellRanked`), and hydration drops
nothing. From these, by lemmas about stacking, the two selections and the ranking:
`TypeCorrect`, `RankedHits` and `KnownCompete`. `FailuresRaceAppends` is an action property:
it looks at the one step that answers 500, where the list is longer than what was stacked,
so that it holds a record the recall had not known.

`Refinement`: `Spec => AtomicRecall!Spec`. That nothing appended later changes what a
recall has seen is `SeenStays`, which needs `KnownInv`: `size` never exceeds the list, and
an append keeps the elements before it. `Best` is stated of the records stacked and not
only of those known at the start, since the abstract recall looks in the middle. A 500
needs that the list has no repetition, for only then does a longer list hold a capture
that was not seen.

`CaptureRecallProofs` proves nothing again. The composition instantiates both proof
modules: a recall changes nothing the pipeline has, so `IndInv` of the pipeline carries
over; and every step of the pipeline is a step of `Recall`'s environment or none, for
which `Link` (the list is the observed process's cache in some order), `Fresh` (no
snapshot hides a row of the cache from its process) and the pipeline's invariant are
needed. That gives `Refinement`, and with it `Recall`'s invariant beside the real
pipeline, and its refinement (`RecallsAreAtomic`): with all that captures do, recalls
implement `AtomicRecall`. `StoredHits` and `OwnCapturesAreKnown` follow from the two
together, with `HitsInv` (a hit was in the list once, and stays committed) and `Started`
(what was stored at its start stays in a process's cache as long as it runs).

`AuthKeyProofs`, for any number of commands, kills and restarts. `LoneCommandAgrees`
and `RestartEnforcesRotation` need each other, so the invariant holds both, together
with `AloneInv` (who has not been disturbed works alone), `RunInv` (a run about to write
holds a key that is not retired) and `ServedInv` (while a daemon that started
undisturbed has seen no rotation, the file has its key and nobody but a rotation is
about to change that). `RefusalsHaveReasons`, an action property, then looks at the one
step that answers 401.

`ListingProofs`, for any number of captures and page sizes. `Rank`, a row's place in the
order of a page, moves when rows come and go; four lemmas say how. `AheadInv`: an old
row is listed or its rank is beyond the offset, unless a row was withdrawn.
`OlderInv`: what is beyond the offset is older than all that is listed, unless a row
was inserted. `NothingIsMissed` and `RepeatsHaveReasons` are their consequences when
paging ends. `PagedInv`, an induction on top of them, says what a listing is while neither
happens: the newest rows in order, each at its rank. `UndisturbedListing` follows: all rows
once, newest first, as without pages.

`FormatProofs` is about what is written and read back. Of `Transcripts`, for files of any
length and any list of tracks, from
`TracksAssumption`, which says that a track stems from one of the two lists that are
looked at and has a place in it. The lemmas about `Ascending` show that a finite set of
numbers has one ascending sequence (`OneOrder`), and `FileInv` that what is spoken is
that of the lines of speech; a parser's output is that of the lines it keeps, and without
ambiguous lines the two sets are equal (`ParsersAreExact`). This needs no induction
over files, because a file that grows keeps the numbers of its lines. `TrackInv`:
tracks asked come before all that remain, and the one at hand is the next of them.
`LoopsPreferTheBetter` shows that the order of the four loops is that of `Better`, which
states the preferences without numbers; `BestTrack` puts these together.

Of `Frontmatter`, for values of any length and, in `MatterTypeCorrect`, of any
characters. The text is a flattened sequence of sequences, so where a character of the
value is in it is a fact about data, and one that no step establishes. It is proved by looking at a first counterexample: `Least` takes the least
member of a set of numbers from the library's theorem about well-founded orders, and needs
no operator as a parameter. `Flattened` derives FlattenSeq's recursion so, and `WrittenText`
that the k-th character begins after the lengths of those before it (`Off`, `Layout`).
`ReadSoFar` is then inductive: the reader is at the beginning of a character and has read
those before it. It follows that it never meets a quote before the closing one, which is
`QuotesAreReadBack`.

`ServiceProofs`, for any number of processes, requests and threads. `SchemaServed`:
that the version row implies the whole schema is not inductive, because a process
writes that row without looking. `SchemaInv` adds that what a process has run of the
script is in the database: nothing is ever dropped, so neither its own crash
nor another process can undo that, and whoever reaches the last statement has run
the sixteen before it. `Invariance` adds `PoolInv`, the queue of a process holds each of
its waiting requests once and no more of its requests run than it has threads, and
`PortInv`, one process at most has the port, and requests are with a process that serves
or still waits for its last ones. `TypeCorrect` follows.

`ExtractionProofs`, for chains of any length, any Retry-After values and zone offsets.
Of the chain alone: `ChainTypeCorrect`, `ErrorsAreExhaustive`, `RetryAfterIsLatest`;
exhaustiveness needs that the sources skipped are fewer than all while the chain is
trying. `ExtractionDrivesChain` shows that each step of an extraction is a step of the
chain or leaves it alone; `ExtractionIsExhaustive` and `ExtractionKeepsLatest` are then
the chain's theorems. Of an extraction, from the invariant that its extractor is the
one dispatch finds and its capture an answer of one of the sources:
`ExtractionTypeCorrect`, `SpecificWins`, `DatesDegrade`, `NothingOfATweetIsLost` and
`TextIsCaptured`. `NothingOfATweetIsLost` compares the two renderers section by section
for every tweet, not tweet by tweet.

The assumptions are those the modules state about their constants (null values are
none of the real ones, bounds are numbers), and TLC evaluates each in a run.

**Only model-checked**: liveness (`RequestsAnswered`, `EmbeddingsRecallable`,
`ExtractionEnds`, `EveryRequestEnds`), since the prover handles neither fairness nor
ENABLED, and the two violations. Every safety property of a passing run has its theorem.

## 5. Where the code and its statements disagree

Two disagreements have a run (section 3):

* `daemon.py:280` promises one un-superseded capture per URL. Overlapping posts make
  two: there is no lock from the read to the insert and no UNIQUE constraint.
  `SequentialDedup` is what does hold.
* `daemon.py:374` promises that concurrent posts cannot disturb a recall.
  `FailsOnlyForAnAppend` says when they do.

The models contain these too, without a run of their own:

* `storage/db.py:37`, write serialization by application-layer locking: there is no
  lock, and of two handlers that reach BEGIN at once one fails.
  `TransactionOwnership` and `AnswerMatchesIndex` are what does hold. A capture whose
  second BEGIN fails is answered with 201 and stays out of recall (`daemon.py:383` logs
  it).
* `storage/db.py:76`, "Rolls back on exception": after a full disk or an I/O error
  SQLite has rolled back already. Another handler's BEGIN may come before the ROLLBACK of
  `storage/db.py:81`, which then rolls back that handler's transaction, and otherwise
  raises. The victim's INSERT is committed by itself and its COMMIT raises: the client is
  answered 500 with a row stored, or its embedding is in the table and not in the list
  until the next start. It may also get into a third handler's transaction, and COMMIT
  that. `broken` are these handlers.
* `daemon.py:390`, "just inserted": the row of such a victim may be gone by then, and
  the assertion fails.
* `daemon.py:165`, "Load existing embeddings into memory once at startup; subsequent
  inserts append to this list": what a stopping process commits after that is not found by recalls of the new one
  (`ReadYourCaptures` and `CacheMatchesIndex` speak of each process's own).
* `daemon.py:280` once more: a transaction that has read goes on in its snapshot, so a
  dedup read in it does not find what another process has committed since
  (`SequentialDedup` counts what the process could read when the request was posted).
* `storage/db.py:36`, "safe concurrent reads": a dedup answer may name a row that
  is rolled back (`PhantomsNeedAFailure` says when), and a page may count one and
  hide another capture (`NothingMissed` says when).
* `daemon.py:377`: a duplicate POST may be answered before the capture it names is
  in the list; `ReadYourCaptures` therefore speaks of the POST that made it.
* `daemon.py:205`, "/health doesn't block on a hung upstream": its own probes do
  not hold it, but captures that hang on theirs can hold every thread, and if all of them
  are in the transcript call without a timeout, for ever (`Exhausted`).
  `EveryRequestEnds` is what does hold.
* `daemon.py:163`, "recall will return empty until resolved": while the embedder
  fails, `recall` answers 503 (`daemon.py:454`).
* `cli.py:8`, rotation "invalidates the old one": not in a running daemon, which
  keeps its copy (`RestartEnforcesRotation`).
* `config.py:124`, "Write atomically": the file is truncated in place;
  overlapping commands can garble it or end with different keys
  (`RefusedForAReason`, `LoneCommandAgrees`).
* `extractors/pdf.py:329`, "Returns None on any parse failure": a zone offset of a
  day or more raises ValueError and the capture ends in 400 (`PdfDatesDegrade`).
* `daemon.py:282`, "502 on upstream failure": JSON that is no object, or a quote
  whose author is null, makes `_parse_fxtwitter` raise AttributeError, a 500, and
  the next source is not asked.
* `extractors/x.py:211` takes an answer without a tweet for an empty capture,
  which `x.py:134` calls a failure; and an article with a blank title keeps the
  author's name from becoming the title. `CapturesHaveText` says when X may
  store a capture without text.
* `models.py:63`: `source_hint` is never read.
* `extractors/youtube.py:314`, "rather than raising": a subtitle URL that httpx
  cannot parse raises InvalidURL, which is no HTTPError, past the whole chain
  (`FetchRaises`).
* `extractors/youtube.py:613` and `:637`: VTT header lines and comment bodies stay
  in the transcript, spoken numbers in SRT files are dropped
  (`ExactWhenUnambiguous` lists the ambiguous lines). A VTT file that has nothing but
  header lines is therefore a transcript, and the tracks after it are not asked.
* `storage/filesystem.py:55`, "string-safe": a backslash or a line break is not
  escaped (`QuotesSurvive` is about the values without either).

## 6. Plan

Done: all modules of section 2, and a theorem for each safety property they are checked
for. What is left:

1. *Extend.* The configuration's precedence and the fold of extractor reports
   into `/health`'s answer, both as operators; json3 events and segments.
2. *An abstract specification worth stating*: a key register that `AuthKey` implements
   while no two commands overlap.

## 7. Not modelled

* Graph edges: the table is created, no code uses it yet.
* What `/health` answers: its probes are calls on a thread in `Service`, their
  verdict reaches no other component.
* Configuration lookup: stateless, read once at startup.
* The embedder's inside: a library behind two calls that may fail.
* Tables of a PDF and the wording of markdown: formatting. `Extraction` and
  `Tweets` keep which fields and sections may be empty.
* The size of a PDF response, kept in memory whole: memory is not part of a model.
* File names and slugs: the id in the name makes it unique.
* Argument parsing and exit codes; release and bench scripts; package metadata.

## 8. Running

    tlc -workers 2 -config capture_safety.cfg MCCapturePipeline
    tlapm CapturePipelineProofs.tla

and so on for the other runs and proof modules of section 2.

A run with `violation` in section 3 is expected to end with a counterexample.
