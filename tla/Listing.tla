------------------------------- MODULE Listing -------------------------------
(***************************************************************************)
(* GET /api/v1/captures, paged by offset, while captures are inserted: the *)
(* listing reads on the connection that holds the inserts' transactions.   *)
(* A capture is named by its recorded_at, which the extractor sets some    *)
(* time before the row is inserted.                                        *)
(***************************************************************************)
EXTENDS Integers, Sequences, FiniteSets, SequencesExt

CONSTANTS
  MaxCaptures,  \* bound on the captures made
  Limits        \* page sizes a client may ask for

ASSUME MaxCapturesAssumption == MaxCaptures \in Nat
ASSUME LimitsAssumption == Limits \subseteq Nat \ {0}

VARIABLES
  extracted,  \* captures made so far: 1, 2, ... in the order of recorded_at
  pending,    \* ... of those, the ones not inserted yet
  rows,       \* rows a SELECT sees
  open,       \* rows of the open transaction
  paging,     \* "no", "yes", "done"
  limit,      \* page size
  offset,     \* offset of the next page
  listed,     \* captures listed so far, in order
  before,     \* history: rows committed when paging began
  inserted,   \* history: a row was inserted since
  withdrawn   \* history: an inserted row was rolled back since

storage == <<extracted, pending, rows, open>>
client == <<paging, limit, offset, listed, before>>
vars == <<storage, client, inserted, withdrawn>>

Captures == 1..MaxCaptures

TypeOK ==
  /\ extracted \in 0..MaxCaptures
  /\ pending \subseteq 1..extracted
  /\ rows \subseteq 1..extracted
  /\ open \subseteq rows /\ Cardinality(open) <= 1
  /\ paging \in {"no", "yes", "done"}
  /\ limit \in Limits
  /\ offset \in 0..MaxCaptures + limit
  /\ listed \in Seq(Captures)
  /\ before \subseteq Captures
  /\ inserted \in BOOLEAN /\ withdrawn \in BOOLEAN

Init ==
  /\ extracted = 0 /\ pending = {} /\ rows = {} /\ open = {}
  /\ paging = "no" /\ limit \in Limits /\ offset = 0 /\ listed = << >> /\ before = {}
  /\ inserted = FALSE /\ withdrawn = FALSE

-----------------------------------------------------------------------------
\* An extractor stamps recorded_at.
Extract ==
  /\ extracted < MaxCaptures
  /\ extracted' = extracted + 1
  /\ pending' = pending \cup {extracted + 1}
  /\ UNCHANGED <<rows, open, client, inserted, withdrawn>>

\* BEGIN and INSERT; the row is visible at once.
Insert(c) ==
  /\ c \in pending
  /\ open = {}
  /\ pending' = pending \ {c}
  /\ rows' = rows \cup {c}
  /\ open' = {c}
  /\ inserted' = TRUE
  /\ UNCHANGED <<extracted, client, withdrawn>>

\* BEGIN inside the open transaction of another handler.
InsertFails(c) ==
  /\ c \in pending
  /\ open # {}
  /\ pending' = pending \ {c}
  /\ UNCHANGED <<extracted, rows, open, client, inserted, withdrawn>>

Commit ==
  /\ open # {}
  /\ open' = {}
  /\ UNCHANGED <<extracted, pending, rows, client, inserted, withdrawn>>

\* Mutated form: the failed transaction is never ended.
RollbackLeftOpen ==
  /\ open # {}
  /\ rows' = rows \ open
  /\ withdrawn' = TRUE
  /\ UNCHANGED <<extracted, pending, open, client, inserted>>

\* The transaction fails.
Rollback ==
  /\ open # {}
  /\ rows' = rows \ open
  /\ open' = {}
  /\ withdrawn' = TRUE
  /\ UNCHANGED <<extracted, pending, client, inserted>>

\* The daemon dies and comes back; the client goes on with its next page.
Restart ==
  /\ pending' = {}
  /\ rows' = rows \ open
  /\ open' = {}
  /\ withdrawn' = (withdrawn \/ open # {})
  /\ UNCHANGED <<extracted, client, inserted>>

-----------------------------------------------------------------------------
Smaller(m, n) == IF m < n THEN m ELSE n

\* How many rows are as new as c; the k-th newest row.
Rank(c) == Cardinality({d \in rows : d >= c})
Newest(k) == CHOOSE c \in rows : Rank(c) = k

\* Mutated form: the first row of every page is left out.
PageFromNext(n, m) ==
  [k \in 1..Smaller(n, Cardinality(rows) - m) - 1 |-> Newest(m + 1 + k)]

\* Mutated form: a page holds one row too many.
PageOneMore(n, m) ==
  [k \in 1..Smaller(n + 1, Cardinality(rows) - m) |-> Newest(m + k)]

\* ORDER BY recorded_at DESC LIMIT n OFFSET m.
Page(n, m) ==
  [k \in 1..Smaller(n, Cardinality(rows) - m) |-> Newest(m + k)]

\* A client decides to list everything.
Begin ==
  /\ paging = "no"
  /\ paging' = "yes"
  /\ before' = rows \ open
  /\ inserted' = FALSE
  /\ withdrawn' = FALSE
  /\ UNCHANGED <<storage, limit, offset, listed>>

\* It asks for the next page until one is not full.
ListCaptures ==
  /\ paging = "yes"
  /\ LET page == Page(limit, offset)
     IN  /\ listed' = listed \o page
         /\ paging' = IF Len(page) < limit THEN "done" ELSE "yes"
  /\ offset' = offset + limit
  /\ UNCHANGED <<storage, limit, before, inserted, withdrawn>>

Next ==
  \/ Extract
  \/ \E c \in Captures : Insert(c) \/ InsertFails(c)
  \/ Commit \/ Rollback \/ Restart
  \/ Begin \/ ListCaptures

Spec == Init /\ [][Next]_vars

-----------------------------------------------------------------------------
\* A client that pages to the end has seen every capture that was there when it
\* began, whatever was inserted meanwhile and in whatever order; only a row that
\* was listed or counted and then rolled back can hide one from it.
NothingMissed ==
  paging = "done" /\ ~withdrawn => before \subseteq ToSet(listed)

\* A capture is listed twice only when another was inserted between two pages.
RepeatsForAReason ==
  ~inserted => IsInjective(listed)
=============================================================================
