---------------------------- MODULE CaptureRecall ----------------------------
(***************************************************************************)
(* Captures and recalls: the handlers of CapturePipeline commit rows and   *)
(* embeddings and append to the list that the handlers of Recall read,     *)
(* over the same connection and through the same failures.  The recalls    *)
(* are those of one process; the others write the same database.           *)
(*                                                                         *)
(* CapturePipeline keeps the list of a process as a set, its cache; here   *)
(* `records` is that set in order.                                         *)
(***************************************************************************)
EXTENDS Naturals, Sequences, FiniteSets, SequencesExt

CONSTANTS
  Requests, Urls, Untimed, Processes, NoRequest, NoUrl, NoProcess, \* CapturePipeline's
  Recalls, MaxScore, MaxLimit,                                     \* Recall's
  Observed                                 \* the process that answers the recalls

ASSUME NoRequestAssumption == NoRequest \notin Requests
ASSUME NoUrlAssumption == NoUrl \notin Urls
ASSUME NoProcessAssumption == NoProcess \notin Processes
ASSUME BoundsAssumption == MaxScore \in Nat \ {0} /\ MaxLimit \in Nat \ {0}
ASSUME ObservedAssumption == Observed \in Processes

VARIABLES
  \* Of CapturePipeline.
  phase, pc, home, url, text, recorded, clock, file, rows, embRows, txOwner,
  pendRows, pendEmbs, hidden, cache, status, reply, seen, torn, broken,
  \* Of Recall; rpc is its pc.
  records, score, rpc, limit, known, size, ranked, hits, code,
  \* History: the embeddings there were when Observed started last.
  stored

Pipeline == INSTANCE CapturePipeline

Up == phase[Observed] # "down"

\* The recall handlers share the connection: they see its uncommitted rows too,
\* and miss what others committed behind its open transaction.
Reader == INSTANCE Recall WITH
  Captures <- Requests, up <- Up, rows <- Pipeline!Visible(Observed),
  embedded <- embRows, pc <- rpc

\* What Recall promises, over committed rows.
Committed == INSTANCE Recall WITH
  Captures <- Requests, up <- Up, embedded <- embRows, pc <- rpc

pipelineVars == <<phase, pc, home, url, text, recorded, clock, file, rows, embRows,
                  txOwner, pendRows, pendEmbs, hidden, cache, status, reply, seen,
                  torn, broken>>
recallVars == <<rpc, limit, known, size, ranked, hits, code>>
vars == <<pipelineVars, recallVars, records, score, stored>>

Init ==
  /\ Pipeline!Init
  /\ Committed!Init
  /\ stored = {}

\* The list is filled at startup in any order, appended to, and lost at the end.
RecordsFollow ==
  LET old == cache[Observed]
      now == cache'[Observed]
  IN  \E new \in SetToSeqs(now \ old) :
        records' = IF old \subseteq now THEN records \o new ELSE new

LoseRecalls ==
  /\ rpc' = [t \in Recalls |-> IF rpc[t] \in {"idle", "done"} THEN rpc[t] ELSE "lost"]
  /\ UNCHANGED <<limit, known, size, ranked, hits, code>>

Capture ==
  /\ Pipeline!Next
  /\ RecordsFollow
  /\ IF Up /\ ~Up' THEN LoseRecalls ELSE UNCHANGED recallVars
  /\ stored' = IF ~Up /\ Up' THEN embRows ELSE stored
  /\ UNCHANGED score

Recall ==
  /\ UNCHANGED <<pipelineVars, stored>>
  /\ \/ /\ phase[Observed] = "serving"
        /\ \E t \in Recalls, n \in 1..MaxLimit : Reader!Arrive(t, n)
     \/ \E t \in Recalls : Reader!Handler(t)

Next == Capture \/ Recall

Spec == Init /\ [][Next]_vars

-----------------------------------------------------------------------------
\* A hit names a capture that is stored for good: its vault file is complete and
\* its row is committed, and so is its embedding unless the handler lost its
\* transaction, although recall reads uncommitted rows and a list that nothing
\* protects, and whatever rolled back or crashed.
HitsAreStored ==
  \A t \in Recalls : \A c \in Committed!Elements(hits[t]) :
    file[c] = "complete" /\ c \in rows /\ c \in embRows \cup broken

\* Captures with an embedding whose own POST Observed has answered.
AnsweredHere ==
  {r \in embRows \ broken : home[r] = Observed /\ status[r] = "201" /\ reply[r] = r}

\* Once its own POST has been answered with 201, a capture that has an embedding
\* competes in every recall that arrives at the same process later, and so does
\* every embedding that was stored when the process started.  (Left out are the
\* handlers that lost their transaction, a duplicate POST, answered with a capture
\* whose handler has not appended it yet, and what another process answers after
\* this one has loaded its list.)
ReadYourCaptures ==
  [][\A t \in Recalls : rpc[t] = "idle" /\ rpc'[t] # "idle" =>
       stored \cup AnsweredHere \subseteq known'[t]]_vars

\* The list the pipeline feeds is the one module Recall assumes: a record comes
\* after its row, each once, none is taken away but when the process ends, and its
\* next start restores every embedding.  So all that is checked of Recall holds of
\* recalls beside the real pipeline.
ImplementsRecall == Committed!Spec
=============================================================================
