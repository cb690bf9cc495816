----------------------------- MODULE AtomicRecall -----------------------------
(***************************************************************************)
(* What GET /api/v1/recall promises: at one moment between the request and *)
(* its answer a recall looks at the records there are, and it answers with *)
(* the best of those, whatever is stored before and after.  The one        *)
(* exception is an answer of 500.                                          *)
(***************************************************************************)
EXTENDS Naturals, Sequences, FiniteSets

CONSTANTS Captures, Recalls, MaxScore, MaxLimit

VARIABLES
  up,      \* the daemon is running
  stored,  \* the captures whose embedding survives a crash
  list,    \* the captures recalls can find
  score,   \* score of each capture, per recall query
  state,   \* where each recall is
  limit,   \* how many hits it may get
  seen,    \* what it saw when it looked
  hits,    \* what it is answered
  code     \* HTTP status answered

world == <<up, stored, list, score>>
vars == <<world, state, limit, seen, hits, code>>

NoScore == 0

Init ==
  /\ up = FALSE
  /\ stored = {}
  /\ list = {}
  /\ \E zeros \in SUBSET Captures :
       score \in {s \in [Recalls -> [Captures -> NoScore..MaxScore]] :
                    \A t \in Recalls, c \in Captures : s[t][c] = NoScore <=> c \in zeros}
  /\ state = [t \in Recalls |-> "idle"]
  /\ limit = [t \in Recalls |-> 0]
  /\ seen = [t \in Recalls |-> {}]
  /\ hits = [t \in Recalls |-> << >>]
  /\ code = [t \in Recalls |-> "none"]

\* Captures are stored by this daemon or by another one.
Store(S) ==
  /\ stored' = stored \cup S
  /\ UNCHANGED <<up, list, score, state, limit, seen, hits, code>>

Record(c) ==
  /\ up
  /\ list' = list \cup {c}
  /\ UNCHANGED <<up, stored, score, state, limit, seen, hits, code>>

Crash ==
  /\ up
  /\ up' = FALSE
  /\ list' = {}
  /\ state' = [t \in Recalls |-> IF state[t] \in {"asked", "looked"} THEN "lost" ELSE state[t]]
  /\ seen' = [t \in Recalls |-> {}]
  /\ UNCHANGED <<stored, score, limit, hits, code>>

\* What was stored can be found again, all of it.
Restart ==
  /\ ~up
  /\ up' = TRUE
  /\ list' = stored
  /\ UNCHANGED <<stored, score, state, limit, seen, hits, code>>

Reply(t, result, r) ==
  /\ state' = [state EXCEPT ![t] = "done"]
  /\ seen' = [seen EXCEPT ![t] = {}]
  /\ code' = [code EXCEPT ![t] = result]
  /\ hits' = [hits EXCEPT ![t] = r]

\* Nothing to find, no hits.
Ask(t, n) ==
  /\ up
  /\ state[t] = "idle"
  /\ limit' = [limit EXCEPT ![t] = n]
  /\ IF list = {}
       THEN Reply(t, "200", << >>)
       ELSE state' = [state EXCEPT ![t] = "asked"] /\ UNCHANGED <<seen, hits, code>>
  /\ UNCHANGED world

Refuse(t) ==
  /\ state[t] = "asked"
  /\ Reply(t, "503", << >>)
  /\ UNCHANGED <<world, limit>>

Look(t) ==
  /\ state[t] = "asked"
  /\ state' = [state EXCEPT ![t] = "looked"]
  /\ seen' = [seen EXCEPT ![t] = list]
  /\ UNCHANGED <<world, limit, hits, code>>

InSeq(s) == {s[i] : i \in 1..Len(s)}

\* r is a best result from S: each hit once, those with the higher score first,
\* none without a score; what is left out makes way for limit hits as good.
Best(t, S, r) ==
  /\ Len(r) <= limit[t]
  /\ \A i, j \in 1..Len(r) : i < j => r[i] # r[j] /\ score[t][r[i]] >= score[t][r[j]]
  /\ \A c \in InSeq(r) : score[t][c] # NoScore
  /\ \A c \in S \ InSeq(r) : score[t][c] # NoScore =>
       Len(r) = limit[t] /\ \A h \in InSeq(r) : score[t][h] >= score[t][c]

Answer(t) ==
  /\ state[t] = "looked"
  /\ \E r \in UNION {[1..n -> seen[t]] : n \in 0..limit[t]} :
       Best(t, seen[t], r) /\ Reply(t, "200", r)
  /\ UNCHANGED <<world, limit>>

\* Only when everything it saw would be a hit, and there is more by now.
Fail(t) ==
  /\ state[t] = "looked"
  /\ seen[t] \subseteq list /\ seen[t] # list
  /\ Cardinality(seen[t]) <= limit[t]
  /\ \A c \in seen[t] : score[t][c] # NoScore
  /\ Reply(t, "500", << >>)
  /\ UNCHANGED <<world, limit>>

Next ==
  \/ \E S \in SUBSET Captures : Store(S)
  \/ \E c \in Captures : Record(c)
  \/ Crash
  \/ Restart
  \/ \E t \in Recalls, n \in 1..MaxLimit : Ask(t, n)
  \/ \E t \in Recalls : Refuse(t) \/ Look(t) \/ Answer(t) \/ Fail(t)

Spec == Init /\ [][Next]_vars
=============================================================================
