---------------------------- MODULE ServiceProofs ----------------------------
(***************************************************************************)
(* The schema of module Service is whole whenever it is relied on, and the *)
(* pool of threads keeps what its queue promises, for any number of        *)
(* processes, requests and threads.                                        *)
(***************************************************************************)
EXTENDS Service, FiniteSetTheorems, TLAPS

\* What a process has run of the script is in the database, whichever process
\* put it there and whatever crashed since; and the version row is the last to come.
SchemaInv ==
  /\ schema \subseteq Objects
  /\ pc \in [Daemons -> Phases]
  /\ statement \in [Daemons -> 1..18]
  /\ \A d \in Daemons : pc[d] \in {"off", "auth"} => statement[d] = 1
  /\ \A d \in Daemons : pc[d] = "schema" =>
       \A i \in 1..17 : i < statement[d] => Script[i] \in schema
  /\ \A d \in Daemons : pc[d] \in Ready => schema = Objects
  /\ "version row" \in schema => schema = Objects

\* Names for what the provers need of the script, so that they need not expand it.
LEMMA ScriptFacts ==
  /\ Len(Script) = 17
  /\ Script[17] = "version row"
  /\ \A i \in 1..16 : Script[i] # "version row"
  /\ Objects = {Script[i] : i \in 1..17}
  /\ \A i \in 1..17 : Script[i] \in Objects
<1>1. Len(Script) = 17
  BY DEF Script
<1>2. DOMAIN Script = 1..17
  BY DEF Script
<1>3. Script[17] = "version row"
  BY DEF Script
<1>4. \A i \in 1..16 : Script[i] # "version row"
  <2>1. /\ Script[1] # "version row" /\ Script[2] # "version row"
        /\ Script[3] # "version row" /\ Script[4] # "version row"
        /\ Script[5] # "version row" /\ Script[6] # "version row"
        /\ Script[7] # "version row" /\ Script[8] # "version row"
        /\ Script[9] # "version row" /\ Script[10] # "version row"
        /\ Script[11] # "version row" /\ Script[12] # "version row"
        /\ Script[13] # "version row" /\ Script[14] # "version row"
        /\ Script[15] # "version row" /\ Script[16] # "version row"
    BY DEF Script
  <2>2. \A i \in 1..16 : \/ i = 1 \/ i = 2 \/ i = 3 \/ i = 4
                        \/ i = 5 \/ i = 6 \/ i = 7 \/ i = 8
                        \/ i = 9 \/ i = 10 \/ i = 11 \/ i = 12
                        \/ i = 13 \/ i = 14 \/ i = 15 \/ i = 16
    OBVIOUS
  <2> QED
    BY <2>1, <2>2
<1>5. Objects = {Script[i] : i \in 1..17}
  BY <1>2 DEF Objects, Elements
<1> QED
  BY <1>1, <1>3, <1>4, <1>5

LEMMA SchemaInit == Init => SchemaInv
<1> SUFFICES ASSUME Init PROVE SchemaInv
  OBVIOUS
<1>1. statement = [d \in Daemons |-> 1]
  BY DEF Init
<1>2. statement \in [Daemons -> 1..18]
  BY <1>1
<1> QED
  BY <1>1, <1>2 DEF Init, SchemaInv, Phases, Ready

\* One statement of the script: the last one is the version row.
LEMMA RunStatement ==
  ASSUME SchemaInv, NEW d \in Daemons, InitSchema(d), statement[d] <= Len(Script)
  PROVE  SchemaInv'
<1> DEFINE k == statement[d]
<1>1. /\ k \in 1..17 
      /\ schema' = schema \cup {Script[k]}
      /\ statement' = [statement EXCEPT ![d] = k + 1]
      /\ pc' = pc /\ pc[d] = "schema"
  <2>1. statement \in [Daemons -> 1..18]
    BY DEF SchemaInv
  <2>2. k \in 1..18 /\ k <= 17
    BY <2>1, ScriptFacts
  <2>3. k \in 1..17
    BY <2>2
  <2> QED
    BY <2>3 DEF InitSchema
<1>2. schema' \subseteq Objects
  BY <1>1, ScriptFacts DEF SchemaInv
<1>3. statement' \in [Daemons -> 1..18]
  <2>1. statement \in [Daemons -> 1..18]
    BY DEF SchemaInv
  <2>2. k + 1 \in 1..18
    BY <1>1
  <2> QED
    BY <1>1, <2>1, <2>2
<1>4. \A i \in 1..17 : i < k => Script[i] \in schema
  BY <1>1, ScriptFacts DEF SchemaInv
<1>5. ASSUME k = 17 PROVE schema' = Objects
  <2>1. \A i \in 1..17 : i < 17 \/ i = 17
    OBVIOUS
  <2>2. \A i \in 1..17 : Script[i] \in schema'
    BY <1>1, <1>4, <1>5, <2>1
  <2> QED
    BY <1>2, <2>2, ScriptFacts
<1>6. \A e \in Daemons : pc'[e] = "schema" =>
        \A i \in 1..17 : i < statement'[e] => Script[i] \in schema'
  <2> TAKE e \in Daemons
  <2>1. CASE e = d
    <3>1. statement'[d] = k + 1
      BY <1>1, <1>3 DEF SchemaInv
    <3>2. \A i \in 1..17 : i < k + 1 => i < k \/ i = k
      BY <1>1
    <3> QED
      BY <1>1, <1>4, <2>1, <3>1, <3>2, ScriptFacts
  <2>2. CASE e # d
    BY <1>1, <2>2 DEF SchemaInv
  <2> QED
    BY <2>1, <2>2
<1>7. "version row" \in schema' => schema' = Objects
  <2>1. CASE k = 17
    BY <1>5, <2>1
  <2>2. CASE k # 17
    <3>1. k \in 1..16
      BY <1>1, <2>2
    <3>2. Script[k] # "version row"
      BY <3>1, ScriptFacts
    <3> QED
      BY <1>1, <1>2, <3>2 DEF SchemaInv
  <2> QED
    BY <2>1, <2>2
<1>8. \A e \in Daemons : pc'[e] \in Ready => schema' = Objects
  BY <1>1, <1>2 DEF SchemaInv
<1>9. \A e \in Daemons : pc'[e] \in {"off", "auth"} => statement'[e] = 1
  BY <1>1 DEF SchemaInv
<1> QED
  BY <1>1, <1>2, <1>3, <1>6, <1>7, <1>8, <1>9 DEF SchemaInv

\* Steps that leave the database alone and move one process.
LEMMA MoveOn ==
  ASSUME SchemaInv, NEW d \in Daemons, NEW phase \in Phases,
         schema' = schema, GoTo(d, phase), statement' = statement,
         phase \in {"off", "auth"} => statement[d] = 1,
         phase = "schema" => statement[d] = 1,
         phase \in Ready => schema = Objects
  PROVE  SchemaInv'
<1>1. /\ pc' \in [Daemons -> Phases] /\ pc'[d] = phase
      /\ \A e \in Daemons : e # d => pc'[e] = pc[e]
  BY DEF GoTo, SchemaInv
<1>2. \A e \in Daemons : pc'[e] = "schema" =>
        \A i \in 1..17 : i < statement'[e] => Script[i] \in schema'
  <2> SUFFICES ASSUME NEW e \in Daemons, pc'[e] = "schema",
                      NEW i \in 1..17, i < statement[e]
               PROVE  Script[i] \in schema
    OBVIOUS
  <2>1. CASE e = d
    <3>1. statement[d] = 1
      BY <1>1, <2>1
    <3> QED
      BY <2>1, <3>1
  <2>2. CASE e # d
    BY <1>1, <2>2 DEF SchemaInv
  <2> QED
    BY <2>1, <2>2
<1> QED
  BY <1>1, <1>2 DEF SchemaInv

LEMMA LeaveKeeps ==
  ASSUME SchemaInv, NEW d \in Daemons, schema' = schema, Leave(d)
  PROVE  SchemaInv'
<1>1. /\ pc' \in [Daemons -> Phases] /\ pc'[d] = "off"
      /\ \A e \in Daemons : e # d => pc'[e] = pc[e]
  BY DEF Leave, GoTo, SchemaInv, Phases, Ready
<1>2. /\ statement' \in [Daemons -> 1..18] /\ statement'[d] = 1
      /\ \A e \in Daemons : e # d => statement'[e] = statement[e]
  <2>1. statement \in [Daemons -> 1..18]
    BY DEF SchemaInv
  <2>2. statement' = [statement EXCEPT ![d] = 1]
    BY DEF Leave
  <2> QED
    BY <2>1, <2>2
<1> QED
  BY <1>1, <1>2 DEF SchemaInv, Ready

LEMMA SchemaStep == SchemaInv /\ [Next]_vars => SchemaInv'
<1> SUFFICES ASSUME SchemaInv, [Next]_vars PROVE SchemaInv'
  OBVIOUS
<1>1. CASE UNCHANGED serverVars
  BY <1>1 DEF serverVars, SchemaInv
<1>2. ASSUME NEW d \in Daemons, Start(d) PROVE SchemaInv'
  <2>1. statement[d] = 1
    BY <1>2 DEF Start, SchemaInv
  <2> QED
    BY <1>2, <2>1, MoveOn DEF Start, Phases, Ready
<1>3. ASSUME NEW d \in Daemons, Connect(d) PROVE SchemaInv'
  <2>1. statement[d] = 1
    BY <1>3 DEF Connect, SchemaInv
  <2> QED
    BY <1>3, <2>1, MoveOn DEF Connect, Phases, Ready
<1>4. ASSUME NEW d \in Daemons, InitSchema(d) PROVE SchemaInv'
  <2>1. CASE statement[d] <= Len(Script)
    BY <1>4, <2>1, RunStatement
  <2>2. CASE ~(statement[d] <= Len(Script))
    <3>1. pc[d] = "schema" /\ Len(Script) = 17 /\ statement[d] \in 1..18
      BY <1>4, ScriptFacts DEF InitSchema, SchemaInv
    <3>2. \A i \in 1..17 : Script[i] \in schema
      <4>1. \A i \in 1..17 : i < statement[d]
        BY <2>2, <3>1
      <4> QED
        BY <3>1, <4>1 DEF SchemaInv
    <3>3. schema = Objects
      BY <3>2, ScriptFacts DEF SchemaInv
    <3>4. GoTo(d, "embedder") /\ schema' = schema /\ statement' = statement
      BY <1>4, <2>2 DEF InitSchema
    <3> QED
      BY <3>3, <3>4, MoveOn DEF Phases, Ready
  <2> QED
    BY <2>1, <2>2
<1>5. ASSUME NEW d \in Daemons, LoadRecords(d) PROVE SchemaInv'
  <2>1. schema = Objects
    BY <1>5 DEF LoadRecords, SchemaInv, Ready
  <2> QED
    BY <1>5, <2>1, MoveOn DEF LoadRecords, Phases, Ready
<1>6. ASSUME NEW d \in Daemons, Bind(d) PROVE SchemaInv'
  <2>1. schema = Objects
    BY <1>6 DEF Bind, SchemaInv, Ready
  <2>2. CASE Serving = {}
    BY <1>6, <2>1, <2>2, MoveOn DEF Bind, Phases, Ready
  <2>3. CASE Serving # {}
    BY <1>6, <2>3, LeaveKeeps DEF Bind
  <2> QED
    BY <2>2, <2>3
<1>7. ASSUME NEW d \in Daemons, Stop(d) PROVE SchemaInv'
  <2>1. schema = Objects
    BY <1>7 DEF Stop, SchemaInv, Ready
  <2> QED
    BY <1>7, <2>1, MoveOn DEF Stop, Phases, Ready
<1>8. ASSUME NEW d \in Daemons, Close(d) PROVE SchemaInv'
  BY <1>8, LeaveKeeps DEF Close
<1>9. ASSUME NEW d \in Daemons, Crash(d) PROVE SchemaInv'
  BY <1>9, LeaveKeeps DEF Crash
<1>10. ASSUME NEW d \in Daemons, NEW r \in Requests, NEW k \in Kinds, Arrive(d, r, k)
       PROVE  SchemaInv'
  BY <1>1, <1>10 DEF Arrive
<1>11. ASSUME NEW r \in Requests, Serve(r) PROVE SchemaInv'
  BY <1>1, <1>11 DEF Serve, Assign, Answered, TimeOut, Verify, Handle, Serialize
<1> QED
  BY <1>1, <1>2, <1>3, <1>4, <1>5, <1>6, <1>7, <1>8, <1>9, <1>10, <1>11 DEF Next, vars

\* A database that shows the version row, or that a process is done initializing,
\* has the whole schema, however many processes ran the script and wherever they
\* died (init_schema, lifespan).
THEOREM SchemaServed == Spec => []SchemaIsWhole
<1>1. SchemaInv => SchemaIsWhole
  BY DEF SchemaInv, SchemaIsWhole
<1> QED
  BY <1>1, SchemaInit, SchemaStep, PTL DEF Spec

-----------------------------------------------------------------------------
(***************************************************************************)
(* The pools of threads.                                                   *)
(***************************************************************************)

OneToOne(q) == \A i, j \in 1..Len(q) : q[i] = q[j] => i = j
Waiting(d) == {r \in RequestsOf(d) : stage[r] = "queued"}

\* A request waits once, in the queue of the process that took it, and only while it
\* has no thread; only the handler of a request that has one calls an upstream.
PoolInv ==
  /\ server \in [Requests -> Daemons \cup {"none"}]
  /\ kind \in [Requests -> Kinds \cup {"none"}]
  /\ stage \in [Requests -> {"idle", "queued", "running"}]
  /\ task \in [Requests -> Tasks]
  /\ calls \in [Requests -> 0..MaxCalls]
  /\ upstream \in [Requests -> Outcomes]
  /\ queue \in [Daemons -> Seq(Requests)]
  /\ \A r \in Pending : server[r] \in Daemons
  /\ \A r \in Requests : upstream[r] # "none" =>
       stage[r] = "running" /\ task[r] = "handle" /\ calls[r] > 0
  /\ \A d \in Daemons :
       /\ OneToOne(queue[d]) /\ Elements(queue[d]) = Waiting(d)
       /\ IsFiniteSet(RunningOf(d)) /\ Cardinality(RunningOf(d)) <= Workers

\* One process takes requests, and those in flight belong to processes that answer.
PortInv ==
  /\ \A d, e \in Serving : d = e
  /\ \A r \in Pending : pc[server[r]] \in {"serving", "stopping"}

IndInv == SchemaInv /\ PoolInv /\ PortInv

\* A request that is not in the queue joins it.
LEMMA Joins ==
  ASSUME NEW S, NEW q \in Seq(S), NEW r \in S, OneToOne(q), r \notin Elements(q)
  PROVE  /\ Append(q, r) \in Seq(S) /\ OneToOne(Append(q, r))
         /\ Elements(Append(q, r)) = Elements(q) \cup {r}
<1> DEFINE n == Len(q)
           p == Append(q, r)
<1>1. n \in Nat /\ DOMAIN q = 1..n
  OBVIOUS
<1>2. /\ p \in Seq(S) /\ Len(p) = n + 1 /\ DOMAIN p = 1..n + 1
      /\ \A i \in 1..n : p[i] = q[i]
      /\ p[n + 1] = r
  OBVIOUS
<1>3. \A i \in 1..n + 1 : i \in 1..n \/ i = n + 1
  BY <1>1
<1>4. \A i \in 1..n : i \in 1..n + 1 /\ q[i] # r
  BY <1>1 DEF Elements
<1> HIDE DEF n, p
<1>5. OneToOne(p)
  BY <1>2, <1>3, <1>4 DEF OneToOne, n
<1>6. Elements(p) = Elements(q) \cup {r}
  <2>1. n + 1 \in 1..n + 1
    BY <1>1
  <2> QED
    BY <1>1, <1>2, <1>3, <1>4, <2>1 DEF Elements
<1> QED
  BY <1>2, <1>5, <1>6 DEF p

\* The first one leaves it.
LEMMA Leaves ==
  ASSUME NEW S, NEW q \in Seq(S), OneToOne(q), q # << >>
  PROVE  /\ Head(q) \in Elements(q)
         /\ Tail(q) \in Seq(S) /\ OneToOne(Tail(q))
         /\ Elements(Tail(q)) = Elements(q) \ {Head(q)}
<1> DEFINE n == Len(q)
           p == Tail(q)
<1>1. n \in Nat \ {0} /\ DOMAIN q = 1..n /\ Head(q) = q[1]
  OBVIOUS
<1>2. /\ p \in Seq(S) /\ Len(p) = n - 1 /\ DOMAIN p = 1..n - 1
      /\ \A i \in 1..n - 1 : p[i] = q[i + 1]
  OBVIOUS
<1>3. \A i \in 1..n : i = 1 \/ (i - 1 \in 1..n - 1 /\ (i - 1) + 1 = i)
  BY <1>1
<1>4. 1 \in 1..n /\ \A i \in 1..n - 1 : i \in Nat /\ i + 1 \in 1..n /\ i + 1 # 1
  BY <1>1
<1> HIDE DEF n, p
<1>5. OneToOne(p)
  <2> SUFFICES ASSUME NEW i \in 1..n - 1, NEW j \in 1..n - 1, p[i] = p[j] PROVE i = j
    BY <1>2 DEF OneToOne
  <2>1. i + 1 = j + 1
    BY <1>2, <1>4 DEF OneToOne, n
  <2> QED
    BY <1>4, <2>1
<1>6. ASSUME NEW x PROVE x \in Elements(p) <=> x \in Elements(q) /\ x # Head(q)
  <2>1. ASSUME NEW i \in 1..n - 1 PROVE p[i] \in Elements(q) /\ p[i] # Head(q)
    BY <1>1, <1>2, <1>4 DEF Elements, OneToOne, n
  <2>2. ASSUME NEW i \in 1..n, q[i] # Head(q) PROVE q[i] \in Elements(p)
    <3>1. i - 1 \in 1..n - 1 /\ p[i - 1] = q[i]
      BY <1>1, <1>2, <1>3, <2>2
    <3> QED
      BY <1>2, <3>1 DEF Elements
  <2> QED
    BY <1>1, <1>2, <2>1, <2>2 DEF Elements
<1>7. Head(q) \in Elements(q)
  BY <1>1, <1>4 DEF Elements
<1> QED
  BY <1>2, <1>5, <1>6, <1>7 DEF p

\* It is as long as the requests in it are many.
LEMMA NoneTwice ==
  ASSUME NEW S, NEW q \in Seq(S), OneToOne(q)
  PROVE  Len(q) = Cardinality(Elements(q))
<1> DEFINE n == Len(q)
<1>1. n \in Nat /\ DOMAIN q = 1..n
  OBVIOUS
<1>2. q \in Bijection(1..n, Elements(q))
  BY <1>1 DEF Bijection, Injection, Surjection, IsInjective, OneToOne, Elements
<1>3. IsFiniteSet(1..n)
  BY <1>1, FS_Interval
<1>4. Cardinality(1..n) = n
  BY <1>1, FS_Interval
<1>5. Cardinality(Elements(q)) = Cardinality(1..n)
  BY <1>2, <1>3, FS_Bijection DEF ExistsBijection
<1> QED
  BY <1>4, <1>5

LEMMA PoolInit == Init => PoolInv
<1> SUFFICES ASSUME Init PROVE PoolInv
  OBVIOUS
<1>1. Pending = {} /\ Running = {}
  BY DEF Init, Pending, Running
<1>2. ASSUME NEW d \in Daemons
      PROVE  /\ OneToOne(queue[d]) /\ Elements(queue[d]) = Waiting(d)
             /\ IsFiniteSet(RunningOf(d)) /\ Cardinality(RunningOf(d)) <= Workers
  <2>1. queue[d] = << >> /\ Waiting(d) = {} /\ RunningOf(d) = {}
    BY <1>1 DEF Init, Waiting, RequestsOf, RunningOf
  <2>2. OneToOne(<< >>) /\ Elements(<< >>) = {}
    BY DEF OneToOne, Elements
  <2> QED
    BY <2>1, <2>2, FS_EmptySet, WorkersAssumption
<1>3. calls \in [Requests -> 0..MaxCalls] /\ queue \in [Daemons -> Seq(Requests)]
  BY CallsAssumption DEF Init
<1> QED
  BY <1>1, <1>2, <1>3 DEF Init, PoolInv, Tasks, Outcomes

LEMMA FewerRun ==
  ASSUME PoolInv, NEW d \in Daemons, RunningOf(d)' \subseteq RunningOf(d)
  PROVE  IsFiniteSet(RunningOf(d)') /\ Cardinality(RunningOf(d)') <= Workers
<1>1. /\ IsFiniteSet(RunningOf(d)) /\ Cardinality(RunningOf(d)) <= Workers /\ Workers \in Nat
  BY WorkersAssumption DEF PoolInv
<1>2. /\ IsFiniteSet(RunningOf(d)')
      /\ Cardinality(RunningOf(d)') <= Cardinality(RunningOf(d))
  BY <1>1, FS_Subset
<1>3. Cardinality(RunningOf(d)') \in Nat /\ Cardinality(RunningOf(d)) \in Nat
  BY <1>1, <1>2, FS_CardinalityType
<1> QED
  BY <1>1, <1>2, <1>3

\* A request that arrives at d, moves within it or leaves it disturbs no other process.
LEMMA Moves ==
  ASSUME PoolInv, NEW r \in Requests, NEW d \in Daemons,
         NEW s \in {"idle", "queued", "running"},
         stage' = [stage EXCEPT ![r] = s],
         stage[r] = "idle" \/ server[r] = d,
         s = "idle" \/ server'[r] = d,
         \A q \in Requests \ {r} : server'[q] = server[q]
  PROVE  /\ \A e \in Daemons \ {d} :
              Waiting(e)' = Waiting(e) /\ RunningOf(e)' = RunningOf(e)
         /\ Waiting(d)' = IF s = "queued" THEN Waiting(d) \cup {r} ELSE Waiting(d) \ {r}
         /\ RunningOf(d)' = IF s = "running" THEN RunningOf(d) \cup {r} ELSE RunningOf(d) \ {r}
         /\ Pending' = IF s = "idle" THEN Pending \ {r} ELSE Pending \cup {r}
<1>1. /\ stage \in [Requests -> {"idle", "queued", "running"}]
      /\ stage'[r] = s /\ \A q \in Requests \ {r} : stage'[q] = stage[q]
  BY DEF PoolInv
<1>2. ASSUME NEW e \in Daemons
      PROVE  /\ \A q \in Requests \ {r} : q \in Waiting(e)' <=> q \in Waiting(e)
             /\ \A q \in Requests \ {r} : q \in RunningOf(e)' <=> q \in RunningOf(e)
  BY <1>1 DEF Waiting, RequestsOf, RunningOf, Running, Pending
<1>3. ASSUME NEW e \in Daemons
      PROVE  /\ r \in Waiting(e)' <=> s = "queued" /\ e = d
             /\ r \in RunningOf(e)' <=> s = "running" /\ e = d
             /\ e # d => r \notin Waiting(e) /\ r \notin RunningOf(e)
  BY <1>1 DEF Waiting, RequestsOf, RunningOf, Running, Pending
<1>4. \A e \in Daemons : /\ Waiting(e) \subseteq Requests /\ Waiting(e)' \subseteq Requests
                         /\ RunningOf(e) \subseteq Requests /\ RunningOf(e)' \subseteq Requests
  BY DEF Waiting, RequestsOf, RunningOf, Running, Pending
<1>5. Pending' = IF s = "idle" THEN Pending \ {r} ELSE Pending \cup {r}
  BY <1>1 DEF Pending
<1> HIDE DEF Waiting, RunningOf
<1>6. ASSUME NEW e \in Daemons \ {d}
      PROVE  Waiting(e)' = Waiting(e) /\ RunningOf(e)' = RunningOf(e)
  <2>1. e \in Daemons /\ e # d
    OBVIOUS
  <2>2. /\ \A q \in Requests : q \in Waiting(e)' <=> q \in Waiting(e)
        /\ \A q \in Requests : q \in RunningOf(e)' <=> q \in RunningOf(e)
    BY <1>2, <1>3, <2>1
  <2> QED
    BY <1>4, <2>1, <2>2
<1>7. Waiting(d)' = IF s = "queued" THEN Waiting(d) \cup {r} ELSE Waiting(d) \ {r}
  BY <1>2, <1>3, <1>4
<1>8. RunningOf(d)' = IF s = "running" THEN RunningOf(d) \cup {r} ELSE RunningOf(d) \ {r}
  BY <1>2, <1>3, <1>4
<1> QED
  BY <1>5, <1>6, <1>7, <1>8

\* What a process's queue and threads have to be like for the others' to stay so.
LEMMA OneProcess ==
  ASSUME PoolInv, NEW d \in Daemons, NEW q \in Seq(Requests),
         queue' = [queue EXCEPT ![d] = q], OneToOne(q), Elements(q) = Waiting(d)',
         IsFiniteSet(RunningOf(d)'), Cardinality(RunningOf(d)') <= Workers,
         \A e \in Daemons \ {d} : Waiting(e)' = Waiting(e) /\ RunningOf(e)' = RunningOf(e)
  PROVE  /\ queue' \in [Daemons -> Seq(Requests)]
         /\ \A e \in Daemons :
              /\ OneToOne(queue'[e]) /\ Elements(queue'[e]) = Waiting(e)'
              /\ IsFiniteSet(RunningOf(e)') /\ Cardinality(RunningOf(e)') <= Workers
<1>1. /\ queue' \in [Daemons -> Seq(Requests)] /\ queue'[d] = q
      /\ \A e \in Daemons \ {d} : queue'[e] = queue[e]
  BY DEF PoolInv
<1>2. ASSUME NEW e \in Daemons
      PROVE  /\ OneToOne(queue'[e]) /\ Elements(queue'[e]) = Waiting(e)'
             /\ IsFiniteSet(RunningOf(e)') /\ Cardinality(RunningOf(e)') <= Workers
  <2>1. CASE e = d
    BY <1>1, <2>1
  <2>2. CASE e # d
    <3>1. /\ queue'[e] = queue[e] /\ Waiting(e)' = Waiting(e) /\ RunningOf(e)' = RunningOf(e)
      BY <1>1, <2>2
    <3>2. /\ OneToOne(queue[e]) /\ Elements(queue[e]) = Waiting(e)
          /\ IsFiniteSet(RunningOf(e)) /\ Cardinality(RunningOf(e)) <= Workers
      BY DEF PoolInv
    <3> QED
      BY <3>1, <3>2
  <2> QED
    BY <2>1, <2>2
<1> QED
  BY <1>1, <1>2

\* The next call of a handler.
LEMMA CallingFacts ==
  ASSUME PoolInv, NEW r \in Requests, NEW left \in 0..MaxCalls, Calling(r, left)
  PROVE  /\ calls' \in [Requests -> 0..MaxCalls]
         /\ upstream' \in [Requests -> Outcomes]
         /\ upstream'[r] # "none" => calls'[r] > 0
         /\ left = 0 => upstream'[r] = "none"
         /\ \A other \in Requests \ {r} :
              calls'[other] = calls[other] /\ upstream'[other] = upstream[other]
<1>1. calls' = [calls EXCEPT ![r] = left]
  BY DEF Calling
<1>2. PICK how \in Outcomes :
        (how = "none" <=> left = 0) /\ upstream' = [upstream EXCEPT ![r] = how]
  BY DEF Calling
<1>3. calls \in [Requests -> 0..MaxCalls] /\ upstream \in [Requests -> Outcomes]
  BY DEF PoolInv
<1>4. left # 0 => left > 0
  BY CallsAssumption
<1> QED
  BY <1>1, <1>2, <1>3, <1>4

LEMMA CallsAreFew ==
  ASSUME PoolInv, NEW r \in Requests
  PROVE  CallsOf(r) \subseteq 0..MaxCalls /\ (task[r] # "handle" => CallsOf(r) = {0})
<1>1. 0 \in 0..MaxCalls /\ Probes \in 0..MaxCalls
  BY CallsAssumption
<1> QED
  BY <1>1 DEF CallsOf

LEMMA ArriveKeeps ==
  ASSUME PoolInv, NEW d \in Daemons, NEW r \in Requests, NEW k \in Kinds, Arrive(d, r, k)
  PROVE  PoolInv'
<1>1. stage[r] = "idle" /\ upstream[r] = "none" /\ r \notin Waiting(d) /\ r \notin RunningOf(d)
  BY DEF Arrive, Pending, Running, RequestsOf, RunningOf, Waiting, PoolInv
<1>2. /\ server' = [server EXCEPT ![r] = d] /\ stage' = [stage EXCEPT ![r] = "queued"]
      /\ queue' = [queue EXCEPT ![d] = Append(queue[d], r)]
      /\ kind' = [kind EXCEPT ![r] = k]
      /\ task' = [task EXCEPT ![r] = IF k = "health" THEN "handle" ELSE "verify"]
      /\ calls' = calls /\ upstream' = upstream
  BY DEF Arrive
<1>3. /\ server' \in [Requests -> Daemons \cup {"none"}] /\ server'[r] = d
      /\ \A q \in Requests \ {r} : server'[q] = server[q]
  BY <1>2 DEF PoolInv
<1>4. /\ \A e \in Daemons \ {d} : Waiting(e)' = Waiting(e) /\ RunningOf(e)' = RunningOf(e)
      /\ Waiting(d)' = Waiting(d) \cup {r} /\ RunningOf(d)' = RunningOf(d) \ {r}
      /\ Pending' = Pending \cup {r}
  BY <1>1, <1>2, <1>3, Moves
<1>5. queue[d] \in Seq(Requests) /\ OneToOne(queue[d]) /\ Elements(queue[d]) = Waiting(d)
  BY DEF PoolInv
<1>6. /\ Append(queue[d], r) \in Seq(Requests) /\ OneToOne(Append(queue[d], r))
      /\ Elements(Append(queue[d], r)) = Waiting(d)'
  BY <1>1, <1>4, <1>5, Joins
<1>7. IsFiniteSet(RunningOf(d)') /\ Cardinality(RunningOf(d)') <= Workers
  BY <1>4, FewerRun
<1>8. /\ queue' \in [Daemons -> Seq(Requests)]
      /\ \A e \in Daemons :
           /\ OneToOne(queue'[e]) /\ Elements(queue'[e]) = Waiting(e)'
           /\ IsFiniteSet(RunningOf(e)') /\ Cardinality(RunningOf(e)') <= Workers
  BY <1>2, <1>4, <1>6, <1>7, OneProcess
<1>9. /\ kind' \in [Requests -> Kinds \cup {"none"}]
      /\ stage' \in [Requests -> {"idle", "queued", "running"}]
      /\ task' \in [Requests -> Tasks] /\ calls' \in [Requests -> 0..MaxCalls]
      /\ upstream' \in [Requests -> Outcomes]
  BY <1>2 DEF PoolInv, Tasks
<1>10. \A q \in Requests : upstream'[q] # "none" =>
         stage'[q] = "running" /\ task'[q] = "handle" /\ calls'[q] > 0
  BY <1>1, <1>2 DEF PoolInv
<1>11. \A q \in Pending' : server'[q] \in Daemons
  BY <1>3, <1>4 DEF PoolInv, Pending
<1> QED
  BY <1>3, <1>8, <1>9, <1>10, <1>11 DEF PoolInv, OneToOne, Elements

\* A request at the head of its process's queue gets one of its threads.
LEMMA AssignKeeps ==
  ASSUME PoolInv, NEW r \in Requests, Assign(r)
  PROVE  PoolInv'
<1>0. PICK d \in Daemons : server[r] = d
  BY DEF Assign, PoolInv
<1>1. /\ stage[r] # "idle"
      /\ queue[d] # << >> /\ r = Head(queue[d])
      /\ queue' = [queue EXCEPT ![d] = Tail(queue[d])]
      /\ stage' = [stage EXCEPT ![r] = "running"] /\ Cardinality(RunningOf(d)) < Workers
      /\ server' = server /\ kind' = kind /\ task' = task
  BY <1>0 DEF Assign, Pending
<1>2. PICK left \in CallsOf(r) : Calling(r, left)
  BY DEF Assign
<1>3. left \in 0..MaxCalls /\ (task[r] # "handle" => left = 0)
  BY CallsAreFew
<1>4. /\ calls' \in [Requests -> 0..MaxCalls] /\ upstream' \in [Requests -> Outcomes]
      /\ upstream'[r] # "none" => calls'[r] > 0
      /\ left = 0 => upstream'[r] = "none"
      /\ \A other \in Requests \ {r} :
           calls'[other] = calls[other] /\ upstream'[other] = upstream[other]
  BY <1>2, <1>3, CallingFacts
<1>5. server'[r] = d /\ \A q \in Requests \ {r} : server'[q] = server[q]
  BY <1>0, <1>1
<1>6. /\ \A e \in Daemons \ {d} : Waiting(e)' = Waiting(e) /\ RunningOf(e)' = RunningOf(e)
      /\ Waiting(d)' = Waiting(d) \ {r} /\ RunningOf(d)' = RunningOf(d) \cup {r}
      /\ Pending' = Pending \cup {r}
  BY <1>0, <1>1, <1>5, Moves
<1>7. queue[d] \in Seq(Requests) /\ OneToOne(queue[d]) /\ Elements(queue[d]) = Waiting(d)
  BY <1>1 DEF PoolInv
<1>8. /\ Tail(queue[d]) \in Seq(Requests) /\ OneToOne(Tail(queue[d]))
      /\ Elements(Tail(queue[d])) = Waiting(d)'
  BY <1>1, <1>6, <1>7, Leaves
<1>9. IsFiniteSet(RunningOf(d)') /\ Cardinality(RunningOf(d)') <= Workers
  <2>1. IsFiniteSet(RunningOf(d))
    BY <1>1 DEF PoolInv
  <2>2. Cardinality(RunningOf(d)) \in Nat
    BY <2>1, FS_CardinalityType
  <2>3. IsFiniteSet(RunningOf(d) \cup {r})
    BY <2>1, FS_AddElement
  <2>4. Cardinality(RunningOf(d) \cup {r})
          \in {Cardinality(RunningOf(d)), Cardinality(RunningOf(d)) + 1}
    BY <2>1, FS_AddElement
  <2>5. Cardinality(RunningOf(d) \cup {r}) <= Workers
    BY <1>1, <2>2, <2>4, WorkersAssumption
  <2> QED
    BY <1>6, <2>3, <2>5
<1>10. /\ queue' \in [Daemons -> Seq(Requests)]
       /\ \A e \in Daemons :
            /\ OneToOne(queue'[e]) /\ Elements(queue'[e]) = Waiting(e)'
            /\ IsFiniteSet(RunningOf(e)') /\ Cardinality(RunningOf(e)') <= Workers
  BY <1>1, <1>6, <1>8, <1>9, OneProcess
<1>11. \A q \in Requests : upstream'[q] # "none" =>
         stage'[q] = "running" /\ task'[q] = "handle" /\ calls'[q] > 0
  BY <1>1, <1>3, <1>4 DEF PoolInv
<1>12. stage' \in [Requests -> {"idle", "queued", "running"}]
  BY <1>1 DEF PoolInv
<1>13. \A q \in Pending' : server'[q] \in Daemons
  BY <1>1, <1>5, <1>6 DEF PoolInv
<1> QED
  BY <1>1, <1>4, <1>10, <1>11, <1>12, <1>13 DEF PoolInv, OneToOne, Elements

\* The sets of requests, when none moves.
LEMMA NoneMoves ==
  ASSUME server' = server, stage' = stage
  PROVE  /\ Pending' = Pending /\ Running' = Running
         /\ \A d \in Daemons : /\ Waiting(d)' = Waiting(d) /\ RunningOf(d)' = RunningOf(d)
                               /\ RequestsOf(d)' = RequestsOf(d)
  BY DEF Pending, Running, Waiting, RunningOf, RequestsOf

\* An upstream call ends, one way or the other.
LEMMA CallEnds ==
  ASSUME PoolInv, NEW r \in Requests, Answered(r) \/ TimeOut(r)
  PROVE  PoolInv'
<1>1. /\ r \in Running /\ upstream[r] # "none" /\ Calling(r, calls[r] - 1)
      /\ UNCHANGED <<server, kind, stage, task, queue>>
  BY DEF Answered, TimeOut
<1>2. calls[r] - 1 \in 0..MaxCalls /\ stage[r] = "running" /\ task[r] = "handle"
  <2>1. calls[r] \in 0..MaxCalls /\ calls[r] > 0
    BY <1>1 DEF PoolInv
  <2> QED
    BY <1>1, <2>1, CallsAssumption DEF PoolInv
<1>3. /\ calls' \in [Requests -> 0..MaxCalls] /\ upstream' \in [Requests -> Outcomes]
      /\ upstream'[r] # "none" => calls'[r] > 0
      /\ \A other \in Requests \ {r} :
           calls'[other] = calls[other] /\ upstream'[other] = upstream[other]
  BY <1>1, <1>2, CallingFacts
<1>4. /\ Pending' = Pending
      /\ \A d \in Daemons : Waiting(d)' = Waiting(d) /\ RunningOf(d)' = RunningOf(d)
  BY <1>1, NoneMoves
<1>5. \A q \in Requests : upstream'[q] # "none" =>
        stage'[q] = "running" /\ task'[q] = "handle" /\ calls'[q] > 0
  BY <1>1, <1>2, <1>3 DEF PoolInv
<1>6. \A d \in Daemons :
        /\ OneToOne(queue'[d]) /\ Elements(queue'[d]) = Waiting(d)'
        /\ IsFiniteSet(RunningOf(d)') /\ Cardinality(RunningOf(d)') <= Workers
  BY <1>1, <1>4 DEF PoolInv
<1>7. \A q \in Pending' : server'[q] \in Daemons
  BY <1>1, <1>4 DEF PoolInv
<1> QED
  BY <1>1, <1>3, <1>5, <1>6, <1>7 DEF PoolInv, OneToOne, Elements

\* A request is answered, or queues again at its process.
LEMMA EndOrRequeue ==
  ASSUME PoolInv, NEW r \in Running, upstream[r] = "none",
         End(r) \/ Requeue(r, "handle") \/ Requeue(r, "serialize"),
         calls' = calls, upstream' = upstream
  PROVE  PoolInv'
<1>1. r \in Requests /\ stage[r] = "running" /\ server[r] \in Daemons
  BY DEF Running, PoolInv, Pending
<1>2. PICK d \in Daemons : server[r] = d /\ r \notin Waiting(d)
  BY <1>1 DEF Waiting
<1>3. PICK s \in {"idle", "queued"} :
        /\ stage' = [stage EXCEPT ![r] = s]
        /\ queue' = [queue EXCEPT ![d] = IF s = "idle" THEN queue[d] ELSE Append(queue[d], r)]
        /\ s = "idle" \/ server' = server
        /\ server' = server \/ server' = [server EXCEPT ![r] = "none"]
        /\ kind' = kind \/ kind' = [kind EXCEPT ![r] = "none"]
        /\ \E t \in Tasks : task' = [task EXCEPT ![r] = t]
  <2>1. CASE End(r)
    <3>1. queue' = [queue EXCEPT ![d] = queue[d]]
      BY <1>2, <2>1 DEF End, PoolInv
    <3> QED
      BY <2>1, <3>1 DEF End, Tasks
  <2>2. CASE Requeue(r, "handle") \/ Requeue(r, "serialize")
    BY <1>2, <2>2 DEF Requeue, Tasks
  <2> QED
    BY <2>1, <2>2
<1>4. /\ server' \in [Requests -> Daemons \cup {"none"}]
      /\ \A q \in Requests \ {r} : server'[q] = server[q]
      /\ s = "idle" \/ server'[r] = d
  BY <1>2, <1>3 DEF PoolInv
<1>5. /\ \A e \in Daemons \ {d} : Waiting(e)' = Waiting(e) /\ RunningOf(e)' = RunningOf(e)
      /\ Waiting(d)' = IF s = "queued" THEN Waiting(d) \cup {r} ELSE Waiting(d) \ {r}
      /\ RunningOf(d)' = RunningOf(d) \ {r}
      /\ Pending' = IF s = "idle" THEN Pending \ {r} ELSE Pending \cup {r}
  <2>1. s \in {"idle", "queued", "running"} /\ s # "running"
    BY <1>3
  <2> QED
    BY <1>1, <1>2, <1>3, <1>4, <2>1, Moves
<1>6. queue[d] \in Seq(Requests) /\ OneToOne(queue[d]) /\ Elements(queue[d]) = Waiting(d)
  BY DEF PoolInv
<1>7. ASSUME NEW q, q = IF s = "idle" THEN queue[d] ELSE Append(queue[d], r)
      PROVE  q \in Seq(Requests) /\ OneToOne(q) /\ Elements(q) = Waiting(d)'
  <2>1. CASE s = "idle"
    BY <1>2, <1>5, <1>6, <1>7, <2>1
  <2>2. CASE s = "queued"
    <3>1. /\ Append(queue[d], r) \in Seq(Requests) /\ OneToOne(Append(queue[d], r))
          /\ Elements(Append(queue[d], r)) = Waiting(d) \cup {r}
      BY <1>1, <1>2, <1>6, Joins
    <3> QED
      BY <1>5, <1>7, <2>2, <3>1
  <2> QED
    BY <2>1, <2>2
<1>8. IsFiniteSet(RunningOf(d)') /\ Cardinality(RunningOf(d)') <= Workers
  BY <1>1, <1>5, FewerRun
<1>9. /\ queue' \in [Daemons -> Seq(Requests)]
      /\ \A e \in Daemons :
           /\ OneToOne(queue'[e]) /\ Elements(queue'[e]) = Waiting(e)'
           /\ IsFiniteSet(RunningOf(e)') /\ Cardinality(RunningOf(e)') <= Workers
  BY <1>1, <1>3, <1>5, <1>7, <1>8, OneProcess
<1>10. /\ kind' \in [Requests -> Kinds \cup {"none"}] /\ task' \in [Requests -> Tasks]
       /\ stage' \in [Requests -> {"idle", "queued", "running"}]
  BY <1>3 DEF PoolInv
<1>11. \A q \in Requests : upstream'[q] # "none" =>
         stage'[q] = "running" /\ task'[q] = "handle" /\ calls'[q] > 0
  <2> SUFFICES ASSUME NEW q \in Requests, upstream'[q] # "none"
               PROVE  stage'[q] = "running" /\ task'[q] = "handle" /\ calls'[q] > 0
    OBVIOUS
  <2>1. q # r /\ stage[q] = "running" /\ task[q] = "handle" /\ calls[q] > 0
    BY DEF PoolInv
  <2> QED
    BY <1>3, <2>1 DEF PoolInv
<1>12. \A q \in Pending' : server'[q] \in Daemons
  BY <1>1, <1>2, <1>4, <1>5 DEF PoolInv, Pending
<1> QED
  BY <1>4, <1>9, <1>10, <1>11, <1>12 DEF PoolInv, OneToOne, Elements

\* The requests of the process that dies are gone, and no other's.
LEMMA CrashKeeps ==
  ASSUME PoolInv, NEW d \in Daemons, DropRequests(d)
  PROVE  PoolInv'
<1>1. \A q \in Requests :
        IF q \in RequestsOf(d)
        THEN /\ server'[q] = "none" /\ kind'[q] = "none" /\ stage'[q] = "idle"
             /\ task'[q] = "handle" /\ calls'[q] = 0 /\ upstream'[q] = "none"
        ELSE /\ server'[q] = server[q] /\ kind'[q] = kind[q] /\ stage'[q] = stage[q]
             /\ task'[q] = task[q] /\ calls'[q] = calls[q] /\ upstream'[q] = upstream[q]
  BY DEF DropRequests
<1>2. /\ server' \in [Requests -> Daemons \cup {"none"}]
      /\ kind' \in [Requests -> Kinds \cup {"none"}]
      /\ stage' \in [Requests -> {"idle", "queued", "running"}]
      /\ task' \in [Requests -> Tasks]
      /\ upstream' \in [Requests -> Outcomes]
  BY DEF DropRequests, PoolInv, Tasks, Outcomes
<1>3. calls' \in [Requests -> 0..MaxCalls]
  BY CallsAssumption DEF DropRequests, PoolInv
<1>4. /\ \A e \in Daemons \ {d} : Waiting(e)' = Waiting(e) /\ RunningOf(e)' = RunningOf(e)
      /\ Waiting(d)' = {} /\ RunningOf(d)' = {}
  <2>1. ASSUME NEW e \in Daemons \ {d}, NEW q
        PROVE  /\ q \in Waiting(e)' <=> q \in Waiting(e)
               /\ q \in RunningOf(e)' <=> q \in RunningOf(e)
    BY <1>1 DEF Waiting, RequestsOf, RunningOf, Running, Pending
  <2>2. ASSUME NEW q PROVE q \notin Waiting(d)' /\ q \notin RunningOf(d)'
    BY <1>1 DEF Waiting, RequestsOf, RunningOf, Running, Pending
  <2> QED
    BY <2>1, <2>2
<1>5. << >> \in Seq(Requests) /\ OneToOne(<< >>) /\ Elements(<< >>) = {}
  BY DEF OneToOne, Elements
<1>6. queue' = [queue EXCEPT ![d] = << >>]
  BY DEF DropRequests
<1>7. IsFiniteSet(RunningOf(d)') /\ Cardinality(RunningOf(d)') <= Workers
  BY <1>4, FS_EmptySet, WorkersAssumption
<1>8. /\ queue' \in [Daemons -> Seq(Requests)]
      /\ \A e \in Daemons :
           /\ OneToOne(queue'[e]) /\ Elements(queue'[e]) = Waiting(e)'
           /\ IsFiniteSet(RunningOf(e)') /\ Cardinality(RunningOf(e)') <= Workers
  BY <1>4, <1>5, <1>6, <1>7, OneProcess
<1>9. \A q \in Requests : upstream'[q] # "none" =>
        stage'[q] = "running" /\ task'[q] = "handle" /\ calls'[q] > 0
  BY <1>1 DEF PoolInv
<1>10. \A q \in Pending' : server'[q] \in Daemons
  BY <1>1 DEF PoolInv, Pending
<1> QED
  BY <1>2, <1>3, <1>8, <1>9, <1>10 DEF PoolInv, OneToOne, Elements

LEMMA PoolStep == PoolInv /\ [Next]_vars => PoolInv'
<1> SUFFICES ASSUME PoolInv, [Next]_vars PROVE PoolInv'
  OBVIOUS
<1>1. CASE UNCHANGED requestVars
  <2>1. UNCHANGED <<server, kind, stage, task, calls, upstream, queue>>
    BY <1>1 DEF requestVars
  <2>2. /\ Pending' = Pending
        /\ \A d \in Daemons : Waiting(d)' = Waiting(d) /\ RunningOf(d)' = RunningOf(d)
    BY <2>1, NoneMoves
  <2> QED
    BY <2>1, <2>2 DEF PoolInv, OneToOne, Elements
<1>2. ASSUME NEW d \in Daemons,
             \/ Start(d) \/ Connect(d) \/ InitSchema(d) \/ LoadRecords(d)
             \/ Bind(d) \/ Stop(d) \/ Close(d)
      PROVE  UNCHANGED requestVars
  BY <1>2 DEF Start, Connect, InitSchema, LoadRecords, Bind, Stop, Close
<1>3. ASSUME NEW d \in Daemons, Crash(d) PROVE PoolInv'
  BY <1>3, CrashKeeps DEF Crash
<1>4. ASSUME NEW d \in Daemons, NEW r \in Requests, NEW k \in Kinds, Arrive(d, r, k)
      PROVE  PoolInv'
  BY <1>4, ArriveKeeps
<1>5. ASSUME NEW r \in Requests, Serve(r) PROVE PoolInv'
  <2>1. CASE Assign(r)
    BY <2>1, AssignKeeps
  <2>2. CASE Answered(r) \/ TimeOut(r)
    BY <2>2, CallEnds
  <2>3. CASE Verify(r) \/ Serialize(r)
    <3>1. r \in Running /\ task[r] # "handle" /\ calls' = calls /\ upstream' = upstream
          /\ (End(r) \/ Requeue(r, "handle"))
      BY <2>3 DEF Verify, Serialize
    <3>2. upstream[r] = "none"
      BY <3>1 DEF PoolInv
    <3> QED
      BY <3>1, <3>2, EndOrRequeue
  <2>4. CASE Handle(r)
    BY <2>4, EndOrRequeue DEF Handle
  <2> QED
    BY <1>5, <2>1, <2>2, <2>3, <2>4 DEF Serve
<1> QED
  BY <1>1, <1>2, <1>3, <1>4, <1>5 DEF Next, vars

-----------------------------------------------------------------------------
(***************************************************************************)
(* The port.                                                               *)
(***************************************************************************)

LEMMA PortInit == Init => PortInv
<1> SUFFICES ASSUME Init PROVE PortInv
  OBVIOUS
<1>1. Serving = {} /\ Pending = {}
  BY DEF Init, Serving, Pending
<1> QED
  BY <1>1 DEF PortInv

\* A process that moves on without taking the port, and without leaving requests.
LEMMA SamePort ==
  ASSUME SchemaInv, PortInv, NEW d \in Daemons, NEW phase, GoTo(d, phase),
         phase # "serving", UNCHANGED requestVars,
         RequestsOf(d) = {} \/ phase = "stopping"
  PROVE  PortInv'
<1>1. pc \in [Daemons -> Phases] /\ pc' = [pc EXCEPT ![d] = phase]
  BY DEF GoTo, SchemaInv
<1>2. Serving' \subseteq Serving
  BY <1>1 DEF Serving
<1>3. /\ server' = server /\ Pending' = Pending
  BY DEF requestVars, Pending
<1>4. ASSUME NEW r \in Pending PROVE pc'[server[r]] \in {"serving", "stopping"}
  <2>1. CASE server[r] = d
    <3>1. phase = "stopping"
      BY <2>1 DEF RequestsOf
    <3> QED
      BY <1>1, <2>1, <3>1
  <2>2. CASE server[r] # d
    BY <1>1, <2>2 DEF PortInv
  <2> QED
    BY <2>1, <2>2
<1> QED
  BY <1>2, <1>3, <1>4 DEF PortInv

\* A process that does not answer has no requests.
LEMMA Unattached ==
  ASSUME PortInv, NEW d \in Daemons, pc[d] \notin {"serving", "stopping"}
  PROVE  RequestsOf(d) = {}
  BY DEF PortInv, RequestsOf

LEMMA PortStep == SchemaInv /\ PoolInv /\ PortInv /\ [Next]_vars => PortInv'
<1> SUFFICES ASSUME SchemaInv, PoolInv, PortInv, [Next]_vars PROVE PortInv'
  OBVIOUS
<1>1. ASSUME NEW d \in Daemons, Start(d) \/ Connect(d) \/ LoadRecords(d) PROVE PortInv'
  <2>1. RequestsOf(d) = {}
    BY <1>1, Unattached DEF Start, Connect, LoadRecords
  <2> QED
    BY <1>1, <2>1, SamePort DEF Start, Connect, LoadRecords
<1>2. ASSUME NEW d \in Daemons, InitSchema(d) PROVE PortInv'
  <2>1. CASE UNCHANGED pc
    BY <1>2, <2>1 DEF InitSchema, requestVars, PortInv, Serving, Pending
  <2>2. CASE GoTo(d, "embedder")
    <3>1. RequestsOf(d) = {}
      BY <1>2, Unattached DEF InitSchema
    <3> QED
      BY <1>2, <2>2, <3>1, SamePort DEF InitSchema
  <2> QED
    BY <1>2, <2>1, <2>2 DEF InitSchema
<1>3. ASSUME NEW d \in Daemons, Bind(d) PROVE PortInv'
  <2>1. RequestsOf(d) = {}
    BY <1>3, Unattached DEF Bind
  <2>2. CASE Serving = {}
    <3>1. pc' = [pc EXCEPT ![d] = "serving"] /\ pc \in [Daemons -> Phases]
      BY <1>3, <2>2 DEF Bind, GoTo, SchemaInv
    <3>2. Serving' = {d}
      BY <2>2, <3>1 DEF Serving
    <3>3. server' = server /\ Pending' = Pending
      BY <1>3 DEF Bind, requestVars, Pending
    <3>4. \A r \in Pending : pc'[server[r]] \in {"serving", "stopping"}
      BY <2>1, <3>1 DEF PortInv, RequestsOf
    <3> QED
      BY <3>2, <3>3, <3>4 DEF PortInv
  <2>3. CASE Serving # {}
    BY <1>3, <2>1, <2>3, SamePort DEF Bind, Leave
  <2> QED
    BY <2>2, <2>3
<1>4. ASSUME NEW d \in Daemons, Stop(d) PROVE PortInv'
  BY <1>4, SamePort DEF Stop
<1>5. ASSUME NEW d \in Daemons, Close(d) PROVE PortInv'
  BY <1>5, SamePort DEF Close, Leave
<1>6. ASSUME NEW d \in Daemons, Crash(d) PROVE PortInv'
  <2>1. pc' = [pc EXCEPT ![d] = "off"] /\ pc \in [Daemons -> Phases]
    BY <1>6 DEF Crash, Leave, GoTo, SchemaInv
  <2>2. Serving' \subseteq Serving
    BY <2>1 DEF Serving
  <2>3. ASSUME NEW r \in Pending' PROVE pc'[server'[r]] \in {"serving", "stopping"}
    <3>1. r \in Pending /\ r \notin RequestsOf(d) /\ server'[r] = server[r]
      BY <1>6, <2>3 DEF Crash, DropRequests, Pending
    <3> QED
      BY <2>1, <3>1 DEF PortInv, RequestsOf
  <2> QED
    BY <2>2, <2>3 DEF PortInv
<1>7. ASSUME NEW d \in Daemons, NEW r \in Requests, NEW k \in Kinds, Arrive(d, r, k)
      PROVE  PortInv'
  <2>1. /\ pc' = pc /\ Serving' = Serving /\ pc[d] = "serving"
        /\ stage' = [stage EXCEPT ![r] = "queued"] /\ server' = [server EXCEPT ![r] = d]
    BY <1>7 DEF Arrive, serverVars, Serving
  <2>2. ASSUME NEW q \in Pending' PROVE pc'[server'[q]] \in {"serving", "stopping"}
    <3>1. CASE q = r
      BY <2>1, <3>1 DEF PoolInv
    <3>2. CASE q # r
      <4>1. q \in Pending /\ server'[q] = server[q]
        BY <2>1, <3>2 DEF PoolInv, Pending
      <4> QED
        BY <2>1, <4>1 DEF PortInv
    <3> QED
      BY <3>1, <3>2
  <2> QED
    BY <2>1, <2>2 DEF PortInv
<1>8. ASSUME NEW r \in Requests, Serve(r) PROVE PortInv'
  <2>1. pc' = pc /\ Serving' = Serving
    BY <1>8 DEF Serve, Assign, Answered, TimeOut, Verify, Handle, Serialize, serverVars, Serving
  <2>2. CASE Assign(r) \/ Answered(r) \/ TimeOut(r)
    <3>1. server' = server /\ Pending' \subseteq Pending
      BY <2>2 DEF Assign, Answered, TimeOut, PoolInv, Pending, Running
    <3> QED
      BY <2>1, <3>1 DEF PortInv
  <2>3. CASE Verify(r) \/ Handle(r) \/ Serialize(r)
    <3>1. r \in Pending /\ (End(r) \/ Requeue(r, "handle") \/ Requeue(r, "serialize"))
      BY <2>3 DEF Verify, Handle, Serialize, Running, Pending
    <3>2. ASSUME NEW q \in Pending' PROVE q \in Pending /\ server'[q] = server[q]
      BY <3>1, <3>2 DEF End, Requeue, PoolInv, Pending
    <3> QED
      BY <2>1, <3>2 DEF PortInv
  <2> QED
    BY <1>8, <2>2, <2>3 DEF Serve
<1>9. CASE UNCHANGED vars
  BY <1>9 DEF vars, serverVars, requestVars, PortInv, Serving, Pending
<1> QED
  BY <1>1, <1>2, <1>3, <1>4, <1>5, <1>6, <1>7, <1>8, <1>9 DEF Next

-----------------------------------------------------------------------------
\* The schema, the pools and the port together: each process that answers has its own
\* requests, queue and threads, and they are what the others' crashes, stops and
\* starts leave them (lifespan, uvicorn's port, the pools of the `def` endpoints).
THEOREM Invariance == Spec => []IndInv
<1>1. Init => IndInv
  BY SchemaInit, PoolInit, PortInit DEF IndInv
<1>2. IndInv /\ [Next]_vars => IndInv'
  BY SchemaStep, PoolStep, PortStep DEF IndInv
<1> QED
  BY <1>1, <1>2, PTL DEF Spec

\* However many requests share however many threads, a request waits for a thread
\* in one place of its process's queue or none, no more of them run there than there
\* are threads, and they belong to processes that serve or are stopping, of which
\* one at most serves (the thread pool of the `def` endpoints, uvicorn's bind).
THEOREM TypeCorrect == Spec => []TypeOK
<1>1. IndInv => TypeOK
  <2> SUFFICES ASSUME IndInv PROVE TypeOK
    OBVIOUS
  <2>1. ASSUME NEW d \in Daemons
        PROVE  /\ Elements(queue[d]) = {r \in RequestsOf(d) : stage[r] = "queued"}
               /\ Len(queue[d]) = Cardinality(Elements(queue[d]))
               /\ Cardinality(RunningOf(d)) <= Workers
    <3>1. /\ queue[d] \in Seq(Requests) /\ OneToOne(queue[d])
          /\ Elements(queue[d]) = Waiting(d) /\ Cardinality(RunningOf(d)) <= Workers
      BY DEF IndInv, PoolInv
    <3>2. Len(queue[d]) = Cardinality(Elements(queue[d]))
      BY <3>1, NoneTwice
    <3> QED
      BY <3>1, <3>2 DEF Waiting
  <2>2. Cardinality(Serving) <= 1
    <3>1. CASE Serving = {}
      <4>1. Cardinality(Serving) = 0
        BY <3>1, FS_EmptySet
      <4> QED
        BY <4>1
    <3>2. ASSUME NEW d \in Serving PROVE Cardinality(Serving) <= 1
      <4>1. Serving = {d}
        BY <3>2 DEF IndInv, PortInv
      <4>2. Cardinality(Serving) = 1
        BY <4>1, FS_Singleton
      <4> QED
        BY <4>2
    <3> QED
      BY <3>1, <3>2
  <2>3. statement \in [Daemons -> 1..(Len(Script) + 1)]
    <3>1. Len(Script) = 17
      BY ScriptFacts
    <3>2. 1..(Len(Script) + 1) = 1..18
      BY <3>1
    <3> QED
      BY <3>2 DEF IndInv, SchemaInv
  <2>4. \A r \in Pending : server[r] \in Daemons /\ pc[server[r]] \in {"serving", "stopping"}
    BY DEF IndInv, PoolInv, PortInv
  <2> QED
    BY <2>1, <2>2, <2>3, <2>4 DEF IndInv, SchemaInv, PoolInv, TypeOK
<1> QED
  BY <1>1, Invariance, PTL
=============================================================================
