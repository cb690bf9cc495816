---------------------------- MODULE AuthKeyProofs ----------------------------
(***************************************************************************)
(* The keys of clients, daemon and auth.toml, for any set of command runs. *)
(***************************************************************************)
EXTENDS AuthKey, TLAPS

USE DEF Working, Texts, FileStates, File, Goto

\* What overlaps nothing has not been disturbed, and the other way round.
AloneInv ==
  \A p \in Procs : pc[p] \in Working /\ p \notin disturbed =>
    \A q \in Procs \ {p} : pc[q] \notin Working

\* Where a run is tells what it may be doing there.
RunInv ==
  \A p \in Procs :
    /\ pc[p] \in {"exists", "load", "send"} => cmd[p] # "rotate"
    /\ pc[p] \in {"truncate", "write"} => held[p] # 0 /\ held[p] \notin retired
    /\ pc[p] = "write" /\ cmd[p] = "rotate" /\ p \notin disturbed => rotated

\* While a daemon that started undisturbed has seen no rotation, auth.toml holds
\* its key, and nobody but a rotation is about to change that.
ServedInv ==
  daemon # NoProc /\ daemon \notin disturbed /\ ~rotated =>
    /\ file.state \in Texts /\ file.key = served
    /\ \A p \in Procs : pc[p] # "write" /\ (pc[p] = "truncate" => cmd[p] = "rotate")

\* The parts need each other: a rotation retires keys only while nobody else can
\* write one of them back, a daemon takes a key that is not retired.
Safety ==
  /\ AloneInv
  /\ RunInv
  /\ ServedInv
  /\ file.key \notin retired
  /\ RestartEnforcesRotation
  /\ LoneCommandAgrees

IndInv == TypeOK /\ Safety

-----------------------------------------------------------------------------
\* No command has run.
LEMMA InitInvariant == Init => IndInv
<1> SUFFICES ASSUME Init PROVE IndInv
  OBVIOUS
<1>1. PICK state \in {"absent", "empty"} : file = File(state, 0)
  BY DEF Init
<1>2. TypeOK
  <2>1. file \in [state : FileStates, key : 0..fresh] /\ (file.state \in Texts <=> file.key # 0)
    BY <1>1 DEF Init
  <2>2. served \in 0..fresh /\ (served # 0 <=> daemon # NoProc) /\ retired \subseteq 1..fresh
    BY DEF Init
  <2>3. /\ fresh \in Nat /\ daemon \in Procs \cup {NoProc}
        /\ disturbed \subseteq Procs /\ rotated \in BOOLEAN
    BY DEF Init
  <2>4. /\ cmd \in [Procs -> Commands \cup {"none"}]
        /\ pc \in [Procs -> Working \cup {"idle", "serving", "done", "dead"}]
        /\ calls \in [Procs -> 0..2]
        /\ held \in [Procs -> 0..fresh]
        /\ result \in [Procs -> {"none", "ok", "401", "unreachable", "TOMLDecodeError"}]
    BY DEF Init
  <2> QED
    BY <2>1, <2>2, <2>3, <2>4 DEF TypeOK
<1> QED
  BY <1>1, <1>2 DEF Init, IndInv, Safety, AloneInv, RunInv, ServedInv, RestartEnforcesRotation, LoneCommandAgrees

\* What ensure_auth's return leaves of the run and the daemon.
LEMMA ReturnTypes ==
  ASSUME TypeOK, NEW p \in Procs, NEW k \in 1..fresh, Return(p, k)
  PROVE  /\ held' \in [Procs -> 0..fresh]
         /\ pc' \in [Procs -> Working \cup {"idle", "serving", "done", "dead"}]
         /\ calls' \in [Procs -> 0..2]
         /\ daemon' \in Procs \cup {NoProc}
         /\ served' \in 0..fresh
         /\ served' # 0 <=> daemon' # NoProc
         /\ rotated' \in BOOLEAN
<1>1. held' \in [Procs -> 0..fresh]
  BY DEF Return, TypeOK
<1>2. pc' \in [Procs -> Working \cup {"idle", "serving", "done", "dead"}]
  BY DEF Return, TypeOK
<1>3. calls' \in [Procs -> 0..2]
  BY DEF Return, TypeOK
<1>4. daemon' \in Procs \cup {NoProc}
  BY DEF Return, TypeOK
<1>5. served' \in 0..fresh /\ (served' # 0 <=> daemon' # NoProc)
  <2>1. (served' = served /\ daemon' = daemon) \/ (served' = k /\ daemon' = p)
    BY DEF Return
  <2> QED
    BY <2>1, NoProcAssumption DEF TypeOK
<1>6. rotated' \in BOOLEAN
  BY DEF Return, TypeOK
<1> QED
  BY <1>1, <1>2, <1>3, <1>4, <1>5, <1>6

\* The types, each kept by every action.
LEMMA TypeStep == IndInv /\ [Next]_vars => TypeOK'
<1> SUFFICES ASSUME IndInv, [Next]_vars PROVE TypeOK'
  OBVIOUS
<1> USE DEF IndInv, TypeOK, Safety, history
<1>1. ASSUME NEW p \in Procs, NEW c \in Commands, Start(p, c) PROVE TypeOK'
  BY <1>1, CommandsAssumption DEF Start
<1>2. ASSUME NEW p \in Procs, Exists(p) PROVE TypeOK'
  BY <1>2, NoProcAssumption DEF Exists, RunInv
<1>3. ASSUME NEW p \in Procs, ExistsNot(p) PROVE TypeOK'
  BY <1>3, NoProcAssumption DEF ExistsNot, Generate, RunInv
<1>4. ASSUME NEW p \in Procs, Load(p) PROVE TypeOK'
  <2>1. file.key \in 1..fresh
    BY <1>4 DEF Load
  <2> QED
    BY <1>4, <2>1, ReturnTypes DEF Load
<1>5. ASSUME NEW p \in Procs, LoadMalformed(p) PROVE TypeOK'
  BY <1>5, NoProcAssumption DEF LoadMalformed, Generate, RunInv
<1>6. ASSUME NEW p \in Procs, LoadFails(p) PROVE TypeOK'
  BY <1>6, NoProcAssumption DEF LoadFails, RunInv
<1>7. ASSUME NEW p \in Procs, Truncate(p) PROVE TypeOK'
  BY <1>7, NoProcAssumption DEF Truncate, RunInv
<1>8. ASSUME NEW p \in Procs, WriteEnsured(p) PROVE TypeOK'
  <2>1. held[p] \in 1..fresh
    BY <1>8 DEF WriteEnsured, RunInv
  <2>2. file' = [state |-> "ensure", key |-> held[p]]
    BY <1>8 DEF WriteEnsured, Overwritten
  <2> QED
    BY <1>8, <2>1, <2>2, ReturnTypes DEF WriteEnsured
<1>9. ASSUME NEW p \in Procs, WriteRotated(p) PROVE TypeOK'
  <2>1. held[p] \in 1..fresh
    BY <1>9 DEF WriteRotated, RunInv
  <2>2. \/ file' = [state |-> "garbled", key |-> 0]
        \/ file' = [state |-> "rotate", key |-> held[p]]
    BY <1>9 DEF WriteRotated, Overwritten
  <2>3. file' \in [state : FileStates, key : 0..fresh] /\ (file'.state \in Texts <=> file'.key # 0)
    BY <2>1, <2>2
  <2>4. retired' \subseteq 1..fresh
    <3>1. retired \subseteq 1..fresh /\ 1..(held[p] - 1) \subseteq 1..fresh
      BY <2>1
    <3> QED
      BY <1>9, <3>1 DEF WriteRotated, Retire
  <2> QED
    BY <1>9, <2>3, <2>4 DEF WriteRotated
<1>10. ASSUME NEW p \in Procs, Send(p) PROVE TypeOK'
  BY <1>10, NoProcAssumption DEF Send, RunInv
<1>11. ASSUME NEW p \in Procs, Stop(p) PROVE TypeOK'
  BY <1>11, NoProcAssumption DEF Stop, Leave, RunInv
<1>12. ASSUME NEW p \in Procs, Die(p) PROVE TypeOK'
  BY <1>12, NoProcAssumption DEF Die, Leave, RunInv
<1>13. CASE UNCHANGED vars
  BY <1>13 DEF vars
<1> QED
  BY <1>1, <1>2, <1>3, <1>4, <1>5, <1>6, <1>7, <1>8, <1>9, <1>10, <1>11, <1>12, <1>13 DEF Next, Step

\* The rest, kept by every action together with the types.
LEMMA SafetyStep == IndInv /\ [Next]_vars => Safety'
<1> SUFFICES ASSUME IndInv, [Next]_vars PROVE Safety'
  OBVIOUS
<1> USE DEF IndInv, TypeOK, history, Safety, AloneInv, RunInv, ServedInv,
            RestartEnforcesRotation, LoneCommandAgrees
<1>1. ASSUME NEW p \in Procs, NEW c \in Commands, Start(p, c) PROVE Safety'
  BY <1>1, CommandsAssumption DEF Start
<1>2. ASSUME NEW p \in Procs, Exists(p) PROVE Safety'
  BY <1>2, NoProcAssumption DEF Exists
<1>3. ASSUME NEW p \in Procs, ExistsNot(p) PROVE Safety'
  BY <1>3, NoProcAssumption DEF ExistsNot, Generate
<1>4. ASSUME NEW p \in Procs, Load(p) PROVE Safety'
  BY <1>4, NoProcAssumption DEF Load, Return
<1>5. ASSUME NEW p \in Procs, LoadMalformed(p) PROVE Safety'
  BY <1>5, NoProcAssumption DEF LoadMalformed, Generate
<1>6. ASSUME NEW p \in Procs, LoadFails(p) PROVE Safety'
  BY <1>6, NoProcAssumption DEF LoadFails
<1>7. ASSUME NEW p \in Procs, Truncate(p) PROVE Safety'
  <2>1. /\ pc[p] = "truncate" /\ pc' = [pc EXCEPT ![p] = "write"]
        /\ file'.state = "empty" /\ file'.key = 0
        /\ UNCHANGED <<fresh, cmd, calls, held, daemon, served, result, disturbed, retired>>
    BY <1>7 DEF Truncate
  <2>2. rotated' <=> rotated \/ cmd[p] = "rotate"
    BY <1>7 DEF Truncate
  <2>3. AloneInv'
    BY <2>1
  <2>4. RunInv'
    BY <2>1, <2>2
  <2>5. ServedInv'
    BY <2>1, <2>2
  <2>6. RestartEnforcesRotation' /\ file'.key \notin retired'
    BY <2>1, <2>2
  <2>7. LoneCommandAgrees'
    BY <2>1
  <2> QED
    BY <2>3, <2>4, <2>5, <2>6, <2>7
<1>8. ASSUME NEW p \in Procs, WriteEnsured(p) PROVE Safety'
  BY <1>8, NoProcAssumption DEF WriteEnsured, Overwritten, Return
<1>9. ASSUME NEW p \in Procs, WriteRotated(p) PROVE Safety'
  BY <1>9, NoProcAssumption DEF WriteRotated, Overwritten, Retire
<1>10. ASSUME NEW p \in Procs, Send(p) PROVE Safety'
  BY <1>10, NoProcAssumption DEF Send
<1>11. ASSUME NEW p \in Procs, Stop(p) PROVE Safety'
  BY <1>11, NoProcAssumption DEF Stop, Leave
<1>12. ASSUME NEW p \in Procs, Die(p) PROVE Safety'
  BY <1>12, NoProcAssumption DEF Die, Leave
<1>13. CASE UNCHANGED vars
  BY <1>13 DEF vars
<1> QED
  BY <1>1, <1>2, <1>3, <1>4, <1>5, <1>6, <1>7, <1>8, <1>9, <1>10, <1>11, <1>12, <1>13 DEF Next, Step

\* Whatever commands overlap or are killed.
THEOREM Invariance == Spec => []IndInv
<1>1. IndInv /\ [Next]_vars => IndInv'
  BY TypeStep, SafetyStep DEF IndInv
<1> QED
  BY InitInvariant, <1>1, PTL DEF Spec

-----------------------------------------------------------------------------
\* The variables have their types; auth.toml has a key when it is whole, and the
\* daemon when there is one.
THEOREM TypeCorrect == Spec => []TypeOK
<1>1. IndInv => TypeOK
  BY DEF IndInv
<1> QED
  BY <1>1, Invariance, PTL

\* A daemon that started after an undisturbed rotation serves none of the keys
\* the rotation replaced.
THEOREM RotationIsEnforced == Spec => []RestartEnforcesRotation
<1>1. IndInv => RestartEnforcesRotation
  BY DEF IndInv, Safety
<1> QED
  BY <1>1, Invariance, PTL

\* A command that overlaps no other ends with the key of auth.toml.
THEOREM LoneCommandsAgree == Spec => []LoneCommandAgrees
<1>1. IndInv => LoneCommandAgrees
  BY DEF IndInv, Safety
<1> QED
  BY <1>1, Invariance, PTL

\* A 401 needs an overlap or a rotation under the running daemon.
THEOREM RefusalsHaveReasons == Spec => RefusedForAReason
<1>1. IndInv /\ [Next]_vars =>
        [\A p \in Procs : result'[p] = "401" /\ result[p] # "401" =>
           p \in disturbed \/ daemon \in disturbed \/ rotated]_vars
  <2> SUFFICES ASSUME IndInv, Next, NEW p \in Procs, result'[p] = "401", result[p] # "401",
                      p \notin disturbed, daemon \notin disturbed, ~rotated
               PROVE  FALSE
    OBVIOUS
  <2>1. result \in [Procs -> {"none", "ok", "401", "unreachable", "TOMLDecodeError"}]
    BY DEF IndInv, TypeOK
  <2>2. PICK q \in Procs : Send(q)
    <3>1. \A q \in Procs : LoadFails(q) => result'[p] # "401"
      BY <2>1 DEF LoadFails
    <3>2. result' # result
      OBVIOUS
    <3> QED
      BY <3>1, <3>2 DEF Next, Step, Start, Exists, ExistsNot, Generate, Load, LoadMalformed,
         Truncate, WriteEnsured, WriteRotated, Stop, Die, Leave
  <2>3. pc[p] = "send" /\ daemon # NoProc /\ held[p] # served
    BY <2>1, <2>2 DEF Send
  <2>4. held[p] = file.key
    BY <2>3 DEF IndInv, Safety, LoneCommandAgrees
  <2>5. served = file.key
    BY <2>3 DEF IndInv, Safety, ServedInv
  <2> QED
    BY <2>3, <2>4, <2>5
<1> QED
  BY <1>1, Invariance, PTL DEF Spec, RefusedForAReason
=============================================================================
