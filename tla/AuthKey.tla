------------------------------- MODULE AuthKey -------------------------------
(***************************************************************************)
(* The API key: auth.toml, the processes that read and rewrite it          *)
(* (`khiipd serve`, `capture` and `recall` here named `call`, `auth show`  *)
(* and `auth rotate`) and the copy the daemon takes at startup and         *)
(* compares bearer tokens with.                                            *)
(*                                                                         *)
(* The file is rewritten in place: open(..., "wb") empties it, the text    *)
(* arrives when it is closed.  ensure_auth's text is longer than           *)
(* rotate_api_key's, so that writing the latter over the former leaves a   *)
(* tail that is not TOML.                                                  *)
(*                                                                         *)
(* Keys are numbered in the order they are generated; 0 is no key.  A      *)
(* process is one run of one command.                                      *)
(***************************************************************************)
EXTENDS Naturals

CONSTANTS
  Procs,     \* command runs
  Commands,  \* the commands they may be: a subset of AllCommands
  NoProc

AllCommands == {"serve", "call", "show", "rotate"}

ASSUME CommandsAssumption == Commands \subseteq AllCommands
ASSUME NoProcAssumption == NoProc \notin Procs

VARIABLES
  file,       \* what auth.toml holds, and the key in it
  fresh,      \* the last key generated
  cmd,        \* the command of each run
  pc,
  calls,      \* how many times it has called ensure_auth
  held,       \* the key it got from ensure_auth, or is writing
  daemon,     \* the run that serves requests now
  served,     \* app.state.api_key of that run
  result,     \* what a `call` was answered
  disturbed,  \* history: runs that overlapped another one reading or writing
  retired,    \* history: keys older than a rotation that overlapped no other run
  rotated     \* history: a rotation has begun since the daemon took its key

vars == <<file, fresh, cmd, pc, calls, held, daemon, served, result,
          disturbed, retired, rotated>>
history == <<disturbed, retired, rotated>>

\* Whole texts by their writer, and what may be found instead.
Texts == {"ensure", "rotate"}
FileStates == {"absent", "empty", "garbled"} \cup Texts
File(state, key) == [state |-> state, key |-> key]

Working == {"exists", "load", "truncate", "write", "send"}

TypeOK ==
  /\ fresh \in Nat
  /\ file \in [state : FileStates, key : 0..fresh]
  /\ file.state \in Texts <=> file.key # 0
  /\ cmd \in [Procs -> Commands \cup {"none"}]
  /\ pc \in [Procs -> Working \cup {"idle", "serving", "done", "dead"}]
  /\ calls \in [Procs -> 0..2]
  /\ held \in [Procs -> 0..fresh]
  /\ daemon \in Procs \cup {NoProc}
  /\ served \in 0..fresh
  /\ (served # 0) <=> (daemon # NoProc)
  /\ result \in [Procs -> {"none", "ok", "401", "unreachable", "TOMLDecodeError"}]
  /\ disturbed \subseteq Procs
  /\ retired \subseteq 1..fresh
  /\ rotated \in BOOLEAN

\* A file without a usable key may be there from the start.
Init ==
  /\ \E state \in {"absent", "empty"} : file = File(state, 0)
  /\ fresh = 0
  /\ cmd = [p \in Procs |-> "none"]
  /\ pc = [p \in Procs |-> "idle"]
  /\ calls = [p \in Procs |-> 0]
  /\ held = [p \in Procs |-> 0]
  /\ daemon = NoProc
  /\ served = 0
  /\ result = [p \in Procs |-> "none"]
  /\ disturbed = {}
  /\ retired = {}
  /\ rotated = FALSE

Goto(p, label) == pc' = [pc EXCEPT ![p] = label]

-----------------------------------------------------------------------------
\* A command starts.
Start(p, c) ==
  /\ pc[p] = "idle"
  /\ cmd' = [cmd EXCEPT ![p] = c]
  /\ LET busy == {q \in Procs : pc[q] \in Working}
     IN  disturbed' = disturbed \cup (IF busy = {} THEN {} ELSE busy \cup {p})
  /\ IF c = "rotate"
       THEN /\ fresh' = fresh + 1
            /\ held' = [held EXCEPT ![p] = fresh + 1]
            /\ Goto(p, "truncate")
            /\ UNCHANGED calls
       ELSE /\ calls' = [calls EXCEPT ![p] = 1]
            /\ Goto(p, "exists")
            /\ UNCHANGED <<fresh, held>>
  /\ UNCHANGED <<file, daemon, served, result, retired, rotated>>

-----------------------------------------------------------------------------
(***************************************************************************)
(* ensure_auth.                                                            *)
(***************************************************************************)

\* ensure_auth returns key k: `serve` calls it again in the lifespan and then
\* serves with the key it got there, unless the port turns out to be taken: it
\* is bound after the startup.  A `call` sends the key, `auth show` prints it.
Return(p, k) ==
  /\ held' = [held EXCEPT ![p] = k]
  /\ \/ /\ cmd[p] = "serve" /\ calls[p] = 1
        /\ calls' = [calls EXCEPT ![p] = 2]
        /\ Goto(p, "exists")
        /\ UNCHANGED <<daemon, served, rotated>>
     \/ /\ cmd[p] = "serve" /\ calls[p] = 2 /\ daemon # NoProc
        /\ Goto(p, "done")
        /\ UNCHANGED <<calls, daemon, served, rotated>>
     \/ /\ cmd[p] = "serve" /\ calls[p] = 2 /\ daemon = NoProc
        /\ daemon' = p
        /\ served' = k
        /\ rotated' = FALSE
        /\ Goto(p, "serving")
        /\ UNCHANGED calls
     \/ /\ cmd[p] = "call"
        /\ Goto(p, "send")
        /\ UNCHANGED <<calls, daemon, served, rotated>>
     \/ /\ cmd[p] = "show"
        /\ Goto(p, "done")
        /\ UNCHANGED <<calls, daemon, served, rotated>>

Generate(p) ==
  /\ fresh' = fresh + 1
  /\ held' = [held EXCEPT ![p] = fresh + 1]
  /\ Goto(p, "truncate")
  /\ UNCHANGED <<file, cmd, calls, daemon, served, result, history>>

Exists(p) ==
  /\ pc[p] = "exists"
  /\ file.state # "absent"
  /\ Goto(p, "load")
  /\ UNCHANGED <<file, fresh, cmd, calls, held, daemon, served, result, history>>

ExistsNot(p) ==
  /\ pc[p] = "exists"
  /\ file.state = "absent"
  /\ Generate(p)

\* Mutated form: a stored key is never taken to be valid.
LoadAlwaysFresh(p) ==
  /\ pc[p] = "load"
  /\ file.state \in Texts
  /\ Generate(p)

\* The file holds a key.
Load(p) ==
  /\ pc[p] = "load"
  /\ file.state \in Texts
  /\ Return(p, file.key)
  /\ UNCHANGED <<file, fresh, cmd, result, disturbed, retired>>

\* Mutated form: the new key is used but not stored.
LoadMalformedForgetting(p) ==
  /\ pc[p] = "load"
  /\ file.state = "empty"
  /\ fresh' = fresh + 1
  /\ Return(p, fresh + 1)
  /\ UNCHANGED <<file, cmd, result, disturbed, retired>>

\* An empty file parses to no key: regenerate.
LoadMalformed(p) ==
  /\ pc[p] = "load"
  /\ file.state = "empty"
  /\ Generate(p)

\* The command ends with an uncaught TOMLDecodeError.
LoadFails(p) ==
  /\ pc[p] = "load"
  /\ file.state = "garbled"
  /\ result' = [result EXCEPT ![p] = "TOMLDecodeError"]
  /\ Goto(p, "done")
  /\ UNCHANGED <<file, fresh, cmd, calls, held, daemon, served, history>>

-----------------------------------------------------------------------------
(***************************************************************************)
(* Writing, in ensure_auth and in rotate_api_key.                          *)
(***************************************************************************)
Truncate(p) ==
  /\ pc[p] = "truncate"
  /\ file' = File("empty", 0)
  /\ rotated' = (rotated \/ cmd[p] = "rotate")
  /\ Goto(p, "write")
  /\ UNCHANGED <<fresh, cmd, calls, held, daemon, served, result, disturbed, retired>>

\* What is found after the text of p was written over what is there.
Overwritten(p) ==
  IF cmd[p] # "rotate" THEN File("ensure", held[p])
  ELSE IF file.state \in {"ensure", "garbled"} THEN File("garbled", 0)
  ELSE File("rotate", held[p])

WriteEnsured(p) ==
  /\ pc[p] = "write"
  /\ cmd[p] # "rotate"
  /\ file' = Overwritten(p)
  /\ Return(p, held[p])
  /\ UNCHANGED <<fresh, cmd, result, disturbed, retired>>

\* A rotation that overlapped nothing retires every key generated before it.
Retire(p) ==
  retired' = IF p \in disturbed THEN retired ELSE retired \cup 1..(held[p] - 1)

\* Mutated form: the text is written without the key.
WriteRotatedTorn(p) ==
  /\ pc[p] = "write"
  /\ cmd[p] = "rotate"
  /\ file' = File("rotate", 0)
  /\ Retire(p)
  /\ Goto(p, "done")
  /\ UNCHANGED <<fresh, cmd, calls, held, daemon, served, result, disturbed, rotated>>

\* Mutated form: the text written is that of the key before.
WriteRotatedKeepingOld(p) ==
  /\ pc[p] = "write"
  /\ cmd[p] = "rotate"
  /\ file' = File("rotate", IF fresh > 1 THEN fresh - 1 ELSE 1)
  /\ Retire(p)
  /\ Goto(p, "done")
  /\ UNCHANGED <<fresh, cmd, calls, held, daemon, served, result, disturbed, rotated>>

WriteRotated(p) ==
  /\ pc[p] = "write"
  /\ cmd[p] = "rotate"
  /\ file' = Overwritten(p)
  /\ Retire(p)
  /\ Goto(p, "done")
  /\ UNCHANGED <<fresh, cmd, calls, held, daemon, served, result, disturbed, rotated>>

-----------------------------------------------------------------------------
\* verify_bearer compares with the key cached at startup.
Send(p) ==
  /\ pc[p] = "send"
  /\ result' = [result EXCEPT ![p] = IF daemon = NoProc THEN "unreachable"
                                     ELSE IF held[p] = served THEN "ok" ELSE "401"]
  /\ Goto(p, "done")
  /\ UNCHANGED <<file, fresh, cmd, calls, held, daemon, served, history>>

Leave(p, label) ==
  /\ Goto(p, label)
  /\ daemon' = IF daemon = p THEN NoProc ELSE daemon
  /\ served' = IF daemon = p THEN 0 ELSE served
  /\ UNCHANGED <<file, fresh, cmd, calls, held, result, history>>

Stop(p) == pc[p] = "serving" /\ Leave(p, "done")

\* A process is killed at any point; a half-written file stays empty.
Die(p) == pc[p] \in Working /\ Leave(p, "dead")

Step(p) ==
  \/ Exists(p)
  \/ ExistsNot(p)
  \/ Load(p)
  \/ LoadMalformed(p)
  \/ LoadFails(p)
  \/ Truncate(p)
  \/ WriteEnsured(p)
  \/ WriteRotated(p)
  \/ Send(p)

Next ==
  \/ \E p \in Procs, c \in Commands : Start(p, c)
  \/ \E p \in Procs : Step(p) \/ Stop(p) \/ Die(p)

Spec == Init /\ [][Next]_vars

-----------------------------------------------------------------------------
\* A call is refused only for a reason: it or the daemon's startup overlapped
\* another command, or the key was rotated under the running daemon.  Killing
\* any command at any point, restarting the daemon and rotating before that
\* never leave client and daemon with different keys.
RefusedForAReason ==
  [][\A p \in Procs : result'[p] = "401" /\ result[p] # "401" =>
       p \in disturbed \/ daemon \in disturbed \/ rotated]_vars

\* A daemon that started after a rotation serves none of the keys the rotation
\* replaced, whatever ran, overlapped or was killed in between.
RestartEnforcesRotation == served \in retired => rotated

\* A command with nobody in its way ends with the key that auth.toml holds,
\* whatever an earlier one that was killed has left there.
LoneCommandAgrees ==
  \A p \in Procs : pc[p] = "send" /\ p \notin disturbed =>
    file.state \in Texts /\ file.key = held[p]
=============================================================================
