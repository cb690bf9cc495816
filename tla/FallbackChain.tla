---------------------------- MODULE FallbackChain ----------------------------
(***************************************************************************)
(* try_fallback_chain: call the sources in order until one returns a       *)
(* result; a source that raises FallbackFailed is skipped, any other       *)
(* exception propagates, and when all were skipped ExtractorError carries  *)
(* the last Retry-After any of them gave.                                  *)
(***************************************************************************)
EXTENDS Naturals, Sequences

CONSTANTS
  MaxSources,   \* bound on the length of a chain
  RetryAfters,  \* values of FallbackFailed.retry_after
  NoRetry       \* ... and its default, None

ASSUME MaxSourcesAssumption == MaxSources \in Nat
ASSUME NoRetryAssumption == NoRetry \notin RetryAfters

VARIABLES
  state,   \* "idle", "trying", or how the call ended
  length,  \* number of sources
  failed,  \* retry_after of the sources skipped so far, in order
  kept     \* last_retry_after

chainVars == <<state, length, failed, kept>>

Retries == RetryAfters \cup {NoRetry}
Ended == {"result", "ExtractorError", "exception"}

ChainTypeOK ==
  /\ state \in {"idle", "trying"} \cup Ended
  /\ length \in 0..MaxSources
  /\ failed \in Seq(Retries)
  /\ kept \in Retries

ChainInit ==
  /\ state = "idle"
  /\ length = 0
  /\ failed = << >>
  /\ kept = NoRetry

Call(n) ==
  /\ state = "idle"
  /\ length' = n
  /\ state' = IF n = 0 THEN "ExtractorError" ELSE "trying"
  /\ UNCHANGED <<failed, kept>>

\* Mutated form: every failure's retry_after is taken, None too.
SkipOverwriting(retry) ==
  /\ state = "trying"
  /\ failed' = Append(failed, retry)
  /\ kept' = retry
  /\ state' = IF Len(failed) + 1 = length THEN "ExtractorError" ELSE "trying"
  /\ UNCHANGED length

\* Mutated form: the chain starts over instead of giving up.
SkipStartingOver(retry) ==
  /\ state = "trying"
  /\ failed' = IF Len(failed) + 1 = length THEN << >> ELSE Append(failed, retry)
  /\ kept' = IF retry # NoRetry THEN retry ELSE kept
  /\ UNCHANGED <<state, length>>

\* Mutated form: the chain gives up one source early.
SkipGivingUpEarly(retry) ==
  /\ state = "trying"
  /\ failed' = Append(failed, retry)
  /\ kept' = IF retry # NoRetry THEN retry ELSE kept
  /\ state' = IF Len(failed) + 2 >= length THEN "ExtractorError" ELSE "trying"
  /\ UNCHANGED length

Skip(retry) ==
  /\ state = "trying"
  /\ failed' = Append(failed, retry)
  /\ kept' = IF retry # NoRetry THEN retry ELSE kept
  /\ state' = IF Len(failed) + 1 = length THEN "ExtractorError" ELSE "trying"
  /\ UNCHANGED length

Finish(how) ==
  /\ state = "trying"
  /\ state' = how
  /\ UNCHANGED <<length, failed, kept>>

ChainNext ==
  \/ \E n \in 0..MaxSources : Call(n)
  \/ \E retry \in Retries : Skip(retry)
  \/ \E how \in {"result", "exception"} : Finish(how)

ChainSpec == ChainInit /\ [][ChainNext]_chainVars

\* While the chain runs, and when a source has answered, a source is left that
\* was not skipped; ExtractorError means that every source was tried.
Exhaustive ==
  /\ Len(failed) <= length
  /\ state = "ExtractorError" => Len(failed) = length
  /\ state \in {"trying", "result", "exception"} => Len(failed) < length

\* The Retry-After of the error is that of the last skipped source that gave
\* one: later sources without one do not erase it.
KeptIsLatest ==
  \/ kept = NoRetry /\ \A i \in 1..Len(failed) : failed[i] = NoRetry
  \/ \E i \in 1..Len(failed) :
       /\ kept = failed[i] /\ kept # NoRetry
       /\ \A j \in i + 1..Len(failed) : failed[j] = NoRetry
=============================================================================
