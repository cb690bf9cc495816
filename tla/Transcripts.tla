----------------------------- MODULE Transcripts -----------------------------
(***************************************************************************)
(* _fetch_transcript_from_ytdlp_info: of the subtitle tracks yt-dlp lists  *)
(* for a video, the first that can be fetched and gives any text becomes   *)
(* the transcript.  Files and their parsers are those of module Subtitles; *)
(* here a file is written, cue by cue, when its track is fetched.          *)
(***************************************************************************)
EXTENDS Subtitles

CONSTANTS
  Tracks,          \* the tracks a video may have
  NoTrack,
  MaxCuesOfMany    \* bound on the cues of a file when several tracks are listed

ASSUME NoTrackAssumption == NoTrack \notin Tracks

\* The two lists of a video's `info` that are looked at, and a place in them.
ASSUME TracksAssumption ==
  \A t \in Tracks : t.source \in {"subtitles", "automatic_captions"} /\ t.place \in Nat

VARIABLES
  tracks,   \* the tracks listed
  track,    \* the track whose file is at hand
  outcome,  \* what became of each track
  found     \* "searching", or how the search ended

vars == <<fileVars, tracks, track, outcome, found>>

Sources == <<"subtitles", "automatic_captions">>

\* _LANG_PRIORITY.
Langs == <<"en", "en-US", "en-GB">>

Formats == <<"json3", "vtt", "srt">>

Position(x, order) == CHOOSE i \in DOMAIN order : order[i] = x

\* The tracks the loops reach: English ones in a format there is a parser for.
Candidates ==
  {t \in tracks : /\ \E i \in DOMAIN Langs : Langs[i] = t.lang
                  /\ \E i \in DOMAIN Formats : Formats[i] = t.ext}

\* The order of the loops: by source, language, format, and place in the list.
Before(t, u) ==
  LET rank(x) == 9 * Position(x.source, Sources) + 3 * Position(x.lang, Langs)
                   + Position(x.ext, Formats)
  IN  rank(t) < rank(u) \/ (rank(t) = rank(u) /\ t.place < u.place)

Remaining == {t \in Candidates : outcome[t] = "unasked"}

Init ==
  /\ NoFile
  /\ tracks \in SUBSET Tracks
  /\ track = NoTrack
  /\ outcome = [t \in Tracks |-> "unasked"]
  /\ found = "searching"

\* The next track to be fetched.
Turn(t) ==
  /\ found = "searching"
  /\ track = NoTrack
  /\ t \in Remaining
  /\ \A u \in Remaining \ {t} : Before(t, u)

\* Mutated form: a track that cannot be fetched ends the search.
FetchFailsEnding(t) ==
  /\ Turn(t)
  /\ outcome' = [outcome EXCEPT ![t] = "unreachable"]
  /\ found' = "none"
  /\ UNCHANGED <<fileVars, tracks, track>>

\* httpx.HTTPError: logged, and on to the next track.
FetchFails(t) ==
  /\ Turn(t)
  /\ outcome' = [outcome EXCEPT ![t] = "unreachable"]
  /\ UNCHANGED <<fileVars, tracks, track, found>>

\* A URL httpx cannot parse: InvalidURL is no HTTPError and leaves _parse_ytdlp.
FetchRaises(t) ==
  /\ Turn(t)
  /\ found' = "raised"
  /\ UNCHANGED <<fileVars, tracks, track, outcome>>

\* json3 is JSON: its segments have text, or there are none or it is malformed.
FetchJson(t) ==
  /\ Turn(t)
  /\ t.ext = "json3"
  /\ \/ track' = t /\ found' = "transcript" /\ UNCHANGED outcome
     \/ outcome' = [outcome EXCEPT ![t] = "silent"] /\ UNCHANGED <<track, found>>
  /\ UNCHANGED <<fileVars, tracks>>

FetchFile(t) ==
  /\ Turn(t)
  /\ t.ext # "json3"
  /\ Open(t.ext)
  /\ track' = t
  /\ UNCHANGED <<tracks, outcome, found>>

\* The file goes on.
Write ==
  /\ found = "searching"
  /\ track # NoTrack
  /\ Cardinality(tracks) > 1 => cues < MaxCuesOfMany
  /\ Comment \/ Cue
  /\ UNCHANGED <<tracks, track, outcome, found>>

\* Does anyone say plain words in the file?
HasWords == \E i \in DOMAIN spoken : file[spoken[i]] = "words"

\* The transcript, or on to the next track when the parser leaves nothing.
Parse ==
  /\ found = "searching"
  /\ track # NoTrack
  /\ IF Transcript # << >>
       THEN found' = "transcript" /\ UNCHANGED <<fileVars, track, outcome>>
       ELSE /\ outcome' = [outcome EXCEPT ![track] = IF HasWords THEN "words" ELSE "silent"]
            /\ track' = NoTrack
            /\ Close
            /\ UNCHANGED found
  /\ UNCHANGED tracks

GiveUp ==
  /\ found = "searching"
  /\ track = NoTrack
  /\ Remaining = {}
  /\ found' = "none"
  /\ UNCHANGED <<fileVars, tracks, track, outcome>>

Next ==
  \/ \E t \in Tracks :
       FetchFails(t) \/ FetchRaises(t) \/ FetchJson(t) \/ FetchFile(t)
  \/ Write
  \/ Parse
  \/ GiveUp

Spec == Init /\ [][Next]_vars

-----------------------------------------------------------------------------
TypeOK ==
  /\ FileTypeOK
  /\ tracks \subseteq Tracks
  /\ track \in tracks \cup {NoTrack}
  /\ outcome \in [Tracks -> {"unasked", "unreachable", "silent", "words"}]
  /\ found \in {"searching", "transcript", "none", "raised"}

\* A human's subtitles beat automatic captions; of the same kind the more
\* general language wins, of one language the format easier to parse, and of
\* one format the track listed first.
Better(t, u) ==
  \/ t.source = "subtitles" /\ u.source = "automatic_captions"
  \/ /\ t.source = u.source
     /\ \/ t.lang = "en" /\ u.lang # "en"
        \/ t.lang = "en-US" /\ u.lang = "en-GB"
        \/ /\ t.lang = u.lang
           /\ \/ t.ext = "json3" /\ u.ext # "json3"
              \/ t.ext = "vtt" /\ u.ext = "srt"
              \/ t.ext = u.ext /\ t.place < u.place

\* A track is passed over only because it could not be fetched or says nothing
\* in plain words, and the transcript is of the best track that remains: none is
\* missing for one failure among several tracks.
BestTrackWins ==
  \A t \in Candidates :
    /\ outcome[t] # "words"
    /\ found = "none" => outcome[t] # "unasked"
    /\ found = "transcript" /\ Better(t, track) => outcome[t] # "unasked"
    /\ outcome[t] # "unasked" /\ track # NoTrack => Better(t, track)
=============================================================================
