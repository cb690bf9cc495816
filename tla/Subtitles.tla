------------------------------ MODULE Subtitles ------------------------------
(***************************************************************************)
(* Subtitle files and the parsers that reduce them to a transcript         *)
(* (_parse_vtt_transcript, _parse_srt_transcript).  A file is written cue  *)
(* by cue; a line is abstracted to what the parsers can tell about it, and *)
(* a transcript is the sequence of the numbers of the lines it keeps.      *)
(* Module Transcripts says when a file is fetched and parsed.              *)
(***************************************************************************)
EXTENDS Integers, Sequences, Ascending

CONSTANT MaxCues   \* bound on the cues of a file

ASSUME MaxCuesAssumption == MaxCues \in Nat

VARIABLES
  format,  \* "vtt" or "srt"
  file,    \* kinds of its lines
  spoken,  \* numbers of the lines somebody says
  cues     \* cues written

fileVars == <<format, file, spoken, cues>>

\* What speech may look like: plain words, words that open like a block
\* ("NOTE that ..."), or a bare number.
Speech == {"words", "noteWords", "number"}

\* What surrounds it.
Markup == {"blank", "signature", "metadata", "note", "noteBody", "style", "styleBody",
           "id", "timing", "shortTiming", "tags", "index", "srtTiming"}

-----------------------------------------------------------------------------
(***************************************************************************)
(* The two formats.  A line of a VTT cue may consist of tags alone; hours  *)
(* in a VTT timing and an identifier before it are optional; comments and  *)
(* style sheets are blocks of their own.                                   *)
(***************************************************************************)
Preludes(f) ==
  IF f = "srt" THEN {<< >>}
  ELSE {<<"signature", "blank">>, <<"signature", "metadata", "metadata", "blank">>,
        <<"signature", "blank", "style", "styleBody", "blank">>}

Comments == {<<"note", "blank">>, <<"note", "noteBody", "blank">>}

CueHeaders ==
  IF format = "srt" THEN {<<"index", "srtTiming">>}
  ELSE {<<"timing">>, <<"shortTiming">>, <<"id", "timing">>, <<"id", "shortTiming">>}

Payloads ==
  LET lines == Speech \cup (IF format = "vtt" THEN {"tags"} ELSE {})
  IN  {<<line>> : line \in lines} \cup {<<one, two>> : one, two \in lines}

\* Nothing fetched: as good as an empty file.
NoFile == format = "srt" /\ file = << >> /\ spoken = << >> /\ cues = 0

Close == format' = "srt" /\ file' = << >> /\ spoken' = << >> /\ cues' = 0

Open(f) ==
  /\ format' = f
  /\ file' \in Preludes(f)
  /\ spoken' = << >>
  /\ cues' = 0

Comment ==
  /\ format = "vtt"
  /\ file[Len(file)] = "blank"
  /\ Len(file) > 1 => file[Len(file) - 1] \notin {"note", "noteBody"}   \* one at a time
  /\ \E lines \in Comments : file' = file \o lines
  /\ UNCHANGED <<format, spoken, cues>>

Cue ==
  /\ cues < MaxCues
  /\ \E header \in CueHeaders, payload \in Payloads :
       LET lines == file \o header \o payload \o <<"blank">>
       IN  /\ file' = lines
           /\ spoken' = spoken \o
                InOrder({i \in DOMAIN lines : i > Len(file) /\ lines[i] \in Speech})
  /\ cues' = cues + 1
  /\ UNCHANGED format

-----------------------------------------------------------------------------
(***************************************************************************)
(* The parsers.                                                            *)
(***************************************************************************)

\* Mutated form: inline tags are left in.
VttDropsTagsKept == {"blank", "signature", "note", "style", "noteWords", "timing"}

\* Blank lines, lines that begin with WEBVTT, NOTE or STYLE, timings with
\* hours, and lines of which the tags leave nothing.
VttDrops == {"blank", "signature", "note", "style", "noteWords", "timing", "tags"}

\* Blank lines, lines of digits, timings.
SrtDrops == {"blank", "index", "number", "srtTiming"}

\* Mutated form: a head of two lines is assumed and not counted.
TranscriptPastHead ==
  LET drops == IF format = "vtt" THEN VttDrops ELSE SrtDrops
      kept == InOrder({i \in DOMAIN file : file[i] \notin drops})
  IN  [j \in DOMAIN kept |-> kept[j] - 2]

Transcript ==
  LET drops == IF format = "vtt" THEN VttDrops ELSE SrtDrops
  IN  InOrder({i \in DOMAIN file : file[i] \notin drops})

-----------------------------------------------------------------------------
\* A transcript names lines of its file.
FileTypeOK ==
  /\ format \in {"vtt", "srt"}
  /\ file \in Seq(Speech \cup Markup)
  /\ spoken \in Seq(DOMAIN file)
  /\ cues \in 0..MaxCues
  /\ Transcript \in Seq(DOMAIN file)

\* What the line-by-line parsers cannot tell apart from something else.
Ambiguous ==
  IF format = "srt" THEN {"number"}
  ELSE {"metadata", "noteBody", "styleBody", "id", "shortTiming", "noteWords"}

\* Of a file without ambiguous lines the transcript is what is said, whole and
\* in order, over all cues, comments and lines of tags.
ExactWhenUnambiguous ==
  (\A i \in DOMAIN file : file[i] \notin Ambiguous) => Transcript = spoken
=============================================================================
