---------------------------- MODULE MCTranscripts ----------------------------
(* Transcripts instantiated for TLC. *)
EXTENDS Transcripts

TrackOf(source, lang, ext, place) ==
  [source |-> source, lang |-> lang, ext |-> ext, place |-> place]

\* Every loop has something to order, and one track is in another language.
MCTracks ==
  {TrackOf("subtitles", "en", "vtt", 1), TrackOf("subtitles", "en", "srt", 2),
   TrackOf("subtitles", "en", "vtt", 3), TrackOf("subtitles", "de", "json3", 1),
   TrackOf("subtitles", "en-GB", "json3", 1),
   TrackOf("automatic_captions", "en", "vtt", 1),
   TrackOf("automatic_captions", "en", "json3", 2)}
=============================================================================
