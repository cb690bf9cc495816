---------------------------- MODULE MCExtraction ----------------------------
(* Extraction instantiated for TLC. *)
EXTENDS Extraction

\* Offsets on both sides of a day.
MCZoneOffsets == {-1440, -300, 0, 1439, 1440}
=============================================================================
