CONSTANTS
  MaxCues = 2
  MaxCuesOfMany = 1
  Tracks <- MCTracks
  NoTrack = NoTrack
SPECIFICATION Spec
CHECK_DEADLOCK FALSE
INVARIANTS
  TypeOK
  ExactWhenUnambiguous
  BestTrackWins
