SPECIFICATION Spec
CONSTANTS
  MaxHeaders = 5
  MaxVotes = 1
  DiffBlocks = 2
INVARIANTS
  HeadsAreTheBranches
  ScoresAreVotes
  LongestWins
PROPERTIES
  DetectionEnds
CHECK_DEADLOCK FALSE
