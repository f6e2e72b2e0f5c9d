CONSTANTS
  Makes = {m1, m2}
  MaxRounds = 3
SPECIFICATION FairSpec
INVARIANTS
  OneServerPerSegment
  CalmRoundSucceeds
PROPERTIES
  CalmRoundsEnd
CHECK_DEADLOCK FALSE
