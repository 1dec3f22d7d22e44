SPECIFICATION FairSpec
CONSTANTS
  Calls = {c1, c2}
  Game = Game
  MaxTokens = 2
  MaxRequests = 1
  MaxConnects = 2
INVARIANTS TypeOK   ClosedIsQuiet
PROPERTIES  ReassignmentTaken
CHECK_DEADLOCK FALSE
