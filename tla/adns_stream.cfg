SPECIFICATION FairSpec
CONSTANTS
  Base = 2
  Lengths = {1, 2, 3}
  MaxMessages = 2
  ShortWrites = {0, 1, 2, 3, 4}
INVARIANTS QueriesWhole RepliesWhole
PROPERTY RepliesArrive
