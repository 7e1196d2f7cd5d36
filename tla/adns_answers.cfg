SPECIFICATION FairSpec
CONSTANTS
  MaxQueries = 2
  MaxUser = 1
  nservers = 2
  UDPMAXRETRIES = 1
  MaxKids = 1
  SearchNames = 1
  Polls = TRUE
  Kinds = {"ptr", "search"}
  Faults = {}
PROPERTIES CallReturns Answers
