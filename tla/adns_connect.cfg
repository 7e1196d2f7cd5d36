SPECIFICATION FairSpec
CONSTANTS
  MaxQueries = 1
  MaxUser = 1
  nservers = 2
  UDPMAXRETRIES = 1
  MaxKids = 0
  SearchNames = 1
  Polls = FALSE
  Kinds = {"addr"}
  Faults = {"connect"}
PROPERTY CallReturns
