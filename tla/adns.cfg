SPECIFICATION FairSpec
CONSTANTS
  MaxQueries = 3
  MaxUser = 2
  nservers = 2
  UDPMAXRETRIES = 1
  MaxKids = 2
  SearchNames = 1
  Polls = FALSE
  Kinds = {"hostaddr"}
  Faults = {}
INVARIANTS TypeOK NoAbort QueuesExact EsrchMeansNone TcpDownIsClean SentIffUp RetriesBounded
PROPERTIES AllServersTried IsResolver
