SPECIFICATION FairSpec
CONSTANTS
  short = short  long = long
  Items = {short, long}
  NoItem = NoItem
  LineLen <- Lengths
  MaxLine = 3
  BufSize = 7
  UrlByFile = 3
  Names = 3
PROPERTIES IsQueue GetReturns
