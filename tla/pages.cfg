SPECIFICATION Spec
CONSTANTS
  Chars <- MCChars
  PortLimit = 65536
  maxUrlSize = 40
  maxSiteSize = 4
  RobotsFiles <- MCRobotsFiles
  maxRobotsItem = 2
  USERAGENT <- MCUserAgent
  Lower <- MCLower
  Here <- MCHere
  Links <- MCLinks
  Redirects <- MCRedirects
  BaseTags <- MCBaseTags
  ForbExt <- MCForbExt
  externalLinks = FALSE
  depthInSite = 1
  MaxLines = 4
INVARIANTS ForbiddenExact HeadersRead NamesResolved RobotsObeyed
