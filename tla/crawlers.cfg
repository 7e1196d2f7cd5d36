SPECIFICATION FairSpec
CONSTANTS
  p = p  q = q  r = r  s = s
  Urls = {p, q, r, s}
  NrCrawler = 3
  NrVNode = 6
  Hash <- WebHash
  Links <- WebLinks
  StartUrls <- WebStart
  Unsignalled = {0}
INVARIANTS SearchTogether OncePerFinder
PROPERTIES AllSearch SeenIsCrawled
CHECK_DEADLOCK FALSE
