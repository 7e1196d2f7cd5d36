SPECIFICATION FairSpec
CONSTANTS
  u1 = u1  u2 = u2  u3 = u3  u4 = u4  a = a  b = b  n = n
  Urls = {u1, u2, u3, u4}
  Hosts = {a, b, n}
  Ports = {80}
  Files = {"index"}
  HostOf <- PoolHostOf
  PortOf <- PoolPortOf
  FileOf <- OneFileOf
  SlotOf <- PoolSlotOf
  NamedSlots = {1, 2}
  IPSlots = {1}
  NumericHosts = {b, n}
  BadHosts = {b}
  NbConn = 2
  DnsConn = 2
  MaxIPUrls = 2
  RamUrls = 3
  MaxPerCall = 2
  MaxUrlsBySite = 3
  LimitDisk = 3
  LimitWait = 2
  WaitDuration = 1
  DnsValidTime = 1
  ReadPeriod = 2
  StartNow = 1
  MaxNow = 2
  MaxHops = 1
  NoUrl = NoUrl  NoSite = NoSite  NoIP = NoIP  NoHost = NoHost
INVARIANTS FreeConnsExact ConnServesOne IPSiteQueuedOnce IntervalExact UrlInOnePlace DnsCallsExact
PROPERTIES IdentityStable LoopReturns
