SPECIFICATION HSpec
CONSTANTS
  u1 = u1  u2 = u2  u3 = u3  u4 = u4  a = a  b = b  n = n
  Urls = {u1, u2, u3, u4}
  Hosts = {a, b}
  Ports = {80, 8080}
  Files = {"index"}
  HostOf <- SiteHostOf
  PortOf <- SitePortOf
  FileOf <- OneFileOf
  SlotOf <- SiteSlotOf
  NamedSlots = {1}
  IPSlots = {1, 2}
  NumericHosts = {}
  BadHosts = {}
  NbConn = 1
  DnsConn = 1
  MaxIPUrls = 1
  RamUrls = 3
  MaxPerCall = 2
  MaxUrlsBySite = 3
  LimitDisk = 2
  LimitWait = 2
  WaitDuration = 1
  DnsValidTime = 0
  ReadPeriod = 2
  StartNow = 1
  MaxNow = 2
  MaxHops = 0
  NoUrl = NoUrl  NoSite = NoSite  NoIP = NoIP  NoHost = NoHost
SYMMETRY Twins
INVARIANTS TypeOK SiteHeldOnce WaitingIffHeld NbUrlsExact FifoNeverFull PageCleared
PROPERTY PagesSpaced
