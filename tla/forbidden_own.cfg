SPECIFICATION HSpec
CONSTANTS
  u1 = u1  u2 = u2  u3 = u3  u4 = u4  a = a  b = b  n = n
  Urls = {u1, u3}
  Hosts = {a, b}
  Ports = {80, 8080}
  Files = {"index", "private"}
  HostOf <- SiteHostOf
  PortOf <- SitePortOf
  FileOf <- SiteFileOf
  SlotOf <- SiteSlotOf
  NamedSlots = {1}
  IPSlots = {1}
  NumericHosts = {}
  BadHosts = {}
  NbConn = 1
  DnsConn = 1
  MaxIPUrls = 2
  RamUrls = 3
  MaxPerCall = 2
  MaxUrlsBySite = 4
  LimitDisk = 3
  LimitWait = 2
  WaitDuration = 1
  DnsValidTime = 1
  ReadPeriod = 2
  StartNow = 1
  MaxNow = 3
  MaxHops = 1
  NoUrl = NoUrl  NoSite = NoSite  NoIP = NoIP  NoHost = NoHost
INVARIANT ForbiddenIsOwn
