SPECIFICATION FairSpec
CONSTANTS
  k1 = k1  k2 = k2  c1 = c1  c2 = c2
  ip1 = ip1  ip2 = ip2  lo = lo  ann = ann
  NoConn = NoConn  NoCode = NoCode  Dropbox = Dropbox  NoOwner = NoOwner
  Sweep = Sweep  Visitor = Visitor  LocalIp = lo
  Conns = {k1}  Signing = {k1}  Codes = {Dropbox, c1, c2}
  Ips = {lo, ip1}  AgentIp <- OneIp  AgentOwner <- Anonymous
  Ttls = {1}  Visited = {}  MaxMounts = 2  WarnBefore = 1  Retention = 0
  MaxTime = 3  MaxCrashes = 1  Faults = {}
PROPERTIES ExpiredMountGoesDown
