SPECIFICATION Spec
CONSTANTS
  k1 = k1  k2 = k2  c1 = c1  c2 = c2
  ip1 = ip1  ip2 = ip2  lo = lo  ann = ann
  NoConn = NoConn  NoCode = NoCode  Dropbox = Dropbox  NoOwner = NoOwner
  Sweep = Sweep  Visitor = Visitor  LocalIp = lo
  Conns = {k1, k2}  Signing = {k1, k2}  Codes = {Dropbox, c1, c2}
  Ips = {lo, ip1}  AgentIp <- OneIp  AgentOwner <- Anonymous
  Ttls = {1}  Visited = {}  MaxMounts = 2  WarnBefore = 0  Retention = 0
  MaxTime = 2  MaxCrashes = 1  Faults = {"linger"}
INVARIANTS TypeOK MappedTunnelIsAttached  TableMatchesMap RegisteredIsDurable DropboxAlwaysUp SecretOfSession
PROPERTIES CrashKeepsMounts NoResurrection
SYMMETRY CodeSymmetry
