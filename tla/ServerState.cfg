SPECIFICATION Spec
CONSTANTS
  phone = phone  laptop = laptop  s1 = s1  s2 = s2  s3 = s3  c1 = c1  v1 = v1  l1 = l1
  q1 = q1  f1 = f1  f2 = f2  x1 = x1  n1 = n1  n2 = n2  t1 = t1  k1 = k1
  NoSocket = NoSocket  NoRow = NoRow
  Devices = {phone, laptop}  Sockets = {s1, s2, s3}  DeviceOf <- Tabs
  Callers = {q1, f1, f2, x1, n1, n2, t1, k1}  Starts <- Ordinary
  Paths = {"a", "b"}  Ttls = {1, 2}  MaxNow = 2  MaxLinkOps = 3
  Sharers = {c1}  Visitors = {v1}  Listers = {l1}
  Rids = {"r"}  Askers = {q1}  Fulfillers = {f1, f2}  Dismissers = {x1}  CallerDevice <- Mine
  FileNames = {"x", "y"}
  Sids = {1, 2, 3}  MaxSnippets = 1  Titles = {"t", "u"}  Contents = {"c", "d"}
  Writers = {n1, n2}  Titlers = {t1}  Erasers = {k1}
  MaxRestarts = 1
INVARIANTS DevicesSound LinksAsTold SnippetCap NoLostUpdate
PROPERTY GoneIsForgotten
CHECK_DEADLOCK FALSE
