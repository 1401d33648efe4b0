SPECIFICATION Spec
CONSTANTS
  ann = ann  bob = bob  w1 = w1  w2 = w2  e1 = e1  d1 = d1  s1 = s1  s2 = s2
  k1 = k1  q1 = q1  r1 = r1  r2 = r2  n1 = n1  n2 = n2  eng = eng  ops_ = ops_
  NoName = NoName  Sweep = Sweep
  Users = {ann, bob}  MaxGroups = 4  Names = {n1, n2, eng, ops_}  Claimable = {eng, ops_}
  Editors = {e1}  Deleters = {d1}  Syncs = {s1, s2}  SyncUser <- SyncBob
  Walkers = {w1, w2}  WalkUser <- BobOrNobody  StartNames <- Three  Starts <- Ordinary
  Agents = {k1}  Requests = {q1}  Asker <- BobAsks  Resolvers = {r1, r2}  Person <- AnnResolves
  Owner = ann  RelayAdmins = {}  Policies <- AgentPolicies
  MaxOps = 1  MaxCrashes = 1
INVARIANTS HierarchySound WalksAreExact SyncReconciles DecisionIsPolicy ApprovedHasEntry
CHECK_DEADLOCK FALSE
