SPECIFICATION Spec
CONSTANTS
  f1 = f1  f2 = f2  s1 = s1  s2 = s2  l1 = l1  l2 = l2  a1 = a1
  b1 = b1  b2 = b2  sub1 = sub1  sub2 = sub2  ann = ann  NoOne = NoOne
  Flows = {f1, f2}  Signups = {s1, s2}  Logins = {l1, l2}  Agents = {l2}  Admins = {a1}
  Subjects = {sub1}  Subject <- OnePerson  Bases = {ann}  Base <- AllAnn
  SignupNames <- AnnNames  Browsers = {b1, b2}  Browser <- Where
  Tries = 2  Early <- NoEarly  Traffic <- TwoSignups  MaxCrashes = 0
INVARIANTS SignupDurable
CHECK_DEADLOCK FALSE
