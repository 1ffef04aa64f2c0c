SPECIFICATION Spec
CONSTANTS
  Root = Root
  Folder = {f1, f2, f3}
  Conn = {c1, c2}
  Name = {n1, n2}
  AuthType = {password, privateKey}
  MaxDepth = 2
  Request = {r1, r2}
  MaxRequests = 2
INVARIANTS TreeSound CountersExact UndisturbedCommits
PROPERTIES PayloadKept StoreSpec
SYMMETRY Symmetry
CHECK_DEADLOCK FALSE
