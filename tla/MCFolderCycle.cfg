SPECIFICATION Spec
CONSTANTS
  Root = Root
  Folder = {f1, f2, f3}
  Conn = {c1}
  Name = {n1, n2}
  AuthType = {password}
  MaxDepth = 2
  Request = {r1, r2}
  MaxRequests = 2
INVARIANT NoCycle
SYMMETRY Symmetry
CHECK_DEADLOCK FALSE
