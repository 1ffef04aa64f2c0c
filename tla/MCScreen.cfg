SPECIFICATION ScreenSpec
CONSTANTS
  Root = Root
  None = None
  Folder = {f1, f2}
  Conn = {c1, c2}
  Name = {n1}
  AuthType = {password}
  MaxDepth = 2
  MaxFlows = 2
  MaxClicks = 2
  MaxForeign = 1
INVARIANTS NoGhostSelection ScreenAgrees DialogMovesItsTitle
SYMMETRY Symmetry
CHECK_DEADLOCK FALSE
