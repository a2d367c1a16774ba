SPECIFICATION LayoutSpec
CONSTANTS
  Proc = {p1, p2, p3}
  MaxConnects = 4
  MaxLosses = 1
INVARIANTS UsersSeeCurrent
