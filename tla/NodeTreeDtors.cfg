CONSTANTS
  Root = r
  Node = {r, a, b, c}
  Null = Null
  ID = {1, 2}
  Hidden = Hidden
  Uses <- MCUses
SPECIFICATION Spec
SYMMETRY Allocations
INVARIANT DtorsAfterCtors
CHECK_DEADLOCK FALSE
