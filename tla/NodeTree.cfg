CONSTANTS
  Root = r
  Node = {r, a, b, c}
  Null = Null
  ID = {1, 2}
  Hidden = Hidden
  Uses <- MCUses
SPECIFICATION Spec
SYMMETRY Allocations
INVARIANTS LinksOK Connected WalkSafe NotesTell
PROPERTY WalkComplete
CHECK_DEADLOCK FALSE
