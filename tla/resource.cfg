SPECIFICATION Spec
CONSTANTS
  a = a
  b = b
  x = x
  y = y
  Requests = {r1, r2, r3}
  Names = {a, b}
  Notes = {x, y}
  MaxId = 2
  Options <- MCOptions
  Stored <- MCStored
  Bodies <- MCBodies
  PatchBodies <- MCPatchBodies
  Null = Null
SYMMETRY Symmetric
INVARIANT AnswersFitTheTable
PROPERTY RowsChangeAsAsked
