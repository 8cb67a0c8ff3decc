SPECIFICATION RowsSpec
CONSTANTS
  Device = {d1, d2}
  a = a
  b = b
  c = c
  Name = {a, b}
  Slug <- SlugOf
  Uuid = {x1, x2, x3, x4}
  Group = {g}
  NoGroup = none
  Moment = {m1, m2}
  MaxLog = 2
  MaxNodes = 2
  MaxAuth = 2
  Batch = 1
  MaxEdits = 5
SYMMETRY Sym
INVARIANTS RowsMatch SavesSucceed
