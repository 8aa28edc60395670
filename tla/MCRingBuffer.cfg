SPECIFICATION Spec
CONSTANTS
  NumSlots = 4
  LostCounts = {0, 2}
  Garbage = {0, 5}
  MaxInserts = 8
  MaxReads = 8
INVARIANT HeldInOrder
PROPERTIES BooksBalance
CHECK_DEADLOCK FALSE
