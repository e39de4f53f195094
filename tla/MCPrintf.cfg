CONSTANTS
  CharBits = 2
  ShortBits = 3
  IntBits = 4
  LongBits = 8
  NtoaSize = 6
  PointerDigits = 2
  SizeMax = 63
  Cells = 34
  Requests <- MCRequests
SPECIFICATION Spec
INVARIANTS
  TypeOK
  Delivered
  InsideBuffer
PROPERTIES
  IntegerRendered
  TextRendered
