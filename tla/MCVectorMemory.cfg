SPECIFICATION Spec
CONSTANTS
  a = a
  b = b
  Blank = Blank
  Vectors = {a, b}
  Values = {Blank}
  MaxSize = 9
  Positions = {0, 10}
  Calls = {"Default", "Listed", "Sized", "SizedEmpty", "Copy", "Move",
           "Assign", "AssignSelf", "Push", "Insert", "InsertMany", "Pop",
           "Erase", "EraseAnywhere", "EraseRange", "Reserve", "Shrink", "Resize"}
INVARIANTS
  TypeOK
  OwnBuffers
  RoomForSize
PROPERTY OverrunCauses
SYMMETRY Symmetry
