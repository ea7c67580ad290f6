SPECIFICATION Spec
CONSTANTS
  a = a
  b = b
  x = x
  y = y
  Vectors = {a, b}
  Values = {x, y}
  Blank = Blank
  MaxSize = 3
  Positions = {0, 1, 2, 3}
  Calls = {"Default", "Listed", "Copy", "Move", "Assign", "Push",
           "Insert", "Pop", "Erase", "EraseRange", "Reserve", "Shrink"}
PROPERTY ImplementsValues
