SPECIFICATION Spec
CONSTANTS
  a = a
  x = x
  Vectors = {a}
  Values = {x}
  Blank = Blank
  MaxSize = 5
  Positions = {0, 1, 2, 3, 4, 5}
  Calls = {"Listed", "EraseAnywhere"}
PROPERTIES
  EraseNeverOverruns
