SPECIFICATION Spec
CONSTANTS
  f = f
  g = g
  x = x
  y = y
  s = s
  None = None
  Frames = {f, g}
  Stacks = {s}
  Exceptions = {x, y}
  FrameArgs <- MCFrameArgs
  ExceptionArgs <- MCExceptionArgs
  Signals <- MCSignals
  Length <- MCLength
  Blocks = {1, 2, 3, 4, 5, 6, 7, 8, 9, 10, 11, 12, 13, 14, 15, 16}
  MaxFrames = 2
INVARIANTS
  TypeOK
  OwnTexts
  FieldsApart
  OnlySelfDangles
PROPERTY ImplementsExceptionValues
VIEW Contents
SYMMETRY Symmetry
CONSTRAINT Small
