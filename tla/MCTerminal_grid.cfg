CONSTANTS
  Cols = 2
  Rows = 2
  Finals = {"H", "A", "B", "C", "D", "J", "K", "s", "u", "h", "l"}
  Params = {2, 1049, 65535}
  MaxParams = 2
  MaxLine = 3
  CaptureMax = 4
  Kernel = Kernel
  Program = Program
  Blank = Blank
SPECIFICATION TermSpec
INVARIANT WritesInGrid
CHECK_DEADLOCK FALSE
