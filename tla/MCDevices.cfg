SPECIFICATION DevicesSpec
CONSTANTS
  Keys = {"LCTRL", "RCTRL", "LSHIFT", "RSHIFT", "LALT", "C", "SPACE", "UP"}
  Room = 1
  Btns = {1, 2}
  Moves <- SomeMoves
  MouseRoom = 4
  MaxReports = 3
  LastPort = 2
  Kinds <- Plugs
  AtBoot = {1}
  UsbSlots = 3
  Rings = 3
  CmdRoom = 6
  XferRoom = 14
  EvTrbs = 18
  UsbKeys = {1}
  MaxLate = 1
  Drives = {"A", "B"}
  NoDrive = "-"
  Tree <- TwoDrives
  Walkers = {w1}
  Shell = sh
  s1 = s1
  Terms = {s1, s2}
  Typed <- SomePaths
  MaxSegs = 3
  MaxLinks = 2
CONSTRAINTS MakerIsProgram FewReports
INVARIANTS NoStuckModifier PointerFollows MouseRealigns AnswersAreOwn 
PROPERTIES InterruptIsCtrlC PathsLead
CHECK_DEADLOCK FALSE
