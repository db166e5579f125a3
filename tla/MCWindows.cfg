SPECIFICATION WindowsSpec
CONSTANTS
  p1 = p1
  p2 = p2
  Proc = {p1, p2}
  Boot = boot
  Nobody = nobody
  MaxWin = 2
  EvSize = 3
  QSize = 3
  GenSpace = 8
  MaxMade = 3
  Data = {d1, d2}
  MaxTerms = 2
  MaxWindows = 2
  RingSize = 3
  Typed = {"a", "b"}
  MaxTyped = 3
  WmLives = 2
  Width = 4
  Height = 2
  Arm = 1
  Steps <- SomeSteps
  EventRoom = 1
CONSTRAINTS NothingLost Alternating Small
VIEW View
INVARIANTS WindowsKnown InputInOrder KeysArrive WindowsAgree ScreenShowsFrame
CHECK_DEADLOCK FALSE
