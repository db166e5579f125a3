SPECIFICATION ConsoleSpec
CONSTANTS
  p1 = p1
  p2 = p2
  p3 = p3
  s1 = s1
  s2 = s2
  Sessions = {s1, s2}
  Procs = {p1, p2, p3}
  Comp = p3
  None = None
  Room = 1
  Cols = 2
  Rows = 2
  Finals = {"H", "A", "B", "C", "D", "J", "K", "s", "u", "h", "l"}
  Params = {2, 1049, 65535}
  MaxParams = 2
  MaxLine = 3
  CaptureMax = 4
  Kernel = Kernel
  Program = Program
  Blank = Blank
  Progs = {p1, p2, p3}
  Parent <- TheParents
  NoProg = NoProg
  HostFiles = {f1}
  NoFileYet = NoFile
  HostFds = {3, 4}
  Chars = {"a", "b"}
  IovLens <- TwoLens
  CapMax = 3
  MaxKeys = 3
  MaxSaid = 3
  l1 = l1
  l2 = l2
  Listers = {l1, l2}
  Volumes <- TheVolumes
  Paths <- ToList
  MaxStack = 3
  MaxCols = 3
  MaxRows = 3
  Geometries <- Sizes
  TabStop = 2
  CmdRoom = 3
  Letters = {"a"}
  PromptText <- PromptOf1
  Outputs <- SomeOutputs
CONSTRAINTS InOrder ListersInOrder
INVARIANTS SessionsKept WritesInBuffers ConsoleAnswers CanvasFollows
PROPERTIES KeysReachForeground LinesKept ListsAll
CHECK_DEADLOCK FALSE
