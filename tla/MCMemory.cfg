SPECIFICATION MemorySpec
CONSTANTS
  Hdr = 2
  PageUnits = 6
  InitPages = 2
  MaxPages = 4
  Sizes = {1, 3, 8}
  Proc = {p1, p2}
  Page = {1, 2, 3}
  PageCounts = {1}
  MaxRegion = 3
  IdSpace = 3
  InitCap = 1
  MaxCap = 2
  Spawns = {1, 2, 3}
  Files = {f1, f2}
  f1 = f1
  f2 = f2
  Null = Null
  MaxOpen = 2
  MaxFaults = 1
  u1 = u1
  u2 = u2
  Users = {u1, u2}
  Kernel = kernel_process
  Width = 2
  Ram = {1, 2, 3, 4, 5, 6, 7, 8, 9, 10, 11, 12, 13, 14}
  Device = 99
  Counts = {1, 2}
  Touched = {1, 14}
  HeapVirt = 1
  MaxPid = 2
  MaxPage = 3
  MmioEnd = 9
  HeapLast = 15
CONSTRAINTS InOrder SpacesInOrder
INVARIANTS HeapIntact RegionsCounted EachSpaceKept ObjectsKept ParsedOnce
PROPERTY KfreeCoalesces
CHECK_DEADLOCK FALSE
