SPECIFICATION ShmSpec
CONSTANTS
  Proc = {p1, p2}
  Page = {1, 2, 3}
  PageCounts = {1, 2}
  MaxRegion = 3
  IdSpace = 4
  InitCap = 1
  MaxCap = 2
INVARIANT PagesExclusive
