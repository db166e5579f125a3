SPECIFICATION StorageSpec
CONSTANTS
  User = {u1}
  BlockNo = {0, 1, 2}
  Content = {0, 1}
  Caps = {2, 3}
  OOM = FALSE
  Task = {t1}
  n1 = n1
  Name = {n1, n2}
  Inode = {1, 2}
  Block = {1, 2, 3, 4, 5, 6, 7}
  N = 2
  Direct = 1
  DirRoom = 2
  Fds = {3}
  Data = {8, 9}
  Targets = {3}
  Lens = {4}
  Seeks = {0, 3}
  MaxFile = 8
  MaxStops = 1
CONSTRAINT InOrder
INVARIANTS CacheCoherent DiskConsistent ContentsKept
CHECK_DEADLOCK FALSE
