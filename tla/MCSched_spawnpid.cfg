SPECIFICATION Spec
CONSTANTS
  MaxTask = 2
  MaxProc = 2
INVARIANT SpawnReturnsPid
