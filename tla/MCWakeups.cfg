SPECIFICATION WakeSpec
CONSTANTS
  MaxTask = 2
  MaxProc = 1
  Signals = {term}
  tA = tA
  tB = tB
  Task = {tA, tB}
  Boot = tA
  Pollers = {tB}
  QueueSize = 3
  MaxKeys = 4
  Texts <- TheTexts
INVARIANTS BlockedIsWakeable KeysOnceInOrder AsWritten
PROPERTIES ImplementsSched DrainedWhenIdle Finishes
CHECK_DEADLOCK FALSE
