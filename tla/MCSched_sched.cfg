SPECIFICATION FairSpec
CONSTANTS
  MaxTask = 2
  MaxProc = 2
INVARIANTS TypeOK ListIntact ThreadsCounted
PROPERTIES KilledStaysDead KeepsPolicy EveryoneServed
