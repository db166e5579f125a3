SPECIFICATION FairSigSpec
CONSTANTS
  MaxTask = 1
  MaxProc = 1
  Signals = {term, key}
PROPERTY SignalDelivered
