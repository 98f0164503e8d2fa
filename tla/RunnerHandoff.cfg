SPECIFICATION FairSpec
CONSTANTS
  c1 = c1 c2 = c2 k1 = k1 k2 = k2 k3 = k3
  Callbacks <- MCCallbacks
  Cancellers <- MCCancellers
  Main = Main
  NoRequest = NoRequest
CHECK_DEADLOCK FALSE
INVARIANTS SignalledAtMostOnce CancelNotLost OnlyOwnerReturns
PROPERTIES OutcomeIsFinal OwnerIsAnswered ClaimedSignalArrives KeepsPromise
