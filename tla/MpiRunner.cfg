SPECIFICATION FairSpec
CONSTANTS
  c1 = c1 c2 = c2 k1 = k1 k2 = k2 w1 = w1 w2 = w2
  Callbacks = {c1}
  Cancellers <- MCCancellers
  Workers <- MCWorkers
  Root = Root
  Main = Main
  NoRequest = NoRequest
  Ticks = 2
CHECK_DEADLOCK FALSE
INVARIANTS SuccessMeansEveryRankIsDone RanksStayTogether CancelStopsEveryRank
PROPERTY RunSettles
