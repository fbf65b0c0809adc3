SPECIFICATION BooksFairSpec
CONSTANTS
  s1 = s1
  s2 = s2
  s3 = s3
  s4 = s4
  m1 = m1
  m2 = m2
  Strategies = {s1, s2, s3, s4}
  Markets = {m1, m2}
  Trades <- MCTrades
  Client <- MCClient
  Teams <- MCTeams
  MaxEvents <- MCMaxEvents
  Procs = {w1, w2}
  Lots = {100, 200}
  OutsideSizes = {0, 201, 300}
  One = 100
INVARIANTS BooksExact OwnFillsOnly
PROPERTIES Reconciles
