SPECIFICATION MarketFairSpec
CONSTANTS
  a = a
  b = b
  ia = ia
  ib = ib
  Threads = {t1, t2, bg}
  Pollers = {bg}
  NoThread = none
  MinConn = 1
  MaxConn = 4
  MaxOutages = 1
  Users = {a, b}
  Items = {ia, ib}
  Owner <- MCOwner
  Price <- MCPrice
  VipFree = {ib}
  Vips = {a}
  Lifetimes = {a}
  Allowances = {1}
  Deposits <- MCDeposits
  MaxPurchases = 2
  MaxMonths = 1
INVARIANTS NothingLeaks BooksMatch
PROPERTIES SaleSpec AnsweredUnlessCrossed
CHECK_DEADLOCK FALSE
