SPECIFICATION ServiceSpec
CONSTANTS
  Plans <- MCPlans
  Prices = {1, 2, 3, 4}
  Liquidation = 2
  Deposit = 4
  MinCapital = 2
  MaxCapital = 6
  MaxLots = 2
  Ratio = 2
INVARIANTS BacktestInv ExitsInOrder Solvent Reverses PathInv SignalsFresh
CHECK_DEADLOCK FALSE
