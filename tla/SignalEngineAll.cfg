SPECIFICATION EngineFairSpec
CONSTANTS
  Setups <- MCSetups
  Prices = {"low", "mid"}
  MaxEmitted = 1
  Slots = {o1, o2}
  Worth <- MCWorth
  Lot <- MCLot
  Part = 1
  MaxPosition = 3
  MaxHeld = 3
  MaxFaults = 1
INVARIANTS EngineInv
PROPERTIES ExitsWin StopLossCloses
