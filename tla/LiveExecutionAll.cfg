SPECIFICATION FairSpec
CONSTANTS
  Amount = 1000
  Sizes = {0, 995, 1003}
  FillLevels = {1, 995, 999}
  MinBase = 10
  One = 100
  Venues = {"cutting", "synced", "renamed", "skipped"}
  Modes = {"maker", "market"}
  Signals = {"open", "close"}
  Weathers = {"calm", "rough"}
INVARIANTS ExecInv OvershootIsLate BooksFollow OpenRestIsDust
PROPERTIES Concludes QueueDispatch
CHECK_DEADLOCK FALSE
