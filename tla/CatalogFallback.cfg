SPECIFICATION Spec
CONSTANTS
  board = board
  job = job
  desktop = desktop
  console = console
  Board <- BoardsMC
  Job <- JobsMC
  BoardOf <- BoardOfMC
  Refresher <- RefreshersMC
  Keep = 1
  MaxVersion = 2
PROPERTY FailedUpdatePreserves
