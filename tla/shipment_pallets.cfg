CONSTANTS
  None = None
  MaxLines = 2
  Sources <- MCSources
  Openings <- MCPickingOnly
  Stocks <- MCReserved
  Quantities = {0, 2}
  Planned = {2}
  PalletInputs = {0}
SPECIFICATION Spec
INVARIANT PhysicalPalletsKept
CHECK_DEADLOCK FALSE
