CONSTANTS
  None = None
  MaxLines = 2
  Sources <- MCSources
  Openings <- MCOpenings
  Stocks <- MCStocks
  Quantities = {0, 2}
  Planned = {2}
  PalletInputs = {0}
SPECIFICATION Spec
INVARIANTS
  TypeOK
  NeverOverbooked
  PalletsReleasedOnce
  ScheduledIsPicked
  ReopenedDraftKeepsPicks
  ReviewShowsPayload
CHECK_DEADLOCK FALSE
