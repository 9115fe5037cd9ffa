\* The session ends when the clicks are used up: the user may stop anywhere.
CHECK_DEADLOCK FALSE
SPECIFICATION Spec
CONSTANTS
  None = None
  Buckets <- MCBuckets
  Unfit <- MCUnfit
  Alike <- MCAlike
  Descriptions <- MCDescriptions
  Today = 10
  Rates <- MCRates
  MaxLoaded = 3
  Starts <- MCStarts
  FirstYard <- MCFirstYard
  MaxLoads = 2
  Inputs <- MCInputs
INVARIANTS
  TypeOK
  AsksWhatIsServed
  StockAddsUp
  SealedStaysDraft
  OwnWorkIsShown
  AnswersMatchQuestions
  TotalsAgree
  FlowIsConnected
PROPERTIES
  FinalBalancesHold
  BusyEnds
