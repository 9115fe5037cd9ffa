\* The session ends after MaxClicks actions: the user may stop anywhere.
CHECK_DEADLOCK FALSE
SPECIFICATION Spec
CONSTANTS
  Containers <- MCContainers
  Customers <- MCCustomers
  CustomerOf <- MCCustomerOf
  TypeOf <- MCTypeOf
  GraceDays = 3
  Scopes <- MCScopes
  Filters <- MCFilters
  FirstScope <- MCFirstScope
  DefaultRates <- MCRates
  Candidates <- MCCandidates
  FirstMoves <- MCFirstMoves
  FirstInvoices <- MCFirstInvoices
  Forms <- MCForms
  Role = "admin"
  MaxMoves = 4
  MaxInvoices = 2
  MaxLoads = 2
  MaxClicks = 3
INVARIANTS
  TypeOK
  PreviewMatchesScope
  StatementsMatchYard
  AmountDueAgrees
  ArchiveAddsUp
  RunsKeepTheStorage
  PreviewAddsUp
  StayMatchesDesk
PROPERTIES
  InvoiceBillsPreview
  BusyEnds
