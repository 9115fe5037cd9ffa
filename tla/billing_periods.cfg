SPECIFICATION Spec
CONSTANTS
    i1 = i1
    i2 = i2
    l1 = l1
    l2 = l2
    r1 = r1
    r2 = r2
    NoInvoice = NoInvoice
    NoLine = NoLine
    NoRequest = NoRequest
    SnapshotIsolation = TRUE
    Requests <- MCRequests
    Invoices <- MCInvoices
    Lines <- MCOneLine
    MaxDate = 2
    MaxAmount = 1
    MaxOperations = 1
SYMMETRY Symmetry
INVARIANTS
    TypeOK
    BilledHistoryStands
    NeverBilledTwice
