SPECIFICATION Spec
CONSTANTS
    d1 = d1
    d2 = d2
    sectionA = sectionA
    sectionB = sectionB
    container1 = container1
    Docs <- MCDocs
    Buckets <- MCBuckets
    Containers <- MCContainers
    ContainerOf <- MCContainerOf
    FifoRank <- MCFifoRank
    MaxQuantity = 2
    MaxPallets = 1
SYMMETRY Symmetry
INVARIANTS
    TypeOK
    ReservationsMatchRows
    NeverOversold
    LedgerMatchesBalance
    ContainerStatusCurrent
    PickingHoldsStock
    LedgerMatchesShipments
PROPERTIES
    ConfirmedImmutable
