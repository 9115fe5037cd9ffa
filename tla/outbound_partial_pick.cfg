SPECIFICATION Spec
CONSTANTS
    d1 = d1
    d2 = d2
    sectionA = sectionA
    sectionB = sectionB
    container1 = container1
    Docs <- MCDocs
    Buckets <- MCOneBucket
    Containers <- MCContainers
    ContainerOf <- MCOneContainerOf
    FifoRank <- MCOneFifoRank
    MaxQuantity = 2
    MaxPallets = 1
PROPERTIES
    PartialPickKeepsPallet
