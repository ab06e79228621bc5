SPECIFICATION Spec
CONSTANTS
    NumPages = 4
    PageWords = 2
    HeapOf <- MCHeapOf
    MaxSize = 3
    MaxAllocations = 2
    MaxDevices = 1
INVARIANTS
    BlocksAreTracked
    OwnedAccessesStayOwned
    MappedAccessesAreChecked
