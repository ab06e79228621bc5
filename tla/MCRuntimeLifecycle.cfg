SPECIFICATION Spec
CONSTANTS
    Contexts = {c1, c2}
    Inspectors = {x1}
INVARIANTS
    OneLeasedMemory
    LeaseHasOwner
    NoDangling
    ResolverTablesLive
    GuestRunsOnMappedImage
