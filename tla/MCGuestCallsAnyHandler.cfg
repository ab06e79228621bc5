SPECIFICATION FairSpec
CONSTANTS
    NumFunctions = 2
    Pages <- MCPages
    PageOf <- MCPageOf
    HostBudgets = {2}
    DefaultBudget = 1
    HandlersPropagate = FALSE
    RearmMayFail = FALSE
    MaxDepth = 6
INVARIANTS
    StaleIsPending
    NoStaleEntry
PROPERTY HostCallsReturn
