SPECIFICATION Spec
CONSTANTS
    NumFunctions = 2
    Pages <- MCPages
    PageOf <- MCPageOf
    HostBudgets = {2}
    DefaultBudget = 2
    HandlersPropagate = FALSE
    RearmMayFail = FALSE
    MaxDepth = 6
CHECK_DEADLOCK FALSE
INVARIANT DrainedBeforeGuestCall
