SPECIFICATION Spec
CONSTANTS
    NumFunctions = 2
    Pages <- MCPages
    PageOf <- MCPageOf
    HostBudgets = {0, 2}
    DefaultBudget = 2
    HandlersPropagate = TRUE
    RearmMayFail = TRUE
    MaxDepth = 6
INVARIANTS
    NoStaleExecution
    ScopesMatchStack
    FailuresReachHost
