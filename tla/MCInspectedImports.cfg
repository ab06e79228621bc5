SPECIFICATION InspectedSpec
CONSTANTS
    Manifests <- MCManifests
    KnownLibraries = {1, 2}
    Exports <- MCExports
    MaxClaims = 2
    MaxOrdinal = 2
    ThunkWords = 4
    CodeWords = 8
    ImageWords = 12
    Files <- MCFiles
    LibraryWords = 1
    Helpers <- MCHelpers
CHECK_DEADLOCK FALSE
INVARIANTS
    InspectedTypeOK
    ReportsMatchLoader
    NormalizedOnce
    HelpersOutsideStubs
    NoStubLeftBehind
    ImportsReachTheirService
    OneTablePerLibrary
    RecordsHoldTheirValue
