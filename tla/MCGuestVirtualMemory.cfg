SPECIFICATION Spec
CONSTANT NumPages = 3
INVARIANTS
    UniformCommit
PROPERTY
    FailedCallChangesNothing
