SPECIFICATION Spec
CONSTANT NumPages = 2
INVARIANT CommitObservesZero
