SPECIFICATION Spec
CONSTANT NumOverrides = 1
CHECK_DEADLOCK FALSE
PROPERTY ClosingEndsRun
