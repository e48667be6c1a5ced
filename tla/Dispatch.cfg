SPECIFICATION Spec
CONSTANTS
    Delegates <- MCDelegates
    MaxArgs = 7
CHECK_DEADLOCK FALSE
INVARIANTS TypeOK CalledOnlyIfItFits
