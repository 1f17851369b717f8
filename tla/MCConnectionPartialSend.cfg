\* A send fails after earlier commands of the same exec were queued.
CONSTANTS
    Ops = {o1, o2}
    PipelineSizes = {1, 2}
    MaxSendFailures = 1
    MaxRunFailures = 0
    RunStartsLate = FALSE
SPECIFICATION Spec
INVARIANT ResultsRoutedToOwner
CHECK_DEADLOCK FALSE
