\* async_exec_pipeline called with an empty range (first == last).
CONSTANTS
    Ops = {o1, o2}
    PipelineSizes = {0, 1}
    MaxSendFailures = 0
    MaxRunFailures = 0
    RunStartsLate = FALSE
SPECIFICATION Spec
INVARIANT ResultsRoutedToOwner
CHECK_DEADLOCK FALSE
