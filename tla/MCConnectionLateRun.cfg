\* async_run is initiated after an exec has already signalled write_cv_.
CONSTANTS
    Ops = {o1, o2}
    PipelineSizes = {1, 2}
    MaxSendFailures = 0
    MaxRunFailures = 0
    RunStartsLate = TRUE
SPECIFICATION Spec
PROPERTY ExecEventuallyReturns
CHECK_DEADLOCK FALSE
