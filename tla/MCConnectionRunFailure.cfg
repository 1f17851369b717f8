\* async_run fails while execs wait; nothing else tears the connection down.
CONSTANTS
    Ops = {o1, o2}
    PipelineSizes = {1, 2}
    MaxSendFailures = 0
    MaxRunFailures = 1
    RunStartsLate = FALSE
SPECIFICATION Spec
PROPERTY QueuedExecReturns
CHECK_DEADLOCK FALSE
