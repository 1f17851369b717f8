\* Two execs, single or pipelines of 1..3 queries (a cancelled pipeline may
\* have two results left to swallow); async_run may fail once
\* (socket error or PQconsumeInput failure) and the application then
\* destroys the connection, as async_main does when leaving its scope.
\* Routing, completion, cancellation and teardown under all interleavings,
\* and the refinement of ExecService.
CONSTANTS
    Ops = {o1, o2}
    PipelineSizes = {1, 2, 3}
    MaxSendFailures = 0
    MaxRunFailures = 1
    RunStartsLate = FALSE
SPECIFICATION SpecWithTeardown
INVARIANT TypeOK
INVARIANT QueueMatchesWire
INVARIANT ResultsRoutedToOwner
INVARIANT ExecReturnsOwnResults
PROPERTY NoWriteAfterReturn
PROPERTY ExecEventuallyReturns
PROPERTY ImplementsExecService
\* An idle connection, with every exec done, has every coroutine suspended.
CHECK_DEADLOCK FALSE
