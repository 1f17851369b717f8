\* Three execs; async_run may start after any of them, and one
\* PQsendQueryParams or PQpipelineSync may fail part way through an exec.
\* Results then go astray (see the partial_send run), but the caller's
\* storage of a returned pipeline is never written, also when an orphaned
\* query sits ahead of a cancelled pipeline.  Safety only, so symmetry of
\* the execs is sound.
CONSTANTS
    Ops = {o1, o2, o3}
    PipelineSizes = {1, 2}
    MaxSendFailures = 1
    MaxRunFailures = 0
    RunStartsLate = TRUE
SPECIFICATION Spec
SYMMETRY OpsSymmetry
PROPERTY NoWriteAfterReturn
\* The reader's assert on an empty handler queue ends the process.
CHECK_DEADLOCK FALSE
