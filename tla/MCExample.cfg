\* The example program against a healthy server: a handshake of up to 16
\* polls that may fail (session, pipeline mode, one socket wait), one
\* failing send and one failure of async_run, under every interleaving of
\* the five-query pipeline with the writer, the server and the reader.
CONSTANTS
    StartOutcomes = {"ok", "nonblocking_failed"}
    MaxPolls = 16
    MaxWaitErrors = 1
    MaxSendFailures = 1
    MaxRunFailures = 1
SPECIFICATION Spec
INVARIANT TypeOK
 
\* The program ends: every coroutine has completed and ioc.run() returns.
CHECK_DEADLOCK FALSE
