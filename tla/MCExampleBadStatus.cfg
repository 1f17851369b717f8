\* PQconnectStart yields a CONNECTION_BAD session (e.g. every address
\* refused at once): the connection string of main.cpp names one server.
CONSTANTS
    StartOutcomes = {"ok", "bad"}
    MaxPolls = 4
    MaxWaitErrors = 0
    MaxSendFailures = 0
    MaxRunFailures = 0
SPECIFICATION Spec
INVARIANT ExampleReportsErrors
CHECK_DEADLOCK FALSE
