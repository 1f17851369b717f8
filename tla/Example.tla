------------------------------ MODULE Example ------------------------------
(***************************************************************************)
(* The example program (src/example/main.cpp and pipeline.cpp): async_main *)
(* constructs a connection, co_awaits async_connect, then co_awaits        *)
(* async_run || run_exmaple, whose async_exec_pipeline pushes five         *)
(* queries; the connection is destroyed when async_main leaves its scope,  *)
(* and main's try/catch reports an exception that escapes ioc.run().       *)
(*                                                                         *)
(* The handshake is Handshake and the connection's engine is Connection,   *)
(* both instantiated over this module's variables; this module adds the    *)
(* steps of async_main and of the awaitable operator ||, which cancels the *)
(* other branch when one completes and resumes async_main only once both   *)
(* have completed.                                                         *)
(***************************************************************************)
EXTENDS Naturals, Sequences, SequencesExt

CONSTANTS
    StartOutcomes,     \* what PQconnectStart/PQsetnonblocking may yield
    MaxPolls,          \* the handshake ends after at most this many polls
    MaxWaitErrors,     \* bound on handshake socket waits failing
    MaxSendFailures,   \* bound on PQsendQueryParams/PQpipelineSync failures
    MaxRunFailures     \* bound on I/O errors ending async_run

VARIABLES
    mainPc,      \* async_main: "connect", "run" (in the ||) or "done"
    first,       \* the branch of || that completed first: "none", "run", "example"
    exit,        \* how the program ended: "none", "ok", "reported", "terminated"
    \* Handshake
    hpc, connectRet, sessBad, sessFailed, polls, stale, waitErrors,
    \* Connection
    opPc, opKind, opSize, opWoken, opRet, hStatus, hDummy, slots, handlers,
    outBuf, toServer, toClient, inBuf, wpc, cvFired, rpc, destroyed,
    sendFailures, runFailures

hvars == <<hpc, connectRet, sessBad, sessFailed, polls, stale, waitErrors>>
cvars == <<opPc, opKind, opSize, opWoken, opRet, hStatus, hDummy, slots,
           handlers, outBuf, toServer, toClient, inBuf, wpc, cvFired, rpc,
           destroyed, sendFailures, runFailures>>
vars == <<mainPc, first, exit, hvars, cvars>>

(* run_exmaple's one exec, and the queries its builder pushes (pipeline.cpp *)
(* lines 16-20).                                                           *)
Exec == "run_exmaple"
PushedQueries == 5

H == INSTANCE Handshake WITH ret <- connectRet, SocketMayChange <- FALSE

C == INSTANCE Connection WITH Ops <- {Exec}, PipelineSizes <- {PushedQueries},
                              RunStartsLate <- TRUE

-----------------------------------------------------------------------------
(* co_await conn.async_connect(...): the handshake runs; nothing cancels   *)
(* it in this program.                                                     *)
Connect ==
    /\ mainPc = "connect"
    /\ H!Start \/ H!Poll \/ H!SocketReady \/ H!WaitFails
    /\ UNCHANGED <<mainPc, first, exit, cvars>>

(* ~connection() at the end of async_main's scope: the handlers are        *)
(* cancelled, then, as conn_ is set, socket_.release(), which throws       *)
(* bad_descriptor when socket_ was never opened; a throw out of the        *)
(* (noexcept) destructor calls std::terminate.  Otherwise an error of      *)
(* async_main reaches main's catch.                                        *)
ExitWith(failed) ==
    /\ mainPc' = "done"
    /\ exit' = CASE sessBad -> "terminated"
                 [] failed  -> "reported"
                 [] OTHER   -> "ok"
    /\ C!Destructor

(* async_connect completed.  With deferred, an error code is thrown as     *)
(* system_error, and so is socket_.assign's failure; either unwinds        *)
(* async_main.  On success the || starts async_run first: its writer       *)
(* suspends on write_cv_ and its reader drains before run_exmaple starts.  *)
ConnectReturned ==
    /\ mainPc = "connect" /\ hpc = "done"
    /\ \/ /\ connectRet = "ok"
          /\ mainPc' = "run"
          /\ C!StartRun
          /\ UNCHANGED exit
       \/ /\ connectRet # "ok"
          /\ ExitWith(TRUE)
    /\ UNCHANGED <<first, hvars>>

(* The branch that completes first is recorded by the parallel group.      *)
Completes(branch) ==
    first' = IF first = "none" THEN branch ELSE first

(* run_exmaple: co_await conn.async_exec_pipeline(...).  A failing send    *)
(* completes the exec at once, and its error is thrown out of run_exmaple. *)
ExampleExec ==
    /\ mainPc = "run"
    /\ C!ExecPipeline(Exec)
    /\ IF opPc'[Exec] = "done" THEN Completes("example") ELSE UNCHANGED first
    /\ UNCHANGED <<mainPc, exit, hvars>>

(* The exec resumes; run_exmaple prints the rows of results.back() or      *)
(* throws the error, and completes either way.                             *)
ExampleResume ==
    /\ C!ResumeExec(Exec)
    /\ Completes("example")
    /\ UNCHANGED <<mainPc, exit, hvars>>

(* async_run completes with the error of its failing half.                 *)
RunFails ==
    /\ opPc[Exec] # "idle"
    /\ C!RunFails
    /\ Completes("run")
    /\ UNCHANGED <<mainPc, exit, hvars>>

(* The steps of the connection's engine that nothing in this module        *)
(* drives: the writer, the server and the reader.                          *)
Engine ==
    /\ \/ C!WriterWake \/ C!WriterWritable \/ C!ServerBatch
       \/ C!ReaderReadable \/ C!ReaderGetResult \/ C!ReaderDrained
    /\ UNCHANGED <<mainPc, first, exit, hvars>>

RunCancelled ==
    /\ first = "example" /\ wpc # "done" /\ C!ExecutorFree
    /\ wpc' = "done" /\ rpc' = "done"
    /\ UNCHANGED <<opPc, opKind, opSize, opWoken, opRet, hStatus, hDummy,
                   slots, handlers, outBuf, toServer, toClient, inBuf,
                   cvFired, destroyed, sendFailures, runFailures>>
    /\ UNCHANGED <<mainPc, first, exit, hvars>>

(* || cancels run_exmaple once async_run completed: the exec's wait on its *)
(* handler completes.                                                      *)
ExampleCancelled ==
    /\ first = "run"
    /\ C!CancelExec(Exec)
    /\ UNCHANGED <<mainPc, first, exit, hvars>>

(* The parallel group completes once both branches have.                   *)
BothCompleted == opPc[Exec] = "done" /\ wpc = "done" /\ rpc = "done"

(* The || resumes async_main: it rethrows the exception of the branch that *)
(* completed first, or returns; async_main then leaves its scope.          *)
MainExit ==
    /\ mainPc = "run" /\ BothCompleted
    /\ ExitWith(first = "run" \/ opRet[Exec] # "ok")
    /\ UNCHANGED <<first, hvars>>

Init ==
    /\ mainPc = "connect" /\ first = "none" /\ exit = "none"
    /\ H!Init
    /\ C!Init

Next ==
    \/ Connect \/ ConnectReturned
    \/ ExampleExec \/ ExampleResume \/ ExampleCancelled
    \/ RunFails \/ RunCancelled \/ Engine
    \/ MainExit

(* The executor runs every ready coroutine and the server answers; the    *)
(* handshake's socket becomes ready while the server takes part.           *)
Fairness ==
    /\ WF_vars(Connect) /\ WF_vars(ConnectReturned)
    /\ WF_vars(ExampleExec) /\ WF_vars(ExampleResume) /\ WF_vars(ExampleCancelled)
    /\ WF_vars(RunCancelled) /\ WF_vars(MainExit)
    /\ WF_vars(C!WriterWake /\ UNCHANGED <<mainPc, first, exit, hvars>>)
    /\ WF_vars(C!WriterWritable /\ UNCHANGED <<mainPc, first, exit, hvars>>)
    /\ WF_vars(C!ServerBatch /\ UNCHANGED <<mainPc, first, exit, hvars>>)
    /\ WF_vars(C!ReaderReadable /\ UNCHANGED <<mainPc, first, exit, hvars>>)
    /\ WF_vars(C!ReaderGetResult /\ UNCHANGED <<mainPc, first, exit, hvars>>)
    /\ WF_vars(C!ReaderDrained /\ UNCHANGED <<mainPc, first, exit, hvars>>)

Spec == Init /\ [][Next]_vars /\ Fairness

-----------------------------------------------------------------------------
(* The program's state, and Connection's for its one exec.                 *)
TypeOK ==
    /\ mainPc \in {"connect", "run", "done"}
    /\ first \in {"none", "run", "example"}
    /\ exit \in {"none", "ok", "reported", "terminated"}
    /\ C!TypeOK

ExampleReportsErrors == exit # "terminated"

=============================================================================
