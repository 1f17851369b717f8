----------------------------- MODULE Connection -----------------------------
(***************************************************************************)
(* The I/O engine of asiofiedpq::connection (connection.hpp): async_query  *)
(* and async_exec_pipeline submitting commands into libpq's send buffer,   *)
(* the FIFO result_handlers_, the writer and reader halves of async_run,   *)
(* cancellation of an exec, a failing run and the destructor.              *)
(*                                                                         *)
(* All coroutines of one connection run on one executor.  Code between two *)
(* co_awaits is one atomic step; the reader's drain loop (lines 360-384)   *)
(* never suspends, so it is modelled one result per step with every other  *)
(* executor step disabled until it ends (ExecutorFree).  The server, the   *)
(* sockets and libpq's buffers are the environment.                        *)
(***************************************************************************)
EXTENDS Naturals, Sequences, SequencesExt

CONSTANTS
    Ops,              \* the exec operations an application starts, one each
    PipelineSizes,    \* the numbers of queries a pipeline exec may carry
    MaxSendFailures,  \* bound on PQsendQueryParams/PQpipelineSync failures
    MaxRunFailures,   \* bound on I/O errors ending async_run
    RunStartsLate     \* async_run may be initiated after the first exec

ASSUME /\ PipelineSizes \subseteq Nat
       /\ MaxSendFailures \in Nat
       /\ MaxRunFailures \in Nat
       /\ RunStartsLate \in BOOLEAN

VARIABLES
    opPc,       \* [Ops -> ...] where the exec coroutine is
    opKind,     \* [Ops -> ...] single query (async_query) or pipeline
    opSize,     \* [Ops -> Nat] last_ - first_ of the caller's range
    opWoken,    \* [Ops -> BOOLEAN] the handler's cv_ wait has completed
    opRet,      \* [Ops -> ...] error code the exec completed with
    hStatus,    \* [Ops -> ...] result_handler::status_
    hDummy,     \* [Ops -> Nat] pipeline_result_handler::n_dummy_
    slots,      \* [Ops -> Seq(Msg)] results the handler wrote (first_ advance)
    handlers,   \* result_handlers_, a queue of Ops
    outBuf,     \* libpq's send buffer
    toServer,   \* bytes flushed to the socket, not yet processed by the server
    toClient,   \* results sent by the server, not yet read by PQconsumeInput
    inBuf,      \* results read into libpq, available to PQgetResult
    wpc,        \* writer half: "not_started", "wait_cv", "wait_write", "done"
    cvFired,    \* write_cv_ wait has been cancelled (woken), not yet resumed
    rpc,        \* reader half: "not_started", "wait_read", "drain", "done"
                \* or "assert_failed"
    destroyed,  \* ~connection() has run
    sendFailures,
    runFailures

vars == <<opPc, opKind, opSize, opWoken, opRet, hStatus, hDummy, slots,
          handlers, outBuf, toServer, toClient, inBuf, wpc, cvFired, rpc,
          destroyed, sendFailures, runFailures>>

-----------------------------------------------------------------------------
(* Protocol messages.  A query result is identified by the query it        *)
(* answers; PGRES_PIPELINE_SYNC answers the pipelineSync of an exec.       *)

Query(o, i) == [type |-> "query", op |-> o, idx |-> i]
Sync(o)     == [type |-> "sync",  op |-> o, idx |-> 0]

Msg == {Query(o, i) : o \in Ops, i \in 0..Max(PipelineSizes \cup {1}) - 1}
       \cup {Sync(o) : o \in Ops}

(* Mutant: the queries of an exec numbered from 1.                          *)
QueriesFromOne(o, n) == [i \in 1..n |-> Query(o, i)]

(* The queries of exec o, in push order.                                   *)
Queries(o, n) == [i \in 1..n |-> Query(o, i - 1)]

RetCodes == {"none", "ok", "operation_aborted", "connection_failed",
             "pqsendqueryparams_failed", "pqpipelinesync_failed"}

TypeOK ==
    /\ opPc \in [Ops -> {"idle", "awaiting", "done"}]
    /\ opKind \in [Ops -> {"none", "single", "pipeline"}]
    /\ opSize \in [Ops -> Nat]
    /\ opWoken \in [Ops -> BOOLEAN]
    /\ opRet \in [Ops -> RetCodes]
    /\ hStatus \in [Ops -> {"none", "waiting", "completed", "cancelled"}]
    /\ hDummy \in [Ops -> Nat]
    /\ slots \in [Ops -> Seq(Msg)]
    /\ handlers \in Seq(Ops)
    /\ \A s \in {outBuf, toServer, toClient, inBuf} : s \in Seq(Msg)
    /\ wpc \in {"not_started", "wait_cv", "wait_write", "done"}
    /\ cvFired \in BOOLEAN
    /\ rpc \in {"not_started", "wait_read", "drain", "done", "assert_failed"}
    /\ destroyed \in BOOLEAN
    /\ sendFailures \in 0..MaxSendFailures
    /\ runFailures \in 0..MaxRunFailures

-----------------------------------------------------------------------------
(* The reader's drain loop does not suspend: no other coroutine of the     *)
(* executor runs while it is draining, nor after the assert aborted.       *)
ExecutorFree == rpc \notin {"drain", "assert_failed"}

(* Mutant: the exec forgets to notify the writer.                         *)
NotifyWriterLost ==
    UNCHANGED cvFired

(* write_cv_.cancel_one(): wakes the writer only if it is waiting on the   *)
(* timer; otherwise the notification is lost.                             *)
NotifyWriter ==
    cvFired' = (wpc = "wait_cv" \/ cvFired)

(* result_handler::complete() / cancel(): set status_, cv_.cancel_one().   *)
SetStatus(h, s) ==
    /\ hStatus' = [hStatus EXCEPT ![h] = s]
    /\ opWoken' = [opWoken EXCEPT ![h] = TRUE]

(* Results the handler still has to receive before it is complete.         *)
Remaining(h) ==
    IF hDummy[h] > 0 THEN hDummy[h] ELSE opSize[h] - Len(slots[h])

-----------------------------------------------------------------------------
(* Exec start: everything up to the co_await on the handler happens in one *)
(* step.  On success the commands and a sync are queued, the writer is     *)
(* notified and the handler is pushed.  A failing send returns early,      *)
(* leaving the commands already queued in libpq's buffer.  PQpipelineSync  *)
(* itself calls PQflush (libpq 14 and later), which on a non-blocking      *)
(* connection sends what the socket takes: any prefix of the buffer.       *)

StartExec(op, kind, n) ==
    /\ opPc' = [opPc EXCEPT ![op] = "awaiting"]
    /\ opKind' = [opKind EXCEPT ![op] = kind]
    /\ opSize' = [opSize EXCEPT ![op] = n]
    /\ hStatus' = [hStatus EXCEPT ![op] = "waiting"]
    /\ LET queued == outBuf \o Queries(op, n) \o <<Sync(op)>>
       IN  \E k \in 0..Len(queued) :
              /\ toServer' = toServer \o SubSeq(queued, 1, k)
              /\ outBuf' = SubSeq(queued, k + 1, Len(queued))
    /\ NotifyWriter
    /\ handlers' = Append(handlers, op)
    /\ UNCHANGED <<opWoken, opRet, hDummy, slots, toClient, inBuf,
                   wpc, rpc, destroyed, sendFailures, runFailures>>

(* k commands were queued before PQsendQueryParams failed (k < n), or all  *)
(* n were and PQpipelineSync failed (k = n).                               *)
FailExec(op, kind, n, k) ==
    /\ sendFailures < MaxSendFailures
    /\ sendFailures' = sendFailures + 1
    /\ opPc' = [opPc EXCEPT ![op] = "done"]
    /\ opKind' = [opKind EXCEPT ![op] = kind]
    /\ opSize' = [opSize EXCEPT ![op] = n]
    /\ opRet' = [opRet EXCEPT ![op] = IF k < n THEN "pqsendqueryparams_failed"
                                               ELSE "pqpipelinesync_failed"]
    /\ outBuf' = outBuf \o Queries(op, k)
    /\ UNCHANGED <<opWoken, hStatus, hDummy, slots, handlers, toServer,
                   toClient, inBuf, wpc, cvFired, rpc, destroyed, runFailures>>

ExecQuery(op) ==
    /\ opPc[op] = "idle" /\ ~destroyed /\ ExecutorFree
    /\ \/ StartExec(op, "single", 1)
       \/ \E k \in 0..1 : FailExec(op, "single", 1, k)

ExecPipeline(op) ==
    /\ opPc[op] = "idle" /\ ~destroyed /\ ExecutorFree
    /\ \E n \in PipelineSizes :
          \/ StartExec(op, "pipeline", n)
          \/ \E k \in 0..n : FailExec(op, "pipeline", n, k)

(* The application cancels the exec while it waits on its handler: the    *)
(* per-operation cancellation completes the cv_ wait.                      *)
CancelExec(op) ==
    /\ opPc[op] = "awaiting" /\ ~opWoken[op] /\ ExecutorFree
    /\ opWoken' = [opWoken EXCEPT ![op] = TRUE]
    /\ UNCHANGED <<opPc, opKind, opSize, opRet, hStatus, hDummy, slots,
                   handlers, outBuf, toServer, toClient, inBuf, wpc, cvFired,
                   rpc, destroyed, sendFailures, runFailures>>

(* Mutants of dumify(): distance(last_, first_), one result short, and no *)
(* dummy mode at all.                                                      *)
DumifySwapped(op) == Len(slots[op]) - opSize[op]
DumifyShort(op) == opSize[op] - Len(slots[op]) - 1
DumifyNone(op) == 0

(* size_t's modulus 2^64, scaled down to TLC's integers: a negative        *)
(* distance stored in n_dummy_ wraps to a count larger than any run's.     *)
SizeTModulus == 2^30

(* pipeline_result_handler::dumify(): n_dummy_ = distance(first_, last_),  *)
(* converted to size_t.                                                    *)
Dumify(op) == (opSize[op] - Len(slots[op])) % SizeTModulus

(* Mutant: the status_ == waiting early return is dropped.                 *)
ExecOutcomeNoWaitCheck(op) ==
    IF hStatus[op] = "cancelled" THEN "connection_failed" ELSE "ok"

(* The error code chosen after the cv_ wait resumes.                       *)
ExecOutcome(op) ==
    IF hStatus[op] = "waiting" THEN "operation_aborted"
    ELSE IF hStatus[op] = "cancelled" THEN "connection_failed"
    ELSE "ok"

(* The exec resumes after its cv_ wait.  A pipeline still waiting swallows *)
(* its remaining results from now on.                                      *)
ResumeExec(op) ==
    /\ opPc[op] = "awaiting" /\ opWoken[op] /\ ExecutorFree
    /\ opPc' = [opPc EXCEPT ![op] = "done"]
    /\ opRet' = [opRet EXCEPT ![op] = ExecOutcome(op)]
    /\ hDummy' = IF opKind[op] = "pipeline" /\ hStatus[op] = "waiting"
                 THEN [hDummy EXCEPT ![op] = Dumify(op)]
                 ELSE hDummy
    /\ UNCHANGED <<opKind, opSize, opWoken, hStatus, slots, handlers, outBuf,
                   toServer, toClient, inBuf, wpc, cvFired, rpc, destroyed,
                   sendFailures, runFailures>>

-----------------------------------------------------------------------------
(* The application initiates async_run: the parallel group starts the      *)
(* writer, which suspends on write_cv_, then the reader, whose first drain *)
(* loop runs before its first socket wait.                                 *)
StartRun ==
    /\ wpc = "not_started" /\ ExecutorFree
    /\ wpc' = "wait_cv" /\ rpc' = "drain"
    /\ UNCHANGED <<opPc, opKind, opSize, opWoken, opRet, hStatus, hDummy,
                   slots, handlers, outBuf, toServer, toClient, inBuf,
                   cvFired, destroyed, sendFailures, runFailures>>

(* Writer half: wait on write_cv_, then PQflush until the buffer is empty, *)
(* waiting for the socket to become writable whenever some bytes remain.   *)

Flush ==
    \/ /\ outBuf = <<>>
       /\ wpc' = "wait_cv"
       /\ UNCHANGED <<outBuf, toServer>>
    \/ \E k \in 1..Len(outBuf) :
          /\ toServer' = toServer \o SubSeq(outBuf, 1, k)
          /\ outBuf' = SubSeq(outBuf, k + 1, Len(outBuf))
          /\ wpc' = IF k = Len(outBuf) THEN "wait_cv" ELSE "wait_write"

WriterWake ==
    /\ wpc = "wait_cv" /\ cvFired /\ ExecutorFree
    /\ cvFired' = FALSE
    /\ Flush
    /\ UNCHANGED <<opPc, opKind, opSize, opWoken, opRet, hStatus, hDummy,
                   slots, handlers, toClient, inBuf, rpc, destroyed,
                   sendFailures, runFailures>>

WriterWritable ==
    /\ wpc = "wait_write" /\ ExecutorFree
    /\ Flush
    /\ UNCHANGED <<opPc, opKind, opSize, opWoken, opRet, hStatus, hDummy,
                   slots, handlers, cvFired, toClient, inBuf, rpc, destroyed,
                   sendFailures, runFailures>>

(* The server (environment): it answers every command in order and sends   *)
(* the answers of a batch when it reaches the batch's Sync.                *)
ServerBatch ==
    \E k \in 1..Len(toServer) :
       /\ toServer[k].type = "sync"
       /\ \A j \in 1..k - 1 : toServer[j].type = "query"
       /\ toClient' = toClient \o SubSeq(toServer, 1, k)
       /\ toServer' = SubSeq(toServer, k + 1, Len(toServer))
       /\ UNCHANGED <<opPc, opKind, opSize, opWoken, opRet, hStatus, hDummy,
                      slots, handlers, outBuf, inBuf, wpc, cvFired, rpc,
                      destroyed, sendFailures, runFailures>>

-----------------------------------------------------------------------------
(* Reader half.  The socket became readable: PQconsumeInput reads what has *)
(* arrived (possibly only part of it) and the drain loop starts.           *)
ReaderReadable ==
    /\ rpc = "wait_read" /\ ExecutorFree
    /\ \E k \in 1..Len(toClient) :
          /\ inBuf' = inBuf \o SubSeq(toClient, 1, k)
          /\ toClient' = SubSeq(toClient, k + 1, Len(toClient))
    /\ rpc' = "drain"
    /\ UNCHANGED <<opPc, opKind, opSize, opWoken, opRet, hStatus, hDummy,
                   slots, handlers, outBuf, toServer, wpc, cvFired, destroyed,
                   sendFailures, runFailures>>

(* Mutant: sync markers are forwarded like any other result.              *)
SkipsResultNone(m) == FALSE

(* PGRES_PIPELINE_SYNC results are not forwarded to any handler.           *)
SkipsResult(m) == m.type = "sync"

(* single_query_result_handler::handle: store the result and complete.     *)
HandleSingle(h, m) ==
    /\ slots' = [slots EXCEPT ![h] = <<m>>]
    /\ SetStatus(h, "completed")
    /\ UNCHANGED hDummy

(* pipeline_result_handler::handle in dummy mode: swallow the result.      *)
SwallowResult(h) ==
    /\ hDummy[h] > 0
    /\ hDummy' = [hDummy EXCEPT ![h] = @ - 1]
    /\ IF hDummy[h] = 1 THEN SetStatus(h, "completed")
                        ELSE UNCHANGED <<hStatus, opWoken>>
    /\ UNCHANGED slots

(* pipeline_result_handler::handle: *first_++ = result; complete at last_. *)
StoreResult(h, m) ==
    /\ hDummy[h] = 0
    /\ slots' = [slots EXCEPT ![h] = Append(@, m)]
    /\ IF Len(slots[h]) + 1 = opSize[h] THEN SetStatus(h, "completed")
                                        ELSE UNCHANGED <<hStatus, opWoken>>
    /\ UNCHANGED hDummy

HandleResult(h, m) ==
    /\ IF opKind[h] = "single" THEN HandleSingle(h, m)
       ELSE SwallowResult(h) \/ StoreResult(h, m)
    /\ handlers' = IF hStatus'[h] = "completed" THEN Tail(handlers)
                                                ELSE handlers

(* One iteration of the drain loop: PQgetResult returned a result.         *)
ReaderGetResult ==
    /\ rpc = "drain" /\ inBuf # <<>>
    /\ inBuf' = Tail(inBuf)
    /\ \/ /\ SkipsResult(Head(inBuf))
          /\ UNCHANGED <<hStatus, opWoken, hDummy, slots, handlers, rpc>>
       \/ /\ ~SkipsResult(Head(inBuf)) /\ handlers # <<>>
          /\ HandleResult(Head(handlers), Head(inBuf))
          /\ UNCHANGED rpc
       \/ /\ ~SkipsResult(Head(inBuf)) /\ handlers = <<>>
          /\ rpc' = "assert_failed"
          /\ UNCHANGED <<hStatus, opWoken, hDummy, slots, handlers>>
    /\ UNCHANGED <<opPc, opKind, opSize, opRet, outBuf, toServer, toClient,
                   wpc, cvFired, destroyed, sendFailures, runFailures>>

(* PQgetResult returned null twice: wait for the socket again.             *)
ReaderDrained ==
    /\ rpc = "drain" /\ inBuf = <<>>
    /\ rpc' = "wait_read"
    /\ UNCHANGED <<opPc, opKind, opSize, opWoken, opRet, hStatus, hDummy,
                   slots, handlers, outBuf, toServer, toClient, inBuf, wpc,
                   cvFired, destroyed, sendFailures, runFailures>>

-----------------------------------------------------------------------------
(* A socket wait of either half fails (or PQconsumeInput fails): that half *)
(* returns its error, the parallel group cancels the other one and         *)
(* async_run completes.  The handlers are left as they are.                *)
RunFails ==
    /\ runFailures < MaxRunFailures /\ wpc # "done" /\ ExecutorFree
    /\ rpc = "wait_read"
    /\ runFailures' = runFailures + 1
    /\ wpc' = "done"
    /\ rpc' = "done"
    /\ UNCHANGED <<opPc, opKind, opSize, opWoken, opRet, hStatus, hDummy,
                   slots, handlers, outBuf, toServer, toClient, inBuf,
                   cvFired, destroyed, sendFailures>>

(* Mutant: cancel() sets status_ but does not signal cv_.                 *)
CancelHandlersNoSignal(hs) ==
    /\ hStatus' = [h \in Ops |-> IF h \in hs THEN "cancelled" ELSE hStatus[h]]
    /\ UNCHANGED opWoken

(* The destructor's loop: front()->cancel(), pop(), until the queue is     *)
(* empty.                                                                  *)
CancelHandlers(hs) ==
    /\ hStatus' = [h \in Ops |-> IF h \in hs THEN "cancelled" ELSE hStatus[h]]
    /\ opWoken' = [h \in Ops |-> h \in hs \/ opWoken[h]]

(* ~connection(): every queued handler is cancelled and popped.           *)
Destructor ==
    /\ ~destroyed
    /\ destroyed' = TRUE
    /\ CancelHandlers(ToSet(handlers))
    /\ handlers' = <<>>
    /\ UNCHANGED <<opPc, opKind, opSize, opRet, hDummy, slots, outBuf,
                   toServer, toClient, inBuf, wpc, cvFired, rpc, sendFailures,
                   runFailures>>

(* The application destroys the connection once async_run has returned.    *)
Destroy ==
    /\ wpc = "done" /\ rpc = "done"
    /\ Destructor

-----------------------------------------------------------------------------
Init ==
    /\ opPc = [o \in Ops |-> "idle"]
    /\ opKind = [o \in Ops |-> "none"]
    /\ opSize = [o \in Ops |-> 0]
    /\ opWoken = [o \in Ops |-> FALSE]
    /\ opRet = [o \in Ops |-> "none"]
    /\ hStatus = [o \in Ops |-> "none"]
    /\ hDummy = [o \in Ops |-> 0]
    /\ slots = [o \in Ops |-> <<>>]
    /\ handlers = <<>>
    /\ outBuf = <<>> /\ toServer = <<>> /\ toClient = <<>> /\ inBuf = <<>>
    /\ wpc = IF RunStartsLate THEN "not_started" ELSE "wait_cv"
    /\ cvFired = FALSE
    /\ rpc = IF RunStartsLate THEN "not_started" ELSE "wait_read"
    /\ destroyed = FALSE
    /\ sendFailures = 0 /\ runFailures = 0

Next ==
    \/ \E op \in Ops : ExecQuery(op) \/ ExecPipeline(op)
    \/ \E op \in Ops : CancelExec(op) \/ ResumeExec(op)
    \/ StartRun \/ WriterWake \/ WriterWritable \/ ServerBatch
    \/ ReaderReadable \/ ReaderGetResult \/ ReaderDrained
    \/ RunFails \/ Destroy

(* The run loop, the server and the executor's resumption of a woken exec  *)
(* keep going, and an application that starts execs before async_run does *)
(* start it (main.cpp runs it alongside the application); the application's *)
(* calls, cancellations, failures and the destructor need not happen.     *)
Fairness ==
    /\ WF_vars(StartRun) /\ WF_vars(WriterWake) /\ WF_vars(WriterWritable) /\ WF_vars(ServerBatch)
    /\ WF_vars(ReaderReadable) /\ WF_vars(ReaderGetResult)
    /\ WF_vars(ReaderDrained)
    /\ \A op \in Ops : WF_vars(ResumeExec(op))

Spec == Init /\ [][Next]_vars /\ Fairness

(* Used where the application destroys the connection once async_run has  *)
(* returned, as the example's async_main does when leaving its scope.      *)
SpecWithTeardown == Spec /\ WF_vars(Destroy)

-----------------------------------------------------------------------------
(* Properties.                                                             *)

(* The query results still to come, oldest first, and the owners the       *)
(* handler queue expects them for: each queued handler once per result it *)
(* still has to receive (n_dummy_ in dummy mode, last_ - first_ else).     *)
ResultsInFlight ==
    LET qs == SelectSeq(inBuf \o toClient \o toServer \o outBuf,
                        LAMBDA m : m.type = "query")
    IN  [i \in DOMAIN qs |-> qs[i].op]

ResultsExpected ==
    FlattenSeq([i \in DOMAIN handlers |->
                   [j \in 1..Remaining(handlers[i]) |-> handlers[i]]])

(* Queue position matches wire order (spec 4.D): while the connection     *)
(* lives, result_handlers_, each handler repeated for the results it still *)
(* needs, is exactly the sequence of owners of the query results in        *)
(* flight, and no queued handler expects nothing.  Cancellation (dumify)   *)
(* must keep this, the reader's sync skipping must keep it.                *)
QueueMatchesWire ==
    ~destroyed =>
        /\ ResultsInFlight = ResultsExpected
        /\ \A i \in DOMAIN handlers : Remaining(handlers[i]) > 0

(* Every result the reader hands to a handler and that the handler stores  *)
(* (in the caller's pipelined_query range or in its own result_) is the    *)
(* answer to that exec's own query, in push order.                         *)
ResultsRoutedToOwner ==
    \A o \in Ops : \A i \in 1..Len(slots[o]) : slots[o][i] = Query(o, i - 1)

(* An exec that completes without error has received the results of all   *)
(* its queries: a pipeline's whole range is filled, in order, and never    *)
(* only part of it (no partial results of a cancelled pipeline surface).   *)
ExecReturnsOwnResults ==
    \A o \in Ops : opRet[o] = "ok" => slots[o] = Queries(o, opSize[o])

(* Once async_exec_pipeline has returned, the caller's range may be gone:  *)
(* no step writes into it any more (the handler was switched to dummy      *)
(* mode by dumify() before the coroutine returned).                        *)
NoWriteAfterReturn ==
    [][\A o \in Ops :
          opPc[o] = "done" /\ opKind[o] = "pipeline" => slots'[o] = slots[o]
      ]_vars

(* Every exec that is waiting for its results eventually completes, with   *)
(* its results, operation_aborted or connection_failed.                    *)
ExecEventuallyReturns ==
    \A o \in Ops : opPc[o] = "awaiting" ~> opPc[o] = "done"

(* An exec whose handler is queued while async_run is running eventually   *)
(* returns, also when async_run then ends on an I/O error: spec 4.E.4 and 5 *)
(* have the end of the run loop fail every pending operation with          *)
(* connection_failed.  Execs started after async_run has ended are not     *)
(* asked about.                                                            *)
QueuedExecReturns ==
    \A o \in Ops : (opPc[o] = "awaiting" /\ rpc \notin {"not_started", "done"})
                     ~> opPc[o] = "done"

-----------------------------------------------------------------------------
(* Refinement: the handler queue and the handlers' state, seen without the *)
(* buffers, the writer, the server and the reader, are ExecService's       *)
(* registrations; a handler owes the results it has yet to receive.        *)
Svc == INSTANCE ExecService WITH
           pc     <- [o \in Ops |-> IF opPc[o] = "awaiting" THEN "waiting" ELSE opPc[o]],
           kind   <- opKind,
           ret    <- opRet,
           status <- hStatus,
           woken  <- opWoken,
           owed   <- [o \in Ops |-> IF o \in ToSet(handlers) THEN Remaining(o) ELSE 0],
           got    <- slots,
           queue  <- handlers,
           closed <- destroyed

(* The engine implements ExecService: every reader step that hands a       *)
(* result to a handler gives the oldest registration its own next answer   *)
(* (or, after a pipeline returned, swallows it), every exec returns what   *)
(* its handler's status says, and (liveness) results keep being handed out *)
(* while any are owed, through the writer's flushes, the server and the    *)
(* reader's drain loop.                                                    *)
ImplementsExecService == Svc!Spec

=============================================================================
