----------------------------- MODULE Handshake -----------------------------
(***************************************************************************)
(* connection::async_connect (connection.hpp 134-182): PQconnectStart,     *)
(* adopting libpq's socket into the asio socket, the status and            *)
(* non-blocking checks, the PQconnectPoll loop with its socket waits, and  *)
(* PQenterPipelineMode.  libpq and the server are the environment: a poll  *)
(* asks to wait for reading or writing, or ends the handshake; a failed    *)
(* session keeps reporting failure; while polling, libpq may give up on    *)
(* one server address and open a new socket for the next one.             *)
(***************************************************************************)
EXTENDS Naturals

CONSTANTS
    StartOutcomes,     \* what PQconnectStart/PQsetnonblocking may yield
    MaxPolls,          \* the handshake ends after at most this many polls
    SocketMayChange,   \* libpq may move to a new socket (next address)
    MaxWaitErrors      \* bound on socket waits completing with an error

ASSUME /\ StartOutcomes \subseteq {"ok", "bad", "nonblocking_failed"}
       /\ MaxPolls \in Nat \ {0}
       /\ SocketMayChange \in BOOLEAN /\ MaxWaitErrors \in Nat

VARIABLES
    hpc,          \* "start", "polling", "wait_read", "wait_write", "done"
    ret,          \* the error code async_connect completes with
    sessBad,      \* PQstatus was CONNECTION_BAD after PQconnectStart
    sessFailed,   \* PQconnectPoll has returned PGRES_POLLING_FAILED
    polls,        \* PQconnectPoll calls made
    stale,        \* libpq's socket is no longer the one socket_ adopted
    waitErrors

vars == <<hpc, ret, sessBad, sessFailed, polls, stale, waitErrors>>

-----------------------------------------------------------------------------
(* Start: PQconnectStart, socket_.assign(PQsocket), then the checks.  A    *)
(* CONNECTION_BAD session has no socket (PQsocket is -1), so assigning it  *)
(* fails before the status is looked at, and assign throws.               *)
Start ==
    /\ hpc = "start"
    /\ \E o \in StartOutcomes :
          /\ sessBad' = (o = "bad")
          /\ CASE o = "bad" -> hpc' = "done" /\ ret' = "assign_exception"
               [] o = "nonblocking_failed" ->
                     hpc' = "done" /\ ret' = "pqsetnonblocking_failed"
               [] o = "ok" -> hpc' = "polling" /\ UNCHANGED ret
    /\ UNCHANGED <<sessFailed, polls, stale, waitErrors>>

(* What PQconnectPoll may return: once failed it stays failed, and the     *)
(* last poll of the bound ends the handshake.                              *)
PollResults ==
    IF sessFailed THEN {"failed"}
    ELSE IF polls + 1 >= MaxPolls THEN {"ok", "failed"}
    ELSE {"reading", "writing", "ok", "failed"}

(* Where the loop goes after PQconnectPoll returned r.                     *)
PollStep(r) ==
    CASE r = "reading" -> "wait_read"
      [] r = "writing" -> "wait_write"
      [] r = "failed"  -> "done"
      [] r = "ok"      -> "done"

(* One iteration of the for (;;) loop up to its wait; on PGRES_POLLING_OK  *)
(* the loop is left and PQenterPipelineMode decides the outcome.  While    *)
(* polling, libpq may close its socket and connect a new one.              *)
Poll ==
    /\ hpc = "polling"
    /\ \E r \in PollResults :
          /\ sessFailed' = (sessFailed \/ r = "failed")
          /\ polls' = IF polls < MaxPolls THEN polls + 1 ELSE polls
          /\ \/ /\ r \in {"reading", "writing"}
                /\ hpc' = PollStep(r)
                /\ UNCHANGED ret
                /\ \/ UNCHANGED stale
                   \/ SocketMayChange /\ stale' = TRUE
             \/ /\ r = "failed"
                /\ hpc' = PollStep(r)
                /\ ret' = IF hpc' = "done" THEN "connection_failed" ELSE ret
                /\ UNCHANGED stale
             \/ /\ r = "ok"
                /\ hpc' = PollStep(r)
                /\ \E entered \in BOOLEAN :
                      ret' = IF entered THEN "ok"
                             ELSE "pqenterpipelinemode_failed"
                /\ UNCHANGED stale
    /\ UNCHANGED <<sessBad, waitErrors>>

(* socket_.async_wait completes: the adopted socket is ready.  A socket    *)
(* libpq has closed is no longer registered with the reactor and never     *)
(* becomes ready for reading.                                              *)
SocketReady ==
    /\ hpc \in {"wait_read", "wait_write"} /\ ~stale
    /\ hpc' = "polling"
    /\ UNCHANGED <<ret, sessBad, sessFailed, polls, stale, waitErrors>>

(* The wait completes with an error code and async_connect returns it: a   *)
(* socket error, or, on a descriptor libpq has closed, the reactor failing *)
(* to add it for writing.                                                  *)
WaitFails ==
    /\ hpc \in {"wait_read", "wait_write"} /\ waitErrors < MaxWaitErrors
    /\ waitErrors' = waitErrors + 1
    /\ hpc' = "done" /\ ret' = "io_error"
    /\ UNCHANGED <<sessBad, sessFailed, polls, stale>>

(* The application cancels async_connect during a socket wait.            *)
CancelConnect ==
    /\ hpc \in {"wait_read", "wait_write"}
    /\ hpc' = "done" /\ ret' = "operation_aborted"
    /\ UNCHANGED <<sessBad, sessFailed, polls, stale, waitErrors>>

Init ==
    /\ hpc = "start" /\ ret = "none"
    /\ sessBad = FALSE /\ sessFailed = FALSE
    /\ polls = 0 /\ stale = FALSE /\ waitErrors = 0

Next == Start \/ Poll \/ SocketReady \/ WaitFails \/ CancelConnect

(* The executor runs the coroutine whenever it is ready; the socket        *)
(* becomes ready while the server takes part in the handshake.             *)
Spec == Init /\ [][Next]_vars /\ WF_vars(Start) /\ WF_vars(Poll)
                             /\ WF_vars(SocketReady)

-----------------------------------------------------------------------------
=============================================================================
