---------------------------- MODULE ExecService ----------------------------
(***************************************************************************)
(* What a connection promises to the execs started on it (spec 4.D, 4.E.2, *)
(* 4.E.3, 5), with no buffers, sockets or run loop: an exec registers for  *)
(* the results of its queries in submission order; the answers are handed  *)
(* out one at a time to the oldest registration that still owes any, each  *)
(* being that exec's own next answer; a pipeline that has returned         *)
(* swallows the answers it still owes; teardown cancels every              *)
(* registration.  Connection implements this (ImplementsExecService).     *)
(***************************************************************************)
EXTENDS Naturals, Sequences, SequencesExt

CONSTANTS Ops, PipelineSizes

VARIABLES
    pc,       \* [Ops -> {"idle", "waiting", "done"}]
    kind,     \* [Ops -> {"none", "single", "pipeline"}]
    ret,      \* [Ops -> error code the exec completed with]
    status,   \* [Ops -> {"none", "waiting", "completed", "cancelled"}]
    woken,    \* [Ops -> BOOLEAN] the exec's wait has been ended
    owed,     \* [Ops -> Nat] answers still to be handed to the exec
    got,      \* [Ops -> Seq] answers stored where the exec keeps them
    queue,    \* registrations owed answers, in submission order
    closed    \* the connection has been torn down

vars == <<pc, kind, ret, status, woken, owed, got, queue, closed>>

(* The i-th answer (from 0) to exec o's queries.                           *)
Answer(o, i) == [type |-> "query", op |-> o, idx |-> i]

SendFailures == {"pqsendqueryparams_failed", "pqpipelinesync_failed"}

Init ==
    /\ pc = [o \in Ops |-> "idle"] /\ kind = [o \in Ops |-> "none"]
    /\ ret = [o \in Ops |-> "none"] /\ status = [o \in Ops |-> "none"]
    /\ woken = [o \in Ops |-> FALSE] /\ owed = [o \in Ops |-> 0]
    /\ got = [o \in Ops |-> <<>>] /\ queue = <<>> /\ closed = FALSE

(* An exec registers for the n answers of its queries; with none to wait  *)
(* for (an empty pipeline) it is complete at once.                         *)
Submit(o, k, n) ==
    /\ pc[o] = "idle" /\ ~closed
    /\ pc' = [pc EXCEPT ![o] = "waiting"]
    /\ kind' = [kind EXCEPT ![o] = k]
    /\ owed' = [owed EXCEPT ![o] = n]
    /\ \/ /\ n > 0
          /\ status' = [status EXCEPT ![o] = "waiting"]
          /\ queue' = Append(queue, o)
          /\ UNCHANGED woken
       \/ /\ n = 0
          /\ status' = [status EXCEPT ![o] = "completed"]
          /\ woken' = [woken EXCEPT ![o] = TRUE]
          /\ UNCHANGED queue
    /\ UNCHANGED <<ret, got, closed>>

(* An exec whose commands could not be submitted returns at once, having   *)
(* registered for nothing.                                                 *)
SubmitFails(o, k) ==
    /\ pc[o] = "idle" /\ ~closed
    /\ pc' = [pc EXCEPT ![o] = "done"]
    /\ kind' = [kind EXCEPT ![o] = k]
    /\ \E e \in SendFailures : ret' = [ret EXCEPT ![o] = e]
    /\ UNCHANGED <<status, woken, owed, got, queue, closed>>

(* The next answer goes to the oldest registration.  A single query keeps  *)
(* it in its handler; a waiting pipeline stores it in its range; one that  *)
(* has returned swallows it.  The last one owed completes the exec.        *)
Deliver ==
    /\ queue # <<>>
    /\ LET o == Head(queue)
           done == owed[o] = 1
       IN  /\ owed' = [owed EXCEPT ![o] = @ - 1]
           /\ got' = CASE kind[o] = "single"  -> [got EXCEPT ![o] = <<Answer(o, 0)>>]
                       [] pc[o] = "waiting"   -> [got EXCEPT ![o] = Append(@, Answer(o, Len(@)))]
                       [] OTHER               -> got
           /\ status' = IF done THEN [status EXCEPT ![o] = "completed"] ELSE status
           /\ woken' = IF done THEN [woken EXCEPT ![o] = TRUE] ELSE woken
           /\ queue' = IF done THEN Tail(queue) ELSE queue
    /\ UNCHANGED <<pc, kind, ret, closed>>

(* The application cancels a waiting exec.                                 *)
Cancel(o) ==
    /\ pc[o] = "waiting" /\ ~woken[o]
    /\ woken' = [woken EXCEPT ![o] = TRUE]
    /\ UNCHANGED <<pc, kind, ret, status, owed, got, queue, closed>>

(* The exec returns once its wait ended: ok with all its answers,          *)
(* connection_failed after teardown, operation_aborted if cancelled first. *)
Return(o) ==
    /\ pc[o] = "waiting" /\ woken[o]
    /\ pc' = [pc EXCEPT ![o] = "done"]
    /\ ret' = [ret EXCEPT ![o] = CASE status[o] = "completed" -> "ok"
                                   [] status[o] = "cancelled" -> "connection_failed"
                                   [] OTHER                   -> "operation_aborted"]
    /\ UNCHANGED <<kind, status, woken, owed, got, queue, closed>>

(* Teardown cancels every registration still owed answers; none of them   *)
(* is handed any more.                                                     *)
Teardown ==
    LET cancelled == ToSet(queue)
    IN  /\ ~closed
        /\ closed' = TRUE
        /\ status' = [o \in Ops |-> IF o \in cancelled THEN "cancelled" ELSE status[o]]
        /\ woken' = [o \in Ops |-> o \in cancelled \/ woken[o]]
        /\ owed' = [o \in Ops |-> IF o \in cancelled THEN 0 ELSE owed[o]]
        /\ queue' = <<>>
        /\ UNCHANGED <<pc, kind, ret, got>>

Next ==
    \/ \E o \in Ops :
          \/ Submit(o, "single", 1)
          \/ \E n \in PipelineSizes : Submit(o, "pipeline", n)
          \/ \E k \in {"single", "pipeline"} : SubmitFails(o, k)
          \/ Cancel(o) \/ Return(o)
    \/ Deliver \/ Teardown

(* Answers keep coming while any are owed, and a woken exec resumes.       *)
Spec == Init /\ [][Next]_vars /\ WF_vars(Deliver) /\ \A o \in Ops : WF_vars(Return(o))

=============================================================================
