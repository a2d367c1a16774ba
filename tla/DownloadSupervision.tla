-------------------------- MODULE DownloadSupervision --------------------------
(***************************************************************************)
(* supervise_inner of the Rust downloader: it spawns one child, polls it   *)
(* and the cancellation token, and completes the lifecycle.  A reader      *)
(* thread turns the child's standard error into progress records and       *)
(* offers them to a bounded queue that the supervisor drains.  A           *)
(* descendant of the child may hold the pipe after the child is gone.      *)
(*                                                                         *)
(* A progress record is its number in the order of writing; lines that are *)
(* no valid record are left out, and so are the intervals of the polls.    *)
(* Every system call that may fail does so while faults remain.            *)
(***************************************************************************)
EXTENDS Naturals, Sequences

CONSTANTS
  PipeCapacity,    \* records the pipe and the reader's chunk hold
  QueueCapacity,   \* PROGRESS_QUEUE_CAPACITY
  MaxOut,          \* bound: records the child and its descendant write
  MaxCalls,        \* bound: calls of supervise with the same lifecycle
  MaxFaults        \* bound: failing system calls

ASSUME SupervisionAssumption ==
  /\ PipeCapacity \in Nat \ {0} /\ QueueCapacity \in Nat \ {0}
  /\ MaxOut \in Nat /\ MaxCalls \in Nat /\ MaxFaults \in Nat

VARIABLES
  state,           \* ExecutionLifecycle.state
  events,          \* history: state changes and failures the sink received
  token,           \* CancellationToken
  capture,         \* capture_progress
  pc,              \* next statement of supervise_inner and finish_reader
  aim,             \* how the attempt is to be completed after finish_reader
  broken,          \* finish_reader is about to return an error
  child, reaped,   \* the direct child; wait has collected it
  heir,            \* a descendant that inherited standard error is alive
  reader,          \* the reader thread
  pipe, queue,     \* records between child and reader, reader and supervisor
  accepted,        \* history: records that entered the queue
  delivered,       \* history: records the sink received
  written, calls, faults

lifecycle == <<state, events>>
stream == <<pipe, queue, accepted, delivered, written>>
process == <<child, reaped, heir>>
vars == <<lifecycle, token, capture, pc, aim, broken, process, reader, stream,
          calls, faults>>

State == {"planned", "running", "cancelling", "succeeded", "failed", "cancelled"}
PC == {"idle", "enter", "spawn", "drain", "poll", "kill", "wait", "try",
       "finish", "last", "report"}
Record == 1..MaxOut

TypeOK ==
  /\ state \in State /\ events \in Seq(State \cup {"failure"})
  /\ token \in BOOLEAN /\ capture \in BOOLEAN
  /\ pc \in PC /\ aim \in {"succeeded", "process", "cancelled", "io"}
  /\ broken \in BOOLEAN
  /\ child \in {"none", "running", "ok", "bad"} /\ reaped \in BOOLEAN
  /\ heir \in BOOLEAN /\ reader \in {"none", "reading", "ok", "failed"}
  /\ pipe \in Seq(Record) /\ Len(pipe) <= PipeCapacity
  /\ queue \in Seq(Record) /\ Len(queue) <= QueueCapacity
  /\ accepted \in Seq(Record) /\ delivered \in Seq(Record)
  /\ written \in 0..MaxOut /\ calls \in 0..MaxCalls /\ faults \in 0..MaxFaults

Init ==
  /\ state = "planned" /\ events = <<>>
  /\ token \in BOOLEAN /\ capture \in BOOLEAN
  /\ pc = "idle" /\ aim = "succeeded" /\ broken = FALSE
  /\ child = "none" /\ reaped = FALSE /\ heir = FALSE /\ reader = "none"
  /\ pipe = <<>> /\ queue = <<>> /\ accepted = <<>> /\ delivered = <<>>
  /\ written = 0 /\ calls = 0 /\ faults = 0

\* A system call of this step fails.
Fails == faults < MaxFaults /\ faults' = faults + 1

(***************************************************************************)
(* ExecutionLifecycle: a transition that is not allowed changes nothing    *)
(* and emits nothing.                                                      *)
(***************************************************************************)
Allowed == {<<"planned", "running">>, <<"planned", "cancelled">>,
            <<"running", "cancelling">>, <<"running", "succeeded">>,
            <<"running", "failed">>, <<"cancelling", "cancelled">>,
            <<"cancelling", "failed">>}

Transition(next) ==
  IF <<state, next>> \in Allowed
    THEN state' = next /\ events' = Append(events, next)
    ELSE UNCHANGED lifecycle

\* Mutant: the failure is emitted before the transition is known to be legal.
FailUnchecked ==
  /\ state' = "failed"
  /\ events' = events \o <<"failure", "failed">>

Fail ==
  IF state \in {"running", "cancelling"}
    THEN state' = "failed" /\ events' = events \o <<"failure", "failed">>
    ELSE UNCHANGED lifecycle

-----------------------------------------------------------------------------
(* The call, up to the spawned child *)

Call ==
  /\ pc = "idle" /\ calls < MaxCalls /\ calls' = calls + 1
  /\ pc' = "enter"
  /\ UNCHANGED <<lifecycle, token, capture, aim, broken, process, reader, stream, faults>>

\* Mutant: a lifecycle that has left the planned state is taken again.
EnterAgain ==
  /\ pc = "enter"
  /\ IF token THEN Transition("cancelled") /\ pc' = "idle"
     ELSE UNCHANGED lifecycle /\ pc' = "spawn"
  /\ UNCHANGED <<token, capture, aim, broken, process, reader, stream, calls, faults>>

Enter ==
  /\ pc = "enter"
  /\ IF token THEN Transition("cancelled") /\ pc' = "idle"
     ELSE UNCHANGED lifecycle /\ pc' = IF state = "planned" THEN "spawn" ELSE "idle"
  /\ UNCHANGED <<token, capture, aim, broken, process, reader, stream, calls, faults>>

Spawn ==
  /\ pc = "spawn"
  /\ child' = "running" /\ reaped' = FALSE
  /\ reader' = IF capture THEN "reading" ELSE "none"
  /\ Transition("running")
  /\ pc' = "drain"
  /\ UNCHANGED <<token, capture, aim, broken, heir, stream, calls, faults>>

SpawnFails ==
  /\ pc = "spawn" /\ Fails /\ pc' = "idle"
  /\ UNCHANGED <<lifecycle, token, capture, aim, broken, process, reader, stream, calls>>

-----------------------------------------------------------------------------
(* The loop of supervise_inner *)

\* One turn of drain_progress; after cancellation the lifecycle refuses it.
DrainOne ==
  /\ pc \in {"drain", "finish", "last"} /\ queue # <<>>
  /\ queue' = Tail(queue)
  /\ delivered' = IF state = "running" THEN Append(delivered, Head(queue)) ELSE delivered
  /\ UNCHANGED <<lifecycle, token, capture, pc, aim, broken, process, reader, pipe,
                 accepted, written, calls, faults>>

Drained ==
  /\ pc = "drain" /\ queue = <<>> /\ pc' = "poll"
  /\ UNCHANGED <<lifecycle, token, capture, aim, broken, process, reader, stream,
                 calls, faults>>

Poll ==
  /\ pc = "poll"
  /\ IF token THEN Transition("cancelling") /\ pc' = "kill"
              ELSE UNCHANGED lifecycle /\ pc' = "try"
  /\ UNCHANGED <<token, capture, aim, broken, process, reader, stream, calls, faults>>

Killed == IF child = "running" THEN "bad" ELSE child

\* Child::kill; on an error the child is awaited all the same.
Kill ==
  /\ pc = "kill" /\ pc' = "wait"
  /\ \/ child' = Killed /\ aim' = "cancelled" /\ UNCHANGED faults
     \/ Fails /\ aim' = "io" /\ UNCHANGED child
  /\ UNCHANGED <<lifecycle, token, capture, broken, reaped, heir, reader, stream, calls>>

\* Mutant: the child is left to itself when it is cancelled.
WaitSkipped ==
  /\ pc = "wait" /\ pc' = "finish"
  /\ UNCHANGED <<lifecycle, token, capture, aim, broken, process, reader, stream,
                 calls, faults>>

\* Child::wait blocks until the child has exited.
Wait ==
  /\ pc = "wait" /\ pc' = "finish"
  /\ \/ child # "running" /\ reaped' = TRUE /\ UNCHANGED <<aim, faults>>
     \/ Fails /\ aim' = "io" /\ UNCHANGED reaped
  /\ UNCHANGED <<lifecycle, token, capture, broken, child, heir, reader, stream, calls>>

TryWait ==
  /\ pc = "try"
  /\ IF child = "running" THEN pc' = "drain" /\ UNCHANGED <<reaped, aim>>
     ELSE /\ pc' = "finish" /\ reaped' = TRUE
          /\ aim' = IF child = "ok" THEN "succeeded" ELSE "process"
  /\ UNCHANGED <<lifecycle, token, capture, broken, child, heir, reader, stream,
                 calls, faults>>

\* The kill that follows may fail as well; its error is ignored.
TryWaitFails ==
  /\ pc = "try"
  /\ \/ Fails /\ child' = Killed
     \/ faults + 1 < MaxFaults /\ faults' = faults + 2 /\ UNCHANGED child
  /\ aim' = "io" /\ pc' = "wait"
  /\ UNCHANGED <<lifecycle, token, capture, broken, reaped, heir, reader, stream, calls>>

-----------------------------------------------------------------------------
(* finish_reader and the completion of the lifecycle *)

\* The reader has ended, or there is none.
Join ==
  /\ pc = "finish" /\ reader # "reading"
  /\ broken' = (reader = "failed") /\ pc' = "last"
  /\ UNCHANGED <<lifecycle, token, capture, aim, process, reader, stream, calls, faults>>

\* Mutant: the reader is joined however long it takes.
DetachNever == pc = "finish" /\ reader = "reading" /\ UNCHANGED vars

\* READER_SHUTDOWN_TIMEOUT is over: the handle is dropped, the thread lives on.
Detach ==
  /\ pc = "finish" /\ reader = "reading"
  /\ broken' = TRUE /\ pc' = "last"
  /\ UNCHANGED <<lifecycle, token, capture, aim, process, reader, stream, calls, faults>>

\* Mutant: what is left in the queue is not delivered.
CompleteEarly ==
  /\ pc = "last"
  /\ IF broken THEN Fail
     ELSE CASE aim \in {"succeeded", "cancelled"} -> Transition(aim)
            [] aim = "process" -> Fail
            [] OTHER -> UNCHANGED lifecycle
  /\ pc' = IF aim = "io" THEN "report" ELSE "idle"
  /\ UNCHANGED <<token, capture, aim, broken, process, reader, stream, calls, faults>>

Complete ==
  /\ pc = "last" /\ queue = <<>>
  /\ IF broken THEN Fail
     ELSE CASE aim \in {"succeeded", "cancelled"} -> Transition(aim)
            [] aim = "process" -> Fail
            [] OTHER -> UNCHANGED lifecycle
  /\ pc' = IF aim = "io" THEN "report" ELSE "idle"
  /\ UNCHANGED <<token, capture, aim, broken, process, reader, stream, calls, faults>>

\* The error of kill, wait or try_wait is reported after the reader's own.
Report ==
  /\ pc = "report" /\ Fail /\ pc' = "idle"
  /\ UNCHANGED <<token, capture, aim, broken, process, reader, stream, calls, faults>>

-----------------------------------------------------------------------------
(* The reader thread *)

Receiving == pc \notin {"idle", "enter", "spawn"}

\* Mutant: send instead of try_send, a full queue blocks the reader.
ReadBlocking ==
  /\ reader = "reading" /\ pipe # <<>>
  /\ Receiving => Len(queue) < QueueCapacity
  /\ pipe' = Tail(pipe)
  /\ IF Receiving
       THEN queue' = Append(queue, Head(pipe)) /\ accepted' = Append(accepted, Head(pipe))
       ELSE UNCHANGED <<queue, accepted>>
  /\ UNCHANGED <<lifecycle, token, capture, pc, aim, broken, process, reader,
                 delivered, written, calls, faults>>

\* Mutants: the channel is not bounded; a full one gives up its oldest record.
ReadUnbounded ==
  /\ reader = "reading" /\ pipe # <<>>
  /\ pipe' = Tail(pipe)
  /\ IF Receiving
       THEN queue' = Append(queue, Head(pipe)) /\ accepted' = Append(accepted, Head(pipe))
       ELSE UNCHANGED <<queue, accepted>>
  /\ UNCHANGED <<lifecycle, token, capture, pc, aim, broken, process, reader,
                 delivered, written, calls, faults>>

ReadEvicting ==
  /\ reader = "reading" /\ pipe # <<>>
  /\ pipe' = Tail(pipe)
  /\ IF Receiving
       THEN /\ queue' = Append(IF Len(queue) < QueueCapacity THEN queue ELSE Tail(queue),
                               Head(pipe))
            /\ accepted' = Append(accepted, Head(pipe))
       ELSE UNCHANGED <<queue, accepted>>
  /\ UNCHANGED <<lifecycle, token, capture, pc, aim, broken, process, reader,
                 delivered, written, calls, faults>>

\* A record the queue has no room for is dropped.
Read ==
  /\ reader = "reading" /\ pipe # <<>>
  /\ pipe' = Tail(pipe)
  /\ IF Receiving /\ Len(queue) < QueueCapacity
       THEN queue' = Append(queue, Head(pipe)) /\ accepted' = Append(accepted, Head(pipe))
       ELSE UNCHANGED <<queue, accepted>>
  /\ UNCHANGED <<lifecycle, token, capture, pc, aim, broken, process, reader,
                 delivered, written, calls, faults>>

EndOfFile ==
  /\ reader = "reading" /\ pipe = <<>> /\ child # "running" /\ ~heir
  /\ reader' = "ok"
  /\ UNCHANGED <<lifecycle, token, capture, pc, aim, broken, process, stream, calls, faults>>

\* A read error or a panic; what the pipe held is gone.
ReadFails ==
  /\ reader = "reading" /\ Fails
  /\ reader' = "failed" /\ pipe' = <<>>
  /\ UNCHANGED <<lifecycle, token, capture, pc, aim, broken, process, queue, accepted,
                 delivered, written, calls>>

-----------------------------------------------------------------------------
(* The child, its descendant, and the caller's token *)

Write ==
  /\ child = "running" \/ heir
  /\ reader = "reading" /\ Len(pipe) < PipeCapacity /\ written < MaxOut
  /\ written' = written + 1 /\ pipe' = Append(pipe, written + 1)
  /\ UNCHANGED <<lifecycle, token, capture, pc, aim, broken, process, reader, queue,
                 accepted, delivered, calls, faults>>

Fork ==
  /\ child = "running" /\ ~heir /\ heir' = TRUE
  /\ UNCHANGED <<lifecycle, token, capture, pc, aim, broken, child, reaped, reader,
                 stream, calls, faults>>

ChildExit ==
  /\ child = "running" /\ child' \in {"ok", "bad"}
  /\ UNCHANGED <<lifecycle, token, capture, pc, aim, broken, reaped, heir, reader,
                 stream, calls, faults>>

HeirExit ==
  /\ heir /\ heir' = FALSE
  /\ UNCHANGED <<lifecycle, token, capture, pc, aim, broken, child, reaped, reader,
                 stream, calls, faults>>

Cancel ==
  /\ ~token /\ token' = TRUE
  /\ UNCHANGED <<lifecycle, capture, pc, aim, broken, process, reader, stream, calls, faults>>

-----------------------------------------------------------------------------
Supervisor ==
  \/ Enter \/ Spawn \/ SpawnFails \/ DrainOne \/ Drained \/ Poll \/ Kill \/ Wait
  \/ TryWait \/ TryWaitFails \/ Join \/ Detach \/ Complete \/ Report

Reader == Read \/ EndOfFile \/ ReadFails

World == Write \/ Fork \/ ChildExit \/ HeirExit \/ Cancel

Finished == pc = "idle" /\ calls = MaxCalls /\ UNCHANGED vars

Next == Call \/ Supervisor \/ Reader \/ World \/ Finished

Spec == Init /\ [][Next]_vars

\* The two threads are scheduled; child, descendant and caller owe nothing.
FairSpec == Spec /\ WF_vars(Supervisor) /\ WF_vars(Reader)

-----------------------------------------------------------------------------
(* Properties *)

\* A success is the child's own, after the whole of its output was read and
\* all of it that found room in the queue was delivered (finish_reader before
\* the transition to Succeeded).
SuccessIsComplete ==
  state = "succeeded" =>
    /\ child = "ok" /\ reaped
    /\ reader # "failed" /\ (capture => reader = "ok" /\ pipe = <<>> /\ ~heir)
    /\ delivered = accepted

\* Whatever ends, fails and is reported twice, the sink is told one story:
\* one ending, nothing after it, a failure with its diagnostic.
OneStory ==
  events \in {<<>>, <<"cancelled">>, <<"running">>, <<"running", "succeeded">>,
              <<"running", "failure", "failed">>, <<"running", "cancelling">>,
              <<"running", "cancelling", "cancelled">>,
              <<"running", "cancelling", "failure", "failed">>}

\* Progress arrives in the order of writing, each record at most once,
\* whatever the queue had to drop.
ProgressInOrder ==
  /\ \A i, j \in 1..Len(delivered) : i < j => delivered[i] < delivered[j]
  /\ Len(delivered) <= Len(accepted)
  /\ \A i \in 1..Len(delivered) : delivered[i] = accepted[i]

\* No child outlives its attempt: it has been reaped when the attempt is over,
\* unless a system call failed.
EndedIsReaped ==
  state \in {"succeeded", "failed", "cancelled"} /\ child # "none" /\ faults = 0 => reaped

\* The child could not be killed and is awaited.
Unkillable == pc = "wait" /\ aim = "io" /\ child = "running"

\* A full pipe does not stay full: the reader takes what the child writes even
\* while the supervisor waits for the child and drains nothing (try_send).
PipeMoves ==
  Len(pipe) = PipeCapacity ~> Len(pipe) < PipeCapacity \/ reader # "reading"

\* Nobody waits for ever: once the child is gone or cancellation is requested,
\* supervise returns, even while a descendant holds the pipe; and a child that
\* is awaited is not itself blocked on a full pipe.
SupervisionEnds ==
  /\ (token \/ child \in {"ok", "bad"}) /\ pc # "idle" ~> pc = "idle" \/ Unkillable
  /\ PipeMoves

-----------------------------------------------------------------------------
(* Refinement: a cancelling attempt is still running *)

Attempt == INSTANCE DownloadAttempt WITH
  phase <- IF state = "cancelling" THEN "running" ELSE state

AttemptSpec == Attempt!Spec
=============================================================================
