------------------------------ MODULE Session ------------------------------
(***************************************************************************)
(* One `nqbook run' with Parquet output: the adapter thread                *)
(* (AdapterEngine::Run), the main thread (Session::Run) and the writer     *)
(* thread (WriterEngine::Run), joined by two bounded single-producer       *)
(* single-consumer queues, and the signal handler that sets the stop flag. *)
(*                                                                         *)
(* Every access to something two threads share is a step of its own: a     *)
(* try_push or try_pop, the load or store of an atomic, a request_stop, a  *)
(* join.  The k-th event the adapter returns is the number k, and the k-th *)
(* row the samplers emit is the number k: what events and rows hold is the *)
(* business of other modules.  How many rows an event emits is left open   *)
(* (0..MaxRows).  The queues of nlib are sequences, and memory is          *)
(* sequentially consistent (ended_ and draining_ are released and acquired,*)
(* and what they publish was stored before).                               *)
(***************************************************************************)
EXTENDS Integers, Sequences, FiniteSets

CONSTANTS Instruments,  \* instrument ids
          Unnamed,      \* those the adapter's instrument() answers with null
          Feed,         \* the instrument of each event of the feed
          QueueCap,     \* capacity of the event queue
          RowCap,       \* capacity of the row queue
          Batch,        \* kConsumeBatch
          MaxRows       \* bound on the rows one event, or Close, emits

ASSUME FeedAssumption == Feed \in Seq(Instruments) /\ Unnamed \subseteq Instruments
ASSUME CapAssumption ==
  /\ QueueCap \in Nat \ {0} /\ RowCap \in Nat \ {0} /\ Batch \in Nat \ {0}
  /\ MaxRows \in Nat

VARIABLES
  stop,         \* g_stop, set by the signal handler
  (* the adapter thread *)
  apc,          \* where it is in AdapterEngine::Run
  fed,          \* number of events the adapter has returned
  known,        \* the ids in AdapterEngine::instruments_
  queue,        \* the event queue
  status,       \* AdapterEngine::status_
  ended,        \* AdapterEngine::ended_
  adapterStop,  \* the adapter thread's stop token
  (* the main thread *)
  mpc,          \* where it is in Session::Run, or in the unwinding after it
  phase,        \* the loop, the last Consume, or Close
  n,            \* events consumed in this call of Consume
  applied,      \* the last event applied
  live,         \* instruments that have a pipeline
  unknown,      \* instruments counted in FeedStats::instrument_unknown
  pending,      \* rows of the current event not yet pushed
  emitted,      \* the last row emitted
  interrupted,  \* RunResult::interrupted
  result,       \* RunResult: adapter_status and writer_error
  exit,         \* the exit code of the process, or -1 while it runs
  (* the writer thread *)
  wpc,          \* where it is in WriterEngine::Run
  rows,         \* the row queue
  popped,       \* the last row popped
  written,      \* WriterEngine::written_
  lastWritten,  \* the last row in a file
  failed,       \* WriterEngine::failed_
  draining,     \* WriterEngine::draining_
  aborted,      \* WriterEngine::abort_
  writerStop    \* the writer thread's stop token

adapterVars == <<apc, fed, known, status, ended>>
mainVars == <<mpc, phase, n, applied, live, unknown, pending, emitted, interrupted, result, exit>>
writerVars == <<wpc, popped, written, lastWritten>>
flags == <<stop, adapterStop, failed, draining, aborted, writerStop>>
vars == <<adapterVars, mainVars, writerVars, flags, queue, rows>>

kOk == 0
kPluginInit == 4
kAdapterFailed == 7
kOutputFailed == 8
kInterrupted == 130

Running == -1
AdapterError == 1

-----------------------------------------------------------------------------
(* The adapter thread.                                                     *)

\* while (!st.stop_requested())
AdapterCheck ==
  /\ apc = "check"
  /\ apc' = IF adapterStop THEN "done" ELSE "next"
  /\ UNCHANGED <<fed, known, status, ended, mainVars, writerVars, flags, queue, rows>>

\* Next() returned an event.
AdapterEvent ==
  /\ apc = "next" /\ fed < Len(Feed)
  /\ fed' = fed + 1
  /\ apc' = "discover"
  /\ UNCHANGED <<known, status, ended, mainVars, writerVars, flags, queue, rows>>

\* Next() returned NQ_NEXT_AGAIN.
AdapterAgain ==
  /\ apc = "next"
  /\ apc' = "check"
  /\ UNCHANGED <<fed, known, status, ended, mainVars, writerVars, flags, queue, rows>>

\* Next() returned NQ_NEXT_END after the last event, or an error at any time.
AdapterEnd ==
  /\ apc = "next"
  /\ \/ fed = Len(Feed) /\ status' = 0
     \/ status' = AdapterError
  /\ apc' = "ended"
  /\ UNCHANGED <<fed, known, ended, mainVars, writerVars, flags, queue, rows>>

AdapterEnded ==
  /\ apc = "ended"
  /\ ended' = TRUE
  /\ apc' = "done"
  /\ UNCHANGED <<fed, known, status, mainVars, writerVars, flags, queue, rows>>

\* A plausible bug: only the first instrument is looked up.
AdapterDiscoverOnce ==
  /\ apc = "discover"
  /\ known' = IF known = {} THEN {Feed[fed]} ELSE known
  /\ apc' = "push"
  /\ UNCHANGED <<fed, status, ended, mainVars, writerVars, flags, queue, rows>>

\* Discover, before the event is pushed.
AdapterDiscover ==
  /\ apc = "discover"
  /\ known' = known \cup {Feed[fed]}
  /\ apc' = "push"
  /\ UNCHANGED <<fed, status, ended, mainVars, writerVars, flags, queue, rows>>

\* try_push on a queue with room.
AdapterPush ==
  /\ apc = "push" /\ Len(queue) < QueueCap
  /\ queue' = Append(queue, fed)
  /\ apc' = "check"
  /\ UNCHANGED <<fed, known, status, ended, mainVars, writerVars, flags, rows>>

\* try_push on a full queue: the loop goes on to look at the stop token ...
AdapterStall ==
  /\ apc = "push" /\ Len(queue) = QueueCap
  /\ apc' = "stalled"
  /\ UNCHANGED <<fed, known, status, ended, mainVars, writerVars, flags, queue, rows>>

\* A plausible bug: a stalled event is given up without a stop request.
AdapterStalledDrops ==
  /\ apc = "stalled"
  /\ apc' = IF adapterStop THEN "done" ELSE "check"
  /\ UNCHANGED <<fed, known, status, ended, mainVars, writerVars, flags, queue, rows>>

\* A plausible bug: a stalled producer does not look at the stop token.
AdapterStalledWaits ==
  /\ apc = "stalled"
  /\ apc' = "push"
  /\ UNCHANGED <<fed, known, status, ended, mainVars, writerVars, flags, queue, rows>>

\* ... and gives the event up if a stop is requested.
AdapterStalled ==
  /\ apc = "stalled"
  /\ apc' = IF adapterStop THEN "done" ELSE "push"
  /\ UNCHANGED <<fed, known, status, ended, mainVars, writerVars, flags, queue, rows>>

Adapter == \/ AdapterCheck \/ AdapterEvent \/ AdapterAgain \/ AdapterEnd \/ AdapterEnded
           \/ AdapterDiscover \/ AdapterPush \/ AdapterStall \/ AdapterStalled

-----------------------------------------------------------------------------
(* The writer thread.                                                      *)

WriterPop ==
  /\ wpc = "pop" /\ rows # <<>>
  /\ rows' = Tail(rows)
  /\ popped' = Head(rows)
  /\ wpc' = "write"
  /\ UNCHANGED <<written, lastWritten, adapterVars, mainVars, flags, queue>>

\* try_pop found nothing; the row queue is not looked at again before WriterCheck.
WriterIdle ==
  /\ wpc = "pop" /\ rows = <<>>
  /\ wpc' = "check"
  /\ UNCHANGED <<popped, written, lastWritten, adapterVars, mainVars, flags, queue, rows>>

WriterCheck ==
  /\ wpc = "check"
  /\ wpc' = IF draining \/ writerStop THEN "done" ELSE "pop"
  /\ UNCHANGED <<popped, written, lastWritten, adapterVars, mainVars, flags, queue, rows>>

\* A plausible bug: rows that come after a failed write are written again.
WriterWriteOn ==
  /\ wpc = "write"
  /\ \/ written' = written + 1 /\ lastWritten' = popped /\ UNCHANGED failed
     \/ failed' = TRUE /\ UNCHANGED <<written, lastWritten>>
  /\ wpc' = "pop"
  /\ UNCHANGED <<popped, adapterVars, mainVars, queue, rows,
                 stop, adapterStop, draining, aborted, writerStop>>

\* ParquetWriter::Write succeeds, or throws; after a failure rows are discarded.
WriterWrite ==
  /\ wpc = "write"
  /\ \/ failed /\ UNCHANGED <<written, lastWritten, failed>>
     \/ ~failed /\ written' = written + 1 /\ lastWritten' = popped /\ UNCHANGED failed
     \/ ~failed /\ failed' = TRUE /\ UNCHANGED <<written, lastWritten>>
  /\ wpc' = "pop"
  /\ UNCHANGED <<popped, adapterVars, mainVars, queue, rows,
                 stop, adapterStop, draining, aborted, writerStop>>

Writer == WriterPop \/ WriterIdle \/ WriterCheck \/ WriterWrite

-----------------------------------------------------------------------------
(* The main thread: Session::Run.                                          *)

\* A step of the main thread that changes only where it is.
Goto(pc) == mpc' = pc /\ UNCHANGED <<phase, n, applied, live, unknown, pending, emitted,
                                    interrupted, result, exit>>
Others == UNCHANGED <<adapterVars, writerVars, flags, queue, rows>>

\* Both threads are started before the first Consume.
Start ==
  /\ mpc = "start" /\ Goto("consume")
  /\ apc' = "check" /\ wpc' = "pop"
  /\ UNCHANGED <<fed, known, status, ended, popped, written, lastWritten, flags, queue, rows>>

BatchSize == IF phase = "loop" THEN Batch ELSE Len(Feed) + 1

\* PipelineTable::Consume pops an event ...
ConsumePop ==
  /\ mpc = "consume" /\ n < BatchSize /\ queue # <<>>
  /\ queue' = Tail(queue)
  /\ applied' = Head(queue)
  /\ n' = n + 1
  /\ mpc' = "resolve"
  /\ UNCHANGED <<phase, live, unknown, pending, emitted, interrupted, result, exit,
                 adapterVars, writerVars, flags, rows>>

\* The instrument is in the map, and was not entered there as nameless.
FindInstrument(i) == i \in known \ Unnamed

\* ... and applies it.  The first event of an instrument makes its pipeline: the
\* instrument is looked up in the adapter thread's map, and a feature plugin's
\* init may throw, which ends the run.
Resolve ==
  /\ mpc = "resolve"
  /\ LET i == Feed[applied]
     IN  \/ /\ i \in live
            /\ mpc' = "apply" /\ UNCHANGED <<live, unknown>>
         \/ /\ i \notin live
            /\ unknown' = IF FindInstrument(i) THEN unknown ELSE unknown \cup {i}
            /\ \/ mpc' = "apply" /\ live' = live \cup {i}
               \/ mpc' = "unwind" /\ UNCHANGED live
  /\ UNCHANGED <<phase, n, applied, pending, emitted, interrupted, result, exit>>
  /\ Others

\* The samplers emit some rows for the event.
Apply ==
  /\ mpc = "apply"
  /\ pending' \in 0..MaxRows
  /\ mpc' = "emit"
  /\ UNCHANGED <<phase, n, applied, live, unknown, emitted, interrupted, result, exit>>
  /\ Others

\* WriterEngine::Push of the next row, on a queue with room.
PushRow ==
  /\ mpc = "emit" /\ pending > 0 /\ Len(rows) < RowCap
  /\ rows' = Append(rows, emitted + 1)
  /\ emitted' = emitted + 1 /\ pending' = pending - 1
  /\ UNCHANGED <<mpc, phase, n, applied, live, unknown, interrupted, result, exit,
                 adapterVars, writerVars, flags, queue>>

\* On a full queue ...
StallRow ==
  /\ mpc = "emit" /\ pending > 0 /\ Len(rows) = RowCap
  /\ Goto("stalled") /\ Others

\* ... the row is dropped if the writer has failed, and pushed again otherwise.
StalledRow ==
  /\ mpc = "stalled"
  /\ mpc' = "emit"
  /\ IF aborted \/ failed
     THEN emitted' = emitted + 1 /\ pending' = pending - 1
     ELSE UNCHANGED <<emitted, pending>>
  /\ UNCHANGED <<phase, n, applied, live, unknown, interrupted, result, exit>>
  /\ Others

Emitted ==
  /\ mpc = "emit" /\ pending = 0
  /\ Goto(IF phase = "close" THEN "result" ELSE "consume") /\ Others

\* Consume returns: the batch is full or the queue is empty.
ConsumeEnds ==
  /\ mpc = "consume" /\ (n = BatchSize \/ queue = <<>>)
  /\ \/ phase = "final" /\ Goto("close")
     \/ phase # "final" /\ n > 0 /\ Goto("stopBusy")
     \/ phase # "final" /\ n = 0 /\ Goto("ended")
  /\ Others

\* The stop flag, after a batch.
StopBusy ==
  /\ mpc = "stopBusy"
  /\ interrupted' = stop
  /\ mpc' = IF stop THEN "requestStop" ELSE "consume"
  /\ n' = 0
  /\ UNCHANGED <<phase, applied, live, unknown, pending, emitted, result, exit>>
  /\ Others

\* A plausible bug: Ended() alone ends the loop.
ReadEndedOnly ==
  /\ mpc = "ended"
  /\ Goto(IF ended THEN "requestStop" ELSE "stopIdle") /\ Others

\* adapter_.Ended() ...
ReadEnded ==
  /\ mpc = "ended"
  /\ Goto(IF ended THEN "empty" ELSE "stopIdle") /\ Others

\* ... && q.empty(), read after it.
ReadEmpty ==
  /\ mpc = "empty"
  /\ Goto(IF queue = <<>> THEN "requestStop" ELSE "stopIdle") /\ Others

\* The stop flag, when there was nothing to do.
StopIdle ==
  /\ mpc = "stopIdle"
  /\ interrupted' = stop
  /\ mpc' = IF stop THEN "requestStop" ELSE "consume"
  /\ UNCHANGED <<phase, n, applied, live, unknown, pending, emitted, result, exit>>
  /\ Others

\* AdapterEngine::Stop: request_stop and join.
RequestStop ==
  /\ mpc = "requestStop"
  /\ adapterStop' = TRUE
  /\ Goto("joinAdapter")
  /\ UNCHANGED <<stop, failed, draining, aborted, writerStop, adapterVars, writerVars, queue, rows>>

JoinAdapter ==
  /\ mpc = "joinAdapter" /\ apc = "done"
  /\ IF interrupted THEN mpc' = "close" /\ UNCHANGED phase
     ELSE mpc' = "consume" /\ phase' = "final"
  /\ n' = 0
  /\ UNCHANGED <<applied, live, unknown, pending, emitted, interrupted, result, exit>>
  /\ Others

\* PipelineTable::Close emits the open bars.
Close ==
  /\ mpc = "close"
  /\ phase' = "close"
  /\ pending' \in 0..MaxRows
  /\ mpc' = "emit"
  /\ UNCHANGED <<n, applied, live, unknown, emitted, interrupted, result, exit>>
  /\ Others

AdapterResult ==
  /\ mpc = "result"
  /\ result' = [result EXCEPT !.status = IF ended THEN status ELSE 0]
  /\ mpc' = "finish"
  /\ UNCHANGED <<phase, n, applied, live, unknown, pending, emitted, interrupted, exit>>
  /\ Others

\* WriterEngine::Finish: store draining_, join the writer thread ...
Finish ==
  /\ mpc = "finish"
  /\ draining' = TRUE
  /\ Goto("joinWriter")
  /\ UNCHANGED <<stop, adapterStop, failed, aborted, writerStop>>
  /\ UNCHANGED <<adapterVars, writerVars, queue, rows>>

JoinWriter ==
  /\ mpc = "joinWriter" /\ wpc = "done"
  /\ Goto(IF failed THEN "error" ELSE "files") /\ Others

\* ... and write instruments.parquet and close the files, which may fail.
CloseFiles ==
  /\ mpc = "files"
  /\ failed' \in BOOLEAN
  /\ Goto("error")
  /\ UNCHANGED <<stop, adapterStop, draining, aborted, writerStop>>
  /\ UNCHANGED <<adapterVars, writerVars, queue, rows>>

\* The error message is there exactly when failed_ is set (WriterEngine::Fail).
WriterResult ==
  /\ mpc = "error"
  /\ result' = [result EXCEPT !.writer_error = failed]
  /\ mpc' = "exit"
  /\ UNCHANGED <<phase, n, applied, live, unknown, pending, emitted, interrupted, exit>>
  /\ Others

\* A plausible bug: an interrupt hides a failure of the writer.
ExitCodeInterruptFirst ==
  CASE interrupted         -> kInterrupted
    [] ~interrupted /\ result.writer_error -> kOutputFailed
    [] ~interrupted /\ ~result.writer_error /\ result.status # 0 -> kAdapterFailed
    [] OTHER               -> kOk

\* The end of Run in main.cpp.
ExitCode ==
  CASE result.writer_error -> kOutputFailed
    [] ~result.writer_error /\ interrupted -> kInterrupted
    [] ~result.writer_error /\ ~interrupted /\ result.status # 0 -> kAdapterFailed
    [] OTHER               -> kOk

Exit ==
  /\ mpc = "exit"
  /\ exit' = ExitCode
  /\ mpc' = "exited"
  /\ UNCHANGED <<phase, n, applied, live, unknown, pending, emitted, interrupted, result>>
  /\ Others

-----------------------------------------------------------------------------
(* A throw out of Session::Run: main.cpp's Attempt catches it, and leaving  *)
(* Run destroys the session, the writer engine first.                      *)

Unwind ==
  /\ mpc = "unwind"
  /\ aborted' = TRUE /\ writerStop' = TRUE
  /\ Goto("unwindWriter")
  /\ UNCHANGED <<stop, adapterStop, failed, draining, adapterVars, writerVars, queue, rows>>

UnwindWriter ==
  /\ mpc = "unwindWriter" /\ wpc = "done"
  /\ adapterStop' = TRUE
  /\ Goto("unwindAdapter")
  /\ UNCHANGED <<stop, failed, draining, aborted, writerStop, adapterVars, writerVars, queue, rows>>

UnwindAdapter ==
  /\ mpc = "unwindAdapter" /\ apc = "done"
  /\ exit' = kPluginInit
  /\ mpc' = "exited"
  /\ UNCHANGED <<phase, n, applied, live, unknown, pending, emitted, interrupted, result>>
  /\ Others

Main == \/ Start \/ ConsumePop \/ Resolve \/ Apply \/ PushRow \/ StallRow \/ StalledRow
        \/ Emitted \/ ConsumeEnds \/ StopBusy \/ ReadEnded \/ ReadEmpty \/ StopIdle
        \/ RequestStop \/ JoinAdapter \/ Close \/ AdapterResult \/ Finish \/ JoinWriter
        \/ CloseFiles \/ WriterResult \/ Exit \/ Unwind \/ UnwindWriter \/ UnwindAdapter

\* SIGINT or SIGTERM.
Signal ==
  /\ ~stop /\ mpc # "exited" /\ stop' = TRUE
  /\ UNCHANGED <<adapterStop, failed, draining, aborted, writerStop,
                 adapterVars, mainVars, writerVars, queue, rows>>

\* The process has ended.
Exited == mpc = "exited" /\ UNCHANGED vars

Init ==
  /\ stop = FALSE /\ adapterStop = FALSE /\ failed = FALSE
  /\ draining = FALSE /\ aborted = FALSE /\ writerStop = FALSE
  /\ apc = "idle" /\ fed = 0 /\ known = {} /\ status = 0 /\ ended = FALSE
  /\ mpc = "start" /\ phase = "loop" /\ n = 0 /\ applied = 0 /\ live = {} /\ unknown = {}
  /\ pending = 0 /\ emitted = 0 /\ interrupted = FALSE
  /\ result = [status |-> 0, writer_error |-> FALSE] /\ exit = Running
  /\ wpc = "idle" /\ popped = 0 /\ written = 0 /\ lastWritten = 0
  /\ queue = <<>> /\ rows = <<>>

Next == Adapter \/ Writer \/ Main \/ Signal \/ Exited

\* Each thread is scheduled.  Nothing makes the adapter ever end its feed: Next()
\* returns, but it may answer NQ_NEXT_AGAIN for ever.
Spec == Init /\ [][Next]_vars /\ WF_vars(Adapter) /\ WF_vars(Writer) /\ WF_vars(Main)

-----------------------------------------------------------------------------
(* Properties.                                                             *)

AdapterPcs == {"idle", "check", "next", "discover", "push", "stalled", "ended", "done"}
MainPcs == {"start", "consume", "resolve", "apply", "emit", "stalled", "stopBusy", "ended",
            "empty", "stopIdle", "requestStop", "joinAdapter", "close", "result", "finish",
            "joinWriter", "files", "error", "exit", "unwind", "unwindWriter",
            "unwindAdapter", "exited"}
WriterPcs == {"idle", "pop", "check", "write", "done"}

\* The types of the variables; a queue never holds more than its capacity.
TypeOK ==
  /\ stop \in BOOLEAN /\ adapterStop \in BOOLEAN /\ failed \in BOOLEAN
  /\ draining \in BOOLEAN /\ aborted \in BOOLEAN /\ writerStop \in BOOLEAN
  /\ apc \in AdapterPcs /\ fed \in 0..Len(Feed) /\ known \subseteq Instruments
  /\ status \in {0, AdapterError} /\ ended \in BOOLEAN
  /\ mpc \in MainPcs /\ phase \in {"loop", "final", "close"}
  /\ n \in Nat /\ applied \in Nat /\ pending \in 0..MaxRows /\ emitted \in Nat
  /\ live \subseteq Instruments /\ unknown \subseteq Instruments
  /\ interrupted \in BOOLEAN
  /\ result \in [status : {0, AdapterError}, writer_error : BOOLEAN]
  /\ exit \in {Running, kOk, kPluginInit, kAdapterFailed, kOutputFailed, kInterrupted}
  /\ wpc \in WriterPcs /\ popped \in Nat /\ written \in Nat /\ lastWritten \in Nat
  /\ queue \in Seq(Nat) /\ Len(queue) <= QueueCap
  /\ rows \in Seq(Nat) /\ Len(rows) <= RowCap

\* Events the adapter has returned and not yet pushed.
InFlight == IF apc \in {"discover", "push", "stalled"} THEN 1 ELSE 0

\* No event is lost, repeated or reordered on its way to the books: what is
\* queued continues what is applied, and ends with the last event pushed.  The
\* one event a stopped adapter thread may give up is the exception.
EventsInOrder ==
  /\ \A k \in 1..Len(queue) : queue[k] = applied + k
  /\ \/ applied + Len(queue) + InFlight = fed
     \/ adapterStop /\ apc = "done" /\ applied + Len(queue) + 1 = fed

\* Unless it is interrupted, the loop is left only when the adapter has ended
\* and every event it returned is applied: Ended() is read before empty().
LoopLeftDrained ==
  mpc \in {"requestStop", "joinAdapter"} /\ ~interrupted =>
    ended /\ queue = <<>> /\ applied = fed

\* An instrument is reported as unknown only if the adapter did not name it:
\* the adapter thread enters an id in the map before it pushes the first event.
UnknownOnlyIfUnnamed == unknown \subseteq Unnamed

\* The rows in the files are the first rows emitted, in order, with none missing
\* in between, whatever fails and whatever is dropped.
WrittenIsPrefix ==
  /\ lastWritten = written
  /\ ~failed => /\ \A k \in 1..Len(rows) : rows[k] = popped + k
                /\ popped + Len(rows) = emitted

\* What the exit code claims of the adapter, of the events and of the files is
\* so, and no thread outlives the process: 0 means the adapter ended without an
\* error and everything it returned was applied, and no code but 8 and 4 hides a
\* row or a file that could not be written.
ExitCodeTruthful ==
  /\ exit = kOk => ended /\ status = 0 /\ applied = fed /\ queue = <<>>
  /\ exit \in {kOk, kAdapterFailed, kInterrupted} => ~failed
  /\ exit = kAdapterFailed => ended /\ status # 0 /\ applied = fed
  /\ exit = kInterrupted => stop
  /\ exit # Running => apc = "done" /\ wpc = "done"

\* A signal, or the end of the feed, ends the process: no thread waits for ever
\* for room in a queue or for another thread.
StopsWhenAsked == (stop \/ ended) ~> (mpc = "exited")

\* The manual's "exit code 0 means every row was written".
ExitZeroMeansAllWritten == exit = kOk => written = emitted
=============================================================================
