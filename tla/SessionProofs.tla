--------------------------- MODULE SessionProofs ---------------------------
(***************************************************************************)
(* Proofs about Session, for every feed, every capacity and every bound.   *)
(*                                                                         *)
(* The inductive invariant IInv has five parts: EventsInv (the adapter     *)
(* thread and its queue), LoopInv (the main thread's loop), NamesInv (the  *)
(* map of instruments), RowsInv (the writer thread and its queue) and      *)
(* ExitInv (the result of the run).  Each part is preserved by every       *)
(* action under the parts named in its lemma.                              *)
(***************************************************************************)
EXTENDS Session, TLAPS

-----------------------------------------------------------------------------
(* The adapter thread and the event queue.                                 *)

\* An event being resolved has been popped.
Resolving == mpc = "resolve" => applied >= 1

\* Once Ended() is true the adapter thread pushes nothing any more, and it gave up no event.
EndedDone == ended => apc = "done" /\ applied + Len(queue) = fed

\* The threads start together.
Begun == mpc = "start" => apc = "idle" /\ wpc = "idle"

\* A stalled Push has a row to push.
Stalling == mpc = "stalled" => pending > 0

EventsInv == TypeOK /\ EventsInOrder /\ Resolving /\ EndedDone /\ Begun /\ Stalling

\* What try_push and try_pop do to a queue.
LEMMA AppendNat ==
  ASSUME NEW s \in Seq(Nat), NEW x \in Nat
  PROVE  /\ Append(s, x) \in Seq(Nat) /\ Len(Append(s, x)) = Len(s) + 1
         /\ \A k \in 1..Len(s) : Append(s, x)[k] = s[k]
         /\ Append(s, x)[Len(s) + 1] = x
  OBVIOUS

LEMMA TailNat ==
  ASSUME NEW s \in Seq(Nat), s # <<>>
  PROVE  /\ Head(s) \in Nat /\ Tail(s) \in Seq(Nat)
         /\ Len(s) \in Nat \ {0} /\ Len(Tail(s)) = Len(s) - 1
         /\ Head(s) = s[1]
         /\ \A k \in 1..Len(Tail(s)) : Tail(s)[k] = s[k + 1]
  OBVIOUS

\* Every action keeps the events in order between the adapter and the books.
LEMMA EventsStep == EventsInv /\ [Next]_vars => EventsInv'
<1> SUFFICES ASSUME EventsInv, [Next]_vars PROVE EventsInv'
  OBVIOUS
<1> USE FeedAssumption, CapAssumption DEF EventsInv, TypeOK, EventsInOrder, Resolving,
      EndedDone, Begun, Stalling, InFlight,
      AdapterPcs, MainPcs, WriterPcs, Goto, Others, adapterVars, mainVars, writerVars, flags,
      kOk, kPluginInit, kAdapterFailed, kOutputFailed, kInterrupted, Running, AdapterError
<1>1. CASE AdapterCheck
  BY <1>1 DEF AdapterCheck
<1>2. CASE AdapterEvent
  BY <1>2 DEF AdapterEvent
<1>3. CASE AdapterAgain
  BY <1>3 DEF AdapterAgain
<1>4. CASE AdapterEnd
  BY <1>4 DEF AdapterEnd
<1>5. CASE AdapterEnded
  BY <1>5 DEF AdapterEnded
<1>6. CASE AdapterDiscover
  BY <1>6 DEF AdapterDiscover
<1>7. CASE AdapterPush
  <2>1. fed \in Nat /\ queue \in Seq(Nat)
    OBVIOUS
  <2>2. TypeOK'
    BY <1>7, AppendNat, <2>1 DEF AdapterPush
  <2>3. /\ queue' = Append(queue, fed) /\ UNCHANGED <<applied, fed, adapterStop>>
        /\ apc = "push" /\ apc' = "check" /\ Len(queue') = Len(queue) + 1
        /\ \A k \in 1..Len(queue) : queue'[k] = queue[k]
        /\ queue'[Len(queue) + 1] = fed
    BY <1>7, <2>1, AppendNat DEF AdapterPush
  <2>4. applied + Len(queue) + 1 = fed /\ Len(queue) \in Nat
    BY <2>3
  <2>5. ASSUME NEW k \in 1..Len(queue') PROVE queue'[k] = applied' + k
    <3>1. CASE k = Len(queue) + 1
      BY <2>3, <2>4, <3>1
    <3>2. CASE k \in 1..Len(queue)
      BY <2>3, <3>2
    <3> QED BY <2>3, <2>4, <3>1, <3>2
  <2>6. applied' + Len(queue') = fed' /\ apc' = "check"
    BY <2>3, <2>4
  <2>7. InFlight' = 0 /\ applied' \in Nat /\ Len(queue') \in Nat
    BY <2>3, <2>4, <2>6
  <2>8. applied' + Len(queue') + InFlight' = fed'
    BY <2>6, <2>7
  <2>9. EventsInOrder'
    BY <2>5, <2>8 DEF EventsInOrder
  <2>10. (Resolving /\ EndedDone /\ Begun /\ Stalling)'
    BY <1>7, AppendNat, <2>1 DEF AdapterPush
  <2> QED BY <2>2, <2>9, <2>10
<1>8. CASE AdapterStall
  <2>1. TypeOK'
    BY <1>8 DEF AdapterStall
  <2>2. EventsInOrder'
    BY <1>8 DEF AdapterStall
  <2>3. (Resolving /\ EndedDone /\ Begun /\ Stalling)'
    BY <1>8 DEF AdapterStall
  <2> QED BY <2>1, <2>2, <2>3
<1>9. CASE AdapterStalled
  BY <1>9 DEF AdapterStalled
<1>10. CASE WriterPop
  BY <1>10 DEF WriterPop
<1>11. CASE WriterIdle
  BY <1>11 DEF WriterIdle
<1>12. CASE WriterCheck
  BY <1>12 DEF WriterCheck
<1>13. CASE WriterWrite
  <2>1. failed' \in BOOLEAN
    BY <1>13, Zenon DEF WriterWrite
  <2>2. written' \in Nat /\ lastWritten' \in Nat /\ wpc' \in WriterPcs
    BY <1>13 DEF WriterWrite
  <2>3. TypeOK'
    BY <1>13, <2>1, <2>2 DEF WriterWrite
  <2>4. EventsInOrder'
    BY <1>13 DEF WriterWrite
  <2>5. (Resolving /\ EndedDone /\ Begun /\ Stalling)'
    BY <1>13 DEF WriterWrite
  <2> QED BY <2>3, <2>4, <2>5
<1>14. CASE Start
  <2>1. TypeOK'
    BY <1>14 DEF Start
  <2>2. EventsInOrder'
    BY <1>14 DEF Start
  <2>3. (Resolving /\ EndedDone /\ Begun /\ Stalling)'
    BY <1>14 DEF Start
  <2> QED BY <2>1, <2>2, <2>3
<1>15. CASE ConsumePop
  <2>1. TypeOK'
    BY <1>15, TailNat DEF ConsumePop
  <2>2. /\ applied' = applied + 1 /\ UNCHANGED <<fed, apc, adapterStop, ended, wpc, pending>>
        /\ mpc' = "resolve"
        /\ Len(queue') = Len(queue) - 1 /\ Len(queue) \in Nat \ {0}
        /\ \A k \in 1..Len(queue') : queue'[k] = queue[k + 1]
    BY <1>15, TailNat DEF ConsumePop
  <2>3. ASSUME NEW k \in 1..Len(queue') PROVE queue'[k] = applied' + k
    <3>1. k + 1 \in 1..Len(queue)
      BY <2>2
    <3>2. queue[k + 1] = applied + (k + 1)
      BY <3>1
    <3> QED BY <2>2, <3>2
  <2>4. applied' + Len(queue') = applied + Len(queue)
    BY <2>2
  <2>5. EventsInOrder'
    BY <2>2, <2>3, <2>4
  <2>6. (Resolving /\ EndedDone /\ Begun /\ Stalling)'
    BY <2>2
  <2> QED BY <2>1, <2>5, <2>6
<1>16. CASE Resolve
  BY <1>16 DEF Resolve, FindInstrument
<1>17. CASE Apply
  BY <1>17 DEF Apply
<1>18. CASE PushRow
  BY <1>18 DEF PushRow
<1>19. CASE StallRow
  BY <1>19 DEF StallRow
<1>20. CASE StalledRow
  <2>1. TypeOK'
    BY <1>20 DEF StalledRow
  <2>2. EventsInOrder'
    BY <1>20 DEF StalledRow
  <2>3. (Resolving /\ EndedDone /\ Begun /\ Stalling)'
    BY <1>20 DEF StalledRow
  <2> QED BY <2>1, <2>2, <2>3
<1>21. CASE Emitted
  BY <1>21 DEF Emitted
<1>22. CASE ConsumeEnds
  <2>1. mpc' \in MainPcs
    BY <1>22 DEF ConsumeEnds
  <2>2. UNCHANGED <<phase, n, applied, live, unknown, pending, emitted, interrupted, result, exit>>
        /\ UNCHANGED <<apc, fed, known, status, ended, wpc, popped, written, lastWritten>>
        /\ UNCHANGED <<flags, queue, rows>>
    BY <1>22 DEF ConsumeEnds
  <2>3. TypeOK'
    <3>1. mpc' \in MainPcs /\ phase' \in {"loop", "final", "close"} /\ n' \in Nat
      BY <2>1, <2>2
    <3> HIDE DEF MainPcs, AdapterPcs, WriterPcs
    <3> QED BY <2>2, <3>1, SMTT(30)
  <2>4. EventsInOrder'
    <3>1. queue' = queue /\ applied' = applied /\ apc' = apc /\ fed' = fed
      BY <2>2
    <3>2. adapterStop' = adapterStop
      BY <2>2
    <3> QED BY <3>1, <3>2 DEF EventsInOrder, InFlight
  <2>5. (Resolving /\ EndedDone /\ Begun /\ Stalling)'
    BY <1>22 DEF ConsumeEnds
  <2> QED BY <2>3, <2>4, <2>5
<1>23. CASE StopBusy
  BY <1>23 DEF StopBusy
<1>24. CASE ReadEnded
  BY <1>24 DEF ReadEnded
<1>25. CASE ReadEmpty
  BY <1>25 DEF ReadEmpty
<1>26. CASE StopIdle
  BY <1>26 DEF StopIdle
<1>27. CASE RequestStop
  BY <1>27 DEF RequestStop
<1>28. CASE JoinAdapter
  BY <1>28 DEF JoinAdapter
<1>29. CASE Close
  BY <1>29 DEF Close
<1>30. CASE AdapterResult
  <2>1. result' \in [status : {0, AdapterError}, writer_error : BOOLEAN]
    BY <1>30 DEF AdapterResult
  <2>2. TypeOK'
    BY <1>30, <2>1, SMTT(30) DEF AdapterResult
  <2>3. EventsInOrder'
    BY <1>30 DEF AdapterResult
  <2>4. (Resolving /\ EndedDone /\ Begun /\ Stalling)'
    BY <1>30 DEF AdapterResult
  <2> QED BY <2>2, <2>3, <2>4
<1>31. CASE Finish
  BY <1>31 DEF Finish
<1>32. CASE JoinWriter
  BY <1>32 DEF JoinWriter
<1>33. CASE CloseFiles
  BY <1>33 DEF CloseFiles
<1>34. CASE WriterResult
  <2>1. result' \in [status : {0, AdapterError}, writer_error : BOOLEAN]
    BY <1>34 DEF WriterResult
  <2>2. TypeOK'
    BY <1>34, <2>1, SMTT(30) DEF WriterResult
  <2>3. EventsInOrder'
    BY <1>34 DEF WriterResult
  <2>4. (Resolving /\ EndedDone /\ Begun /\ Stalling)'
    BY <1>34 DEF WriterResult
  <2> QED BY <2>2, <2>3, <2>4
<1>35. CASE Exit
  <2>a. /\ mpc' \in MainPcs
        /\ exit' \in {Running, kOk, kPluginInit, kAdapterFailed, kOutputFailed, kInterrupted}
    BY <1>35 DEF Exit, ExitCode
  <2>b. /\ UNCHANGED <<phase, n, applied, live, unknown, pending, emitted, interrupted, result>>
        /\ UNCHANGED <<apc, fed, known, status, ended, wpc, popped, written, lastWritten>>
        /\ UNCHANGED <<flags, queue, rows>>
    BY <1>35 DEF Exit
  <2>1. TypeOK'
    <3> HIDE DEF MainPcs, AdapterPcs, WriterPcs
    <3> QED BY <2>a, <2>b
  <2>2. EventsInOrder'
    BY <1>35 DEF Exit, ExitCode
  <2>3. (Resolving /\ EndedDone /\ Begun /\ Stalling)'
    BY <1>35 DEF Exit, ExitCode
  <2> QED BY <2>1, <2>2, <2>3
<1>36. CASE Unwind
  BY <1>36 DEF Unwind
<1>37. CASE UnwindWriter
  BY <1>37 DEF UnwindWriter
<1>38. CASE UnwindAdapter
  BY <1>38 DEF UnwindAdapter
<1>39. CASE Signal
  BY <1>39 DEF Signal
<1>40. CASE UNCHANGED vars
  BY <1>40 DEF vars
<1> QED BY <1>1, <1>2, <1>3, <1>4, <1>5, <1>6, <1>7, <1>8, <1>9, <1>10, <1>11, <1>12, <1>13,
      <1>14, <1>15, <1>16, <1>17, <1>18, <1>19, <1>20, <1>21, <1>22, <1>23, <1>24, <1>25, <1>26,
      <1>27, <1>28, <1>29, <1>30, <1>31, <1>32, <1>33, <1>34, <1>35, <1>36, <1>37, <1>38, <1>39,
      <1>40 DEF Next, Adapter, Writer, Main, Exited

-----------------------------------------------------------------------------
(* The main thread's loop.                                                 *)

\* Where the main thread is once it has left the loop of Session::Run.
Leaving == {"requestStop", "joinAdapter", "close", "result", "finish", "joinWriter", "files",
            "error", "exit"}

\* Only the loop reads the stop flag and Ended(), and only Consume applies events.
Phases ==
  /\ mpc \in {"start", "stopBusy", "ended", "empty", "stopIdle", "requestStop", "joinAdapter"} =>
       phase = "loop"
  /\ mpc \in {"consume", "resolve", "apply"} => phase # "close"

\* q.empty() is read after Ended() was true.
EmptyAfterEnded == mpc = "empty" => ended

\* A loop that was not interrupted left nothing behind, and nothing comes after it.
Drained == (mpc \in Leaving \/ phase # "loop") /\ ~interrupted =>
             ended /\ queue = <<>> /\ applied = fed

LoopInv == Phases /\ EmptyAfterEnded /\ Drained

\* Every action keeps LoopInv.
LEMMA LoopStep == EventsInv /\ LoopInv /\ [Next]_vars => LoopInv'
<1> SUFFICES ASSUME EventsInv /\ LoopInv, [Next]_vars PROVE LoopInv'
  OBVIOUS
<1> USE FeedAssumption DEF TypeOK, EventsInOrder, EndedDone, InFlight, EventsInv, LoopInv,
      Phases, EmptyAfterEnded, Drained, Leaving,
      Goto, Others, adapterVars, mainVars, writerVars, flags
<1>1. CASE AdapterCheck
  BY <1>1 DEF AdapterCheck
<1>2. CASE AdapterEvent
  BY <1>2 DEF AdapterEvent
<1>3. CASE AdapterAgain
  BY <1>3 DEF AdapterAgain
<1>4. CASE AdapterEnd
  BY <1>4 DEF AdapterEnd
<1>5. CASE AdapterEnded
  BY <1>5 DEF AdapterEnded
<1>6. CASE AdapterDiscover
  BY <1>6 DEF AdapterDiscover
<1>7. CASE AdapterPush
  BY <1>7 DEF AdapterPush
<1>8. CASE AdapterStall
  BY <1>8 DEF AdapterStall
<1>9. CASE AdapterStalled
  BY <1>9 DEF AdapterStalled
<1>10. CASE WriterPop
  BY <1>10 DEF WriterPop
<1>11. CASE WriterIdle
  BY <1>11 DEF WriterIdle
<1>12. CASE WriterCheck
  BY <1>12 DEF WriterCheck
<1>13. CASE WriterWrite
  BY <1>13 DEF WriterWrite
<1>14. CASE Start
  BY <1>14 DEF Start
<1>15. CASE ConsumePop
  BY <1>15 DEF ConsumePop
<1>16. CASE Resolve
  BY <1>16 DEF Resolve, FindInstrument
<1>17. CASE Apply
  BY <1>17 DEF Apply
<1>18. CASE PushRow
  BY <1>18 DEF PushRow
<1>19. CASE StallRow
  BY <1>19 DEF StallRow
<1>20. CASE StalledRow
  BY <1>20 DEF StalledRow
<1>21. CASE Emitted
  BY <1>21 DEF Emitted
<1>22. CASE ConsumeEnds
  <2>1. /\ UNCHANGED <<phase, interrupted, ended, queue, applied, fed>>
        /\ phase # "close"
    BY <1>22 DEF ConsumeEnds
  <2>2. IF phase = "final" THEN mpc' = "close" ELSE mpc' \in {"stopBusy", "ended"}
    BY <1>22 DEF ConsumeEnds
  <2>3. phase \in {"loop", "final"}
    BY <2>1
  <2>4. CASE phase = "final"
    BY <2>1, <2>2, <2>4
  <2>5. CASE phase = "loop"
    BY <2>1, <2>2, <2>5
  <2> QED BY <2>3, <2>4, <2>5
<1>23. CASE StopBusy
  BY <1>23 DEF StopBusy
<1>24. CASE ReadEnded
  BY <1>24 DEF ReadEnded
<1>25. CASE ReadEmpty
  BY <1>25 DEF ReadEmpty
<1>26. CASE StopIdle
  BY <1>26 DEF StopIdle
<1>27. CASE RequestStop
  BY <1>27 DEF RequestStop
<1>28. CASE JoinAdapter
  BY <1>28 DEF JoinAdapter
<1>29. CASE Close
  BY <1>29 DEF Close
<1>30. CASE AdapterResult
  BY <1>30 DEF AdapterResult
<1>31. CASE Finish
  BY <1>31 DEF Finish
<1>32. CASE JoinWriter
  BY <1>32 DEF JoinWriter
<1>33. CASE CloseFiles
  BY <1>33 DEF CloseFiles
<1>34. CASE WriterResult
  BY <1>34 DEF WriterResult
<1>35. CASE Exit
  BY <1>35 DEF Exit
<1>36. CASE Unwind
  BY <1>36 DEF Unwind
<1>37. CASE UnwindWriter
  BY <1>37 DEF UnwindWriter
<1>38. CASE UnwindAdapter
  BY <1>38 DEF UnwindAdapter
<1>39. CASE Signal
  BY <1>39 DEF Signal
<1>40. CASE UNCHANGED vars
  BY <1>40 DEF vars
<1> QED
  BY <1>1, <1>2, <1>3, <1>4, <1>5, <1>6, <1>7, <1>8, <1>9, <1>10, <1>11, <1>12, <1>13,
     <1>14, <1>15, <1>16, <1>17, <1>18, <1>19, <1>20, <1>21, <1>22, <1>23, <1>24, <1>25,
     <1>26, <1>27, <1>28, <1>29, <1>30, <1>31, <1>32, <1>33, <1>34, <1>35, <1>36, <1>37,
     <1>38, <1>39, <1>40
     DEF Next, Adapter, Writer, Main, Exited

-----------------------------------------------------------------------------
(* The map of instruments.                                                 *)

\* The adapter thread has looked up the instrument of every event it pushed.
Known == \A k \in 1..fed : (k = fed /\ apc = "discover") \/ Feed[k] \in known

NamesInv == Known /\ UnknownOnlyIfUnnamed

\* Every action keeps NamesInv.
LEMMA NamesStep == EventsInv /\ NamesInv /\ [Next]_vars => NamesInv'
<1> SUFFICES ASSUME EventsInv /\ NamesInv, [Next]_vars PROVE NamesInv'
  OBVIOUS
<1> USE FeedAssumption DEF TypeOK, EventsInOrder, EndedDone, InFlight, EventsInv, Resolving,
      Begun, NamesInv, Known, UnknownOnlyIfUnnamed,
      Goto, Others, adapterVars, mainVars, writerVars, flags
<1>1. CASE AdapterCheck
  BY <1>1 DEF AdapterCheck
<1>2. CASE AdapterEvent
  BY <1>2 DEF AdapterEvent
<1>3. CASE AdapterAgain
  BY <1>3 DEF AdapterAgain
<1>4. CASE AdapterEnd
  BY <1>4 DEF AdapterEnd
<1>5. CASE AdapterEnded
  BY <1>5 DEF AdapterEnded
<1>6. CASE AdapterDiscover
  BY <1>6 DEF AdapterDiscover
<1>7. CASE AdapterPush
  BY <1>7 DEF AdapterPush
<1>8. CASE AdapterStall
  BY <1>8 DEF AdapterStall
<1>9. CASE AdapterStalled
  BY <1>9 DEF AdapterStalled
<1>10. CASE WriterPop
  BY <1>10 DEF WriterPop
<1>11. CASE WriterIdle
  BY <1>11 DEF WriterIdle
<1>12. CASE WriterCheck
  BY <1>12 DEF WriterCheck
<1>13. CASE WriterWrite
  BY <1>13 DEF WriterWrite
<1>14. CASE Start
  BY <1>14 DEF Start
<1>15. CASE ConsumePop
  BY <1>15 DEF ConsumePop
<1>16. CASE Resolve
  BY <1>16 DEF Resolve, FindInstrument
<1>17. CASE Apply
  BY <1>17 DEF Apply
<1>18. CASE PushRow
  BY <1>18 DEF PushRow
<1>19. CASE StallRow
  BY <1>19 DEF StallRow
<1>20. CASE StalledRow
  BY <1>20 DEF StalledRow
<1>21. CASE Emitted
  BY <1>21 DEF Emitted
<1>22. CASE ConsumeEnds
  BY <1>22 DEF ConsumeEnds
<1>23. CASE StopBusy
  BY <1>23 DEF StopBusy
<1>24. CASE ReadEnded
  BY <1>24 DEF ReadEnded
<1>25. CASE ReadEmpty
  BY <1>25 DEF ReadEmpty
<1>26. CASE StopIdle
  BY <1>26 DEF StopIdle
<1>27. CASE RequestStop
  BY <1>27 DEF RequestStop
<1>28. CASE JoinAdapter
  BY <1>28 DEF JoinAdapter
<1>29. CASE Close
  BY <1>29 DEF Close
<1>30. CASE AdapterResult
  BY <1>30 DEF AdapterResult
<1>31. CASE Finish
  BY <1>31 DEF Finish
<1>32. CASE JoinWriter
  BY <1>32 DEF JoinWriter
<1>33. CASE CloseFiles
  BY <1>33 DEF CloseFiles
<1>34. CASE WriterResult
  BY <1>34 DEF WriterResult
<1>35. CASE Exit
  BY <1>35 DEF Exit
<1>36. CASE Unwind
  BY <1>36 DEF Unwind
<1>37. CASE UnwindWriter
  BY <1>37 DEF UnwindWriter
<1>38. CASE UnwindAdapter
  BY <1>38 DEF UnwindAdapter
<1>39. CASE Signal
  BY <1>39 DEF Signal
<1>40. CASE UNCHANGED vars
  BY <1>40 DEF vars
<1> QED
  BY <1>1, <1>2, <1>3, <1>4, <1>5, <1>6, <1>7, <1>8, <1>9, <1>10, <1>11, <1>12, <1>13,
     <1>14, <1>15, <1>16, <1>17, <1>18, <1>19, <1>20, <1>21, <1>22, <1>23, <1>24, <1>25,
     <1>26, <1>27, <1>28, <1>29, <1>30, <1>31, <1>32, <1>33, <1>34, <1>35, <1>36, <1>37,
     <1>38, <1>39, <1>40
     DEF Next, Adapter, Writer, Main, Exited

-----------------------------------------------------------------------------
(* The writer thread and the row queue.                                    *)

\* A Push that stalls is never aborted: abort_ is set after Session::Run was left.
Aborting == aborted => mpc \in {"unwindWriter", "unwindAdapter", "exited"}

\* The writer thread is joined before the files are closed, and before the process ends.
WriterJoined == mpc \in {"files", "error", "exit", "unwindAdapter", "exited"} => wpc = "done"

\* The files are closed only if every write succeeded.
FilesAfterSuccess == mpc = "files" => ~failed

\* Until a write fails, each row popped is written before the next.
PoppedThenWritten == ~failed => popped = IF wpc = "write" THEN written + 1 ELSE written

RowsInv == Aborting /\ WriterJoined /\ FilesAfterSuccess /\ PoppedThenWritten /\ WrittenIsPrefix

\* Every action keeps RowsInv.
LEMMA RowsStep == EventsInv /\ RowsInv /\ [Next]_vars => RowsInv'
<1> SUFFICES ASSUME EventsInv /\ RowsInv, [Next]_vars PROVE RowsInv'
  OBVIOUS
<1> USE CapAssumption DEF EventsInv, TypeOK, RowsInv, Aborting, WriterJoined, FilesAfterSuccess,
      PoppedThenWritten, WrittenIsPrefix, Begun,
      Goto, Others, adapterVars, mainVars, writerVars, flags
<1>1. CASE AdapterCheck
  BY <1>1 DEF AdapterCheck
<1>2. CASE AdapterEvent
  BY <1>2 DEF AdapterEvent
<1>3. CASE AdapterAgain
  BY <1>3 DEF AdapterAgain
<1>4. CASE AdapterEnd
  BY <1>4 DEF AdapterEnd
<1>5. CASE AdapterEnded
  BY <1>5 DEF AdapterEnded
<1>6. CASE AdapterDiscover
  BY <1>6 DEF AdapterDiscover
<1>7. CASE AdapterPush
  BY <1>7 DEF AdapterPush
<1>8. CASE AdapterStall
  BY <1>8 DEF AdapterStall
<1>9. CASE AdapterStalled
  BY <1>9 DEF AdapterStalled
<1>10. CASE WriterPop
  <2>1. /\ popped' = rows[1] /\ Len(rows') = Len(rows) - 1 /\ Len(rows) \in Nat \ {0}
        /\ \A k \in 1..Len(rows') : rows'[k] = rows[k + 1]
    BY <1>10, TailNat DEF WriterPop
  <2>2. ASSUME ~failed PROVE popped' = popped + 1 /\ popped + Len(rows) = emitted
    BY <2>1, <2>2
  <2>3. ASSUME ~failed, NEW k \in 1..Len(rows') PROVE rows'[k] = popped' + k
    <3>1. k + 1 \in 1..Len(rows)
      BY <2>1
    <3>2. rows[k + 1] = popped + (k + 1)
      BY <2>3, <3>1
    <3> QED BY <2>1, <2>2, <2>3, <3>2
  <2>4. /\ wpc = "pop" /\ wpc' = "write"
        /\ UNCHANGED <<written, lastWritten, failed, emitted, mpc, aborted>>
    BY <1>10 DEF WriterPop
  <2>5. WrittenIsPrefix'
    BY <2>1, <2>2, <2>3, <2>4
  <2>6. PoppedThenWritten'
    BY <2>2, <2>4
  <2> QED BY <2>4, <2>5, <2>6
<1>11. CASE WriterIdle
  BY <1>11 DEF WriterIdle
<1>12. CASE WriterCheck
  BY <1>12 DEF WriterCheck
<1>13. CASE WriterWrite
  BY <1>13 DEF WriterWrite
<1>14. CASE Start
  BY <1>14 DEF Start
<1>15. CASE ConsumePop
  BY <1>15 DEF ConsumePop
<1>16. CASE Resolve
  BY <1>16 DEF Resolve, FindInstrument
<1>17. CASE Apply
  BY <1>17 DEF Apply
<1>18. CASE PushRow
  BY <1>18 DEF PushRow
<1>19. CASE StallRow
  BY <1>19 DEF StallRow
<1>20. CASE StalledRow
  BY <1>20 DEF StalledRow
<1>21. CASE Emitted
  BY <1>21 DEF Emitted
<1>22. CASE ConsumeEnds
  BY <1>22 DEF ConsumeEnds
<1>23. CASE StopBusy
  BY <1>23 DEF StopBusy
<1>24. CASE ReadEnded
  BY <1>24 DEF ReadEnded
<1>25. CASE ReadEmpty
  BY <1>25 DEF ReadEmpty
<1>26. CASE StopIdle
  BY <1>26 DEF StopIdle
<1>27. CASE RequestStop
  BY <1>27 DEF RequestStop
<1>28. CASE JoinAdapter
  BY <1>28 DEF JoinAdapter
<1>29. CASE Close
  BY <1>29 DEF Close
<1>30. CASE AdapterResult
  BY <1>30 DEF AdapterResult
<1>31. CASE Finish
  BY <1>31 DEF Finish
<1>32. CASE JoinWriter
  BY <1>32 DEF JoinWriter
<1>33. CASE CloseFiles
  BY <1>33 DEF CloseFiles
<1>34. CASE WriterResult
  BY <1>34 DEF WriterResult
<1>35. CASE Exit
  BY <1>35 DEF Exit
<1>36. CASE Unwind
  BY <1>36 DEF Unwind
<1>37. CASE UnwindWriter
  BY <1>37 DEF UnwindWriter
<1>38. CASE UnwindAdapter
  BY <1>38 DEF UnwindAdapter
<1>39. CASE Signal
  BY <1>39 DEF Signal
<1>40. CASE UNCHANGED vars
  BY <1>40 DEF vars
<1> QED
  BY <1>1, <1>2, <1>3, <1>4, <1>5, <1>6, <1>7, <1>8, <1>9, <1>10, <1>11, <1>12, <1>13,
     <1>14, <1>15, <1>16, <1>17, <1>18, <1>19, <1>20, <1>21, <1>22, <1>23, <1>24, <1>25,
     <1>26, <1>27, <1>28, <1>29, <1>30, <1>31, <1>32, <1>33, <1>34, <1>35, <1>36, <1>37,
     <1>38, <1>39, <1>40
     DEF Next, Adapter, Writer, Main, Exited

-----------------------------------------------------------------------------
(* The result of the run.                                                  *)

\* The adapter thread is joined before its status is read.
AdapterJoined ==
  mpc \in Leaving \ {"requestStop", "joinAdapter"} \/ mpc = "exited" \/ phase # "loop" =>
    apc = "done"

\* RunResult says what the threads left behind.
StatusReported ==
  mpc \in {"finish", "joinWriter", "files", "error", "exit"} =>
    result.status = IF ended THEN status ELSE 0
ErrorReported == mpc = "exit" => result.writer_error = failed

\* interrupted is set from the stop flag, which nobody resets.
InterruptedBySignal == interrupted => stop

\* There is an exit code when the process has ended.
ExitAtEnd == exit # Running <=> mpc = "exited"

ExitInv == AdapterJoined /\ StatusReported /\ ErrorReported /\ InterruptedBySignal /\ ExitAtEnd
          /\ ExitCodeTruthful

\* Every action keeps ExitInv.
LEMMA ExitStep == EventsInv /\ LoopInv /\ RowsInv /\ ExitInv /\ [Next]_vars => ExitInv'
<1> SUFFICES ASSUME EventsInv /\ LoopInv /\ RowsInv /\ ExitInv, [Next]_vars PROVE ExitInv'
  OBVIOUS
<1> USE CapAssumption DEF EventsInv, TypeOK, LoopInv, Phases, Drained, RowsInv, WriterJoined,
      FilesAfterSuccess, ExitInv,
      AdapterJoined, StatusReported, ErrorReported, InterruptedBySignal, ExitAtEnd,
      ExitCodeTruthful, Leaving, EndedDone, kOk, kPluginInit, kAdapterFailed, kOutputFailed,
      kInterrupted, Running, AdapterError,
      Goto, Others, adapterVars, mainVars, writerVars, flags
<1>1. CASE AdapterCheck
  BY <1>1 DEF AdapterCheck
<1>2. CASE AdapterEvent
  BY <1>2 DEF AdapterEvent
<1>3. CASE AdapterAgain
  BY <1>3 DEF AdapterAgain
<1>4. CASE AdapterEnd
  BY <1>4 DEF AdapterEnd
<1>5. CASE AdapterEnded
  BY <1>5 DEF AdapterEnded
<1>6. CASE AdapterDiscover
  BY <1>6 DEF AdapterDiscover
<1>7. CASE AdapterPush
  BY <1>7 DEF AdapterPush
<1>8. CASE AdapterStall
  BY <1>8 DEF AdapterStall
<1>9. CASE AdapterStalled
  BY <1>9 DEF AdapterStalled
<1>10. CASE WriterPop
  BY <1>10 DEF WriterPop
<1>11. CASE WriterIdle
  BY <1>11 DEF WriterIdle
<1>12. CASE WriterCheck
  BY <1>12 DEF WriterCheck
<1>13. CASE WriterWrite
  BY <1>13 DEF WriterWrite
<1>14. CASE Start
  BY <1>14 DEF Start
<1>15. CASE ConsumePop
  BY <1>15 DEF ConsumePop
<1>16. CASE Resolve
  BY <1>16 DEF Resolve, FindInstrument
<1>17. CASE Apply
  BY <1>17 DEF Apply
<1>18. CASE PushRow
  BY <1>18 DEF PushRow
<1>19. CASE StallRow
  BY <1>19 DEF StallRow
<1>20. CASE StalledRow
  BY <1>20 DEF StalledRow
<1>21. CASE Emitted
  BY <1>21 DEF Emitted
<1>22. CASE ConsumeEnds
  BY <1>22 DEF ConsumeEnds
<1>23. CASE StopBusy
  BY <1>23 DEF StopBusy
<1>24. CASE ReadEnded
  BY <1>24 DEF ReadEnded
<1>25. CASE ReadEmpty
  BY <1>25 DEF ReadEmpty
<1>26. CASE StopIdle
  BY <1>26 DEF StopIdle
<1>27. CASE RequestStop
  BY <1>27 DEF RequestStop
<1>28. CASE JoinAdapter
  BY <1>28 DEF JoinAdapter
<1>29. CASE Close
  BY <1>29 DEF Close
<1>30. CASE AdapterResult
  BY <1>30 DEF AdapterResult
<1>31. CASE Finish
  BY <1>31 DEF Finish
<1>32. CASE JoinWriter
  BY <1>32 DEF JoinWriter
<1>33. CASE CloseFiles
  BY <1>33 DEF CloseFiles
<1>34. CASE WriterResult
  BY <1>34 DEF WriterResult
<1>35. CASE Exit
  BY <1>35 DEF Exit, ExitCode
<1>36. CASE Unwind
  BY <1>36 DEF Unwind
<1>37. CASE UnwindWriter
  BY <1>37 DEF UnwindWriter
<1>38. CASE UnwindAdapter
  BY <1>38 DEF UnwindAdapter
<1>39. CASE Signal
  BY <1>39 DEF Signal
<1>40. CASE UNCHANGED vars
  BY <1>40 DEF vars
<1> QED
  BY <1>1, <1>2, <1>3, <1>4, <1>5, <1>6, <1>7, <1>8, <1>9, <1>10, <1>11, <1>12, <1>13,
     <1>14, <1>15, <1>16, <1>17, <1>18, <1>19, <1>20, <1>21, <1>22, <1>23, <1>24, <1>25,
     <1>26, <1>27, <1>28, <1>29, <1>30, <1>31, <1>32, <1>33, <1>34, <1>35, <1>36, <1>37,
     <1>38, <1>39, <1>40
     DEF Next, Adapter, Writer, Main, Exited

-----------------------------------------------------------------------------
IInv == EventsInv /\ LoopInv /\ NamesInv /\ RowsInv /\ ExitInv

\* The initial state satisfies the inductive invariant.
LEMMA InitInv == Init => IInv
<1> SUFFICES ASSUME Init PROVE IInv
  OBVIOUS
<1> USE FeedAssumption, CapAssumption DEF Init
<1>1. EventsInv
  <2>1. Len(Feed) \in Nat /\ <<>> \in Seq(Nat) /\ Len(<<>>) = 0
    OBVIOUS
  <2>2. result \in [status : {0, AdapterError}, writer_error : BOOLEAN]
    OBVIOUS
  <2>3. TypeOK
    <3>1. apc \in AdapterPcs /\ mpc \in MainPcs /\ wpc \in WriterPcs
      BY DEF AdapterPcs, MainPcs, WriterPcs
    <3>2. /\ queue \in Seq(Nat) /\ Len(queue) <= QueueCap
          /\ rows \in Seq(Nat) /\ Len(rows) <= RowCap
      BY <2>1
    <3>3. fed \in 0..Len(Feed) /\ pending \in 0..MaxRows
      BY <2>1
    <3>4. exit \in {Running, kOk, kPluginInit, kAdapterFailed, kOutputFailed, kInterrupted}
      OBVIOUS
    <3>5. /\ stop \in BOOLEAN /\ adapterStop \in BOOLEAN /\ failed \in BOOLEAN
          /\ draining \in BOOLEAN /\ aborted \in BOOLEAN /\ writerStop \in BOOLEAN
          /\ ended \in BOOLEAN /\ interrupted \in BOOLEAN
      OBVIOUS
    <3> QED BY <2>2, <3>1, <3>2, <3>3, <3>4, <3>5 DEF TypeOK
  <2>4. EventsInOrder /\ Resolving /\ EndedDone /\ Begun /\ Stalling
    BY <2>1 DEF EventsInOrder, Resolving, EndedDone, Begun, Stalling, InFlight
  <2> QED BY <2>3, <2>4 DEF EventsInv
<1>2. LoopInv
  BY DEF LoopInv, Phases, EmptyAfterEnded, Drained, Leaving
<1>3. NamesInv
  BY DEF NamesInv, Known, UnknownOnlyIfUnnamed
<1>4. RowsInv
  BY DEF RowsInv, Aborting, WriterJoined, FilesAfterSuccess, PoppedThenWritten, WrittenIsPrefix
<1>5. ExitInv
  BY DEF ExitInv, AdapterJoined, StatusReported, ErrorReported, InterruptedBySignal, ExitAtEnd,
         ExitCodeTruthful, Leaving, kOk, kAdapterFailed, kInterrupted, Running
<1> QED BY <1>1, <1>2, <1>3, <1>4, <1>5 DEF IInv

\* Every reachable state satisfies the inductive invariant.
THEOREM Inductive == Spec => []IInv
<1>1. Init => IInv
  BY InitInv
<1>2. IInv /\ [Next]_vars => IInv'
  BY EventsStep, LoopStep, NamesStep, RowsStep, ExitStep DEF IInv
<1> QED BY <1>1, <1>2, PTL DEF Spec

\* Type correctness; in it, that neither queue ever holds more than its capacity.
THEOREM TypeCorrect == Spec => []TypeOK
<1>1. IInv => TypeOK
  BY DEF IInv, EventsInv
<1> QED BY <1>1, Inductive, PTL

\* Events reach the books in the order the adapter returned them, none lost or
\* repeated, whatever the capacity of the queue and the interleaving.
THEOREM NoEventLost == Spec => []EventsInOrder
<1>1. IInv => EventsInOrder
  BY DEF IInv, EventsInv
<1> QED BY <1>1, Inductive, PTL

\* The part of the invariant that the loop's exit rests on.
LEMMA LeavesDrained == IInv => LoopLeftDrained
BY DEF IInv, LoopInv, Drained, Leaving, LoopLeftDrained

\* A run that is not interrupted leaves its loop only after the adapter has ended
\* and every event it returned is applied: Session::Run reads Ended() first.
THEOREM LoopDrainsQueue == Spec => []LoopLeftDrained
BY LeavesDrained, Inductive, PTL

\* No instrument that the adapter names is ever counted as unknown, although two
\* threads share the map: Discover comes before the push of the first event.
THEOREM NamesResolved == Spec => []UnknownOnlyIfUnnamed
<1>1. IInv => UnknownOnlyIfUnnamed
  BY DEF IInv, NamesInv
<1> QED BY <1>1, Inductive, PTL

\* The rows in the files are the first rows the samplers emitted, in order.
THEOREM FilesHoldPrefix == Spec => []WrittenIsPrefix
<1>1. IInv => WrittenIsPrefix
  BY DEF IInv, RowsInv
<1> QED BY <1>1, Inductive, PTL

\* What the exit code says of the adapter, the events and the files is so.
THEOREM ExitCodeSound == Spec => []ExitCodeTruthful
<1>1. IInv => ExitCodeTruthful
  BY DEF IInv, ExitInv
<1> QED BY <1>1, Inductive, PTL
=============================================================================
