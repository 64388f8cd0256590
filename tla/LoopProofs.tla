----------------------------- MODULE LoopProofs -----------------------------
(***************************************************************************)
(* The two modules of a Loop: LoopCore, its iterations, for every set of   *)
(* handles and threads, and then Signals, for every set of signals.  Their *)
(* names differ, so that one module can prove about both.                  *)
(*                                                                         *)
(* No property of LoopCore is inductive alone: IInv adds what the code     *)
(* relies on without saying: which flags can be set where (PhaseInv),      *)
(* that a handle in _ready of a loop without a running idle handle has a   *)
(* wakeup on its way from the moment the handle is appended (WakeInv), and *)
(* that _ready is always the tail of the sequence of submitted handles,    *)
(* whose rest has been dealt with (QueueInv).                              *)
(*                                                                         *)
(* LoopCore implements CallSoonQueue.  QInv adds to IInv that a handle is  *)
(* submitted once and leaves _ready before it runs; with TailInv this      *)
(* makes the handle _on_idle pops the oldest pending one.                  *)
(*                                                                         *)
(* SignalsInv is the inductive invariant of Signals: what is owed is in    *)
(* CPython, in _signals or in the hands of _invoke_signals.                *)
(***************************************************************************)
EXTENDS LoopCore, Signals, SequenceTheorems, TLAPS

RunPhases == {"top", "batch", "callback", "flush", "drained", "unidle", "poll",
              "io", "polled", "wake"}

\* The number of handles that have left _ready.
Gone == Len(scheduled) - Len(ready)

\* Which flags can be set in which phase.
PhaseInv ==
    /\ running <=> phase \in RunPhases
    /\ phase \in {"batch", "callback", "flush", "drained", "unidle"} => idle
    /\ todo > 0 => phase \in {"batch", "callback"}
    /\ closed <=> phase \in {"closing", "clearing", "teardown", "closed"}

StopInv ==
    /\ stopping => running
    /\ stopping => idle \/ stopFlag
    /\ stopFlag => stopping

WakeInv ==
    /\ running /\ ~idle /\ phase # "wake" /\ ready # <<>> =>
            async \/ SendComing
    /\ phase = "unidle" /\ ready # <<>> => async \/ SendComing

QueueInv == todo <= Len(ready)

\* _ready has not been cleared by _close.
Intact == phase \notin {"teardown", "closed"}

\* _ready is the tail of what was submitted; the rest has been dealt with.
TailInv ==
    Intact =>
        /\ Len(ready) <= Len(scheduled)
        /\ \A i \in 1..Len(ready) : ready[i] = scheduled[Gone + i]
        /\ \A i \in 1..Gone : scheduled[i] \in ran \cup cancelled

\* Where the batch's end, mark, lies with respect to what left _ready.
BatchInv ==
    Intact =>
        /\ mark <= Len(scheduled)
        /\ phase \in {"batch", "callback"} => mark = Gone + todo
        /\ phase = "callback" => Gone > 0 /\ current = scheduled[Gone]
        /\ phase \in {"flush", "drained", "unidle"} => mark <= Gone
        /\ stopFlag /\ ~lastError => mark <= Gone

\* A thread holds a handle exactly while it is in call_soon_threadsafe.
ThreadInv == \A t \in Threads : tpc[t] = "quiet" <=> targ[t] = NoHandle

IInv ==
    /\ TypeOK /\ ThreadInv /\ PhaseInv /\ StopInv /\ WakeInv
    /\ QueueInv /\ TailInv /\ BatchInv

-----------------------------------------------------------------------------
(* Type correctness.                                                       *)

LEMMA TypeInit == Init => TypeOK
<1> SUFFICES ASSUME Init PROVE TypeOK
  OBVIOUS
<1>1. ready \in Seq(Handles) /\ scheduled \in Seq(Handles)
  BY EmptySeq DEF Init
<1>2. /\ tpc \in [Threads -> {"quiet", "checked", "appended"}]
      /\ targ \in [Threads -> Handles \cup {NoHandle}]
  BY DEF Init
<1> QED
  BY <1>1, <1>2 DEF Init, TypeOK, DataOK, FlagsOK, Phases

\* Taking the head off _ready, which is possible while ntodo is not used up.
LEMMA PopFacts ==
  ASSUME TypeOK, QueueInv, PopLeft
  PROVE  /\ ready # <<>> /\ todo > 0 /\ todo' = todo - 1
         /\ Head(ready) = ready[1] /\ Head(ready) \in Handles
         /\ ready' \in Seq(Handles)
         /\ Len(ready') = Len(ready) - 1
         /\ \A i \in 1..Len(ready') : ready'[i] = ready[i + 1]
<1>1. todo > 0 /\ Len(ready) >= 1 /\ todo' = todo - 1 /\ ready' = Tail(ready)
  BY DEF TypeOK, DataOK, QueueInv, PopLeft, BatchHasNext
<1>2. ready \in Seq(Handles) /\ ready # <<>>
  BY <1>1, EmptySeq DEF TypeOK, DataOK
<1>3. Head(ready) = ready[1]
  BY <1>2
<1> QED
  BY <1>1, <1>2, <1>3, HeadTailProperties

LEMMA AppendFacts ==
  ASSUME TypeOK, NEW h \in Handles, AppendReady(h)
  PROVE  /\ ready' \in Seq(Handles) /\ scheduled' \in Seq(Handles)
         /\ Len(ready') = Len(ready) + 1
         /\ Len(scheduled') = Len(scheduled) + 1
         /\ \A i \in 1..Len(ready) : ready'[i] = ready[i]
         /\ \A i \in 1..Len(scheduled) : scheduled'[i] = scheduled[i]
         /\ ready'[Len(ready) + 1] = h
         /\ scheduled'[Len(scheduled) + 1] = h
BY AppendProperties DEF TypeOK, DataOK, AppendReady

\* What a thread inside call_soon_threadsafe appends is a handle.
LEMMA TargetFacts ==
  ASSUME TypeOK, ThreadInv, NEW t \in Threads, ThreadAppend(t)
  PROVE  targ[t] \in Handles /\ AppendReady(targ[t])
BY DEF TypeOK, DataOK, ThreadInv, ThreadAppend

\* _stop() leaves the idle handle running, unless uv_stop was called already.
LEMMA StopFacts ==
  ASSUME FlagsOK, NEW exc \in BOOLEAN, Stop(exc)
  PROVE  /\ stopping'
         /\ idle => idle'
         /\ ~stopping => idle'
BY DEF FlagsOK, Stop, RecordError

\* One handle more has left the queue, and it is the oldest of those in it.
LEMMA PopTail ==
  ASSUME TypeOK, QueueInv, TailInv, PopLeft, scheduled' = scheduled,
         ran \subseteq ran', cancelled \subseteq cancelled',
         Head(ready) \in ran' \cup cancelled', phase' \in {"batch", "callback"}
  PROVE  /\ TailInv'
         /\ Gone \in Nat /\ Gone' = Gone + 1
         /\ Gone' <= Len(scheduled) /\ scheduled[Gone'] = Head(ready)
<1>1. /\ Len(ready) \in Nat /\ Len(scheduled) \in Nat
      /\ Len(ready) <= Len(scheduled)
      /\ \A i \in 1..Len(ready) : ready[i] = scheduled[Gone + i]
      /\ \A i \in 1..Gone : scheduled[i] \in ran \cup cancelled
  <2>1. Len(ready) \in Nat /\ Len(scheduled) \in Nat
    BY DEF TypeOK, DataOK
  <2>2. Intact
    BY DEF Intact, PopLeft
  <2> QED
    BY <2>1, <2>2 DEF TailInv
<1>2. Len(ready') = Len(ready) - 1
  BY PopFacts
<1>3. Gone \in Nat /\ Gone' = Gone + 1 /\ Len(ready) >= 1
  <2>1. Len(ready) >= 1
    BY PopFacts, EmptySeq DEF TypeOK, DataOK
  <2> QED
    BY <1>1, <1>2, <2>1 DEF Gone
<1>4. Gone' <= Len(scheduled) /\ Len(ready') <= Len(scheduled')
  BY <1>1, <1>2, <1>3 DEF Gone
<1>5. scheduled[Gone'] = Head(ready)
  BY <1>1, <1>2, <1>3, PopFacts
<1>6. \A i \in 1..Len(ready') : ready'[i] = scheduled'[Gone' + i]
  <2> SUFFICES ASSUME NEW i \in 1..Len(ready')
               PROVE  ready'[i] = scheduled'[Gone' + i]
    OBVIOUS
  <2>1. i + 1 \in 1..Len(ready) /\ Gone + (i + 1) = Gone' + i
    BY <1>1, <1>2, <1>3
  <2>2. ready'[i] = ready[i + 1]
    BY PopFacts
  <2> QED
    BY <1>1, <2>1, <2>2
<1>7. \A i \in 1..Gone' : scheduled'[i] \in ran' \cup cancelled'
  <2> SUFFICES ASSUME NEW i \in 1..Gone'
               PROVE  scheduled'[i] \in ran' \cup cancelled'
    OBVIOUS
  <2>1. CASE i = Gone'
    BY <2>1, <1>5
  <2>2. CASE i # Gone'
    <3>1. i \in 1..Gone
      BY <2>2, <1>3
    <3> QED
      BY <3>1, <1>1
  <2> QED
    BY <2>1, <2>2
<1> QED
  BY <1>2, <1>3, <1>4, <1>5, <1>6, <1>7 DEF TailInv

\* A handle more has joined it at its end.
LEMMA AppendTail ==
  ASSUME TypeOK, TailInv, NEW h \in Handles, AppendReady(h),
         UNCHANGED <<phase, ran, cancelled>>
  PROVE  /\ TailInv'
         /\ Gone' = Gone
         /\ Len(scheduled') = Len(scheduled) + 1
         /\ Intact => /\ Gone \in Nat /\ Gone <= Len(scheduled)
                      /\ \A i \in 1..Gone : scheduled'[i] = scheduled[i]
<1>1. Len(ready) \in Nat /\ Len(scheduled) \in Nat
  BY DEF TypeOK, DataOK
<1>2. Gone' = Gone
  BY <1>1, AppendFacts DEF Gone
<1>3. CASE Intact
  <2>1. /\ Len(ready) <= Len(scheduled)
        /\ \A i \in 1..Len(ready) : ready[i] = scheduled[Gone + i]
        /\ \A i \in 1..Gone : scheduled[i] \in ran \cup cancelled
    BY <1>3 DEF TailInv
  <2>2. Gone \in Nat /\ Gone <= Len(scheduled)
        /\ Gone + Len(ready) = Len(scheduled)
    BY <1>1, <2>1 DEF Gone
  <2>3. ASSUME NEW i \in 1..Len(ready')
        PROVE  ready'[i] = scheduled'[Gone' + i]
    <3>1. CASE i = Len(ready) + 1
      <4>1. Gone' + i = Len(scheduled) + 1
        BY <1>1, <1>2, <2>2, <3>1
      <4> QED
        BY <3>1, <4>1, AppendFacts
    <3>2. CASE i # Len(ready) + 1
      <4>1. i \in 1..Len(ready) /\ Gone + i \in 1..Len(scheduled)
        BY <1>1, <2>2, <3>2, AppendFacts
      <4> QED
        BY <1>2, <2>1, <4>1, AppendFacts
    <3> QED
      BY <3>1, <3>2
  <2>4. ASSUME NEW i \in 1..Gone
        PROVE  scheduled'[i] = scheduled[i] /\ scheduled[i] \in ran \cup cancelled
    <3>1. i \in 1..Len(scheduled)
      BY <1>1, <2>2
    <3> QED
      BY <2>1, <3>1, AppendFacts
  <2>5. Len(ready') <= Len(scheduled')
    BY <1>1, <2>1, AppendFacts
  <2> QED
    BY <1>2, <2>2, <2>3, <2>4, <2>5, AppendFacts DEF TailInv
<1>4. CASE ~Intact
  BY <1>2, <1>4, AppendFacts DEF TailInv, Intact
<1> QED
  BY <1>2, <1>3, <1>4

LEMMA AppendBatch ==
  ASSUME TypeOK, TailInv, BatchInv, NEW h \in Handles, AppendReady(h),
         UNCHANGED <<phase, ran, cancelled>>,
         UNCHANGED <<todo, current, mark, stopFlag, lastError>>
  PROVE  BatchInv'
<1>1. /\ Gone' = Gone /\ Len(scheduled') = Len(scheduled) + 1
      /\ Intact => /\ Gone \in Nat
                   /\ \A i \in 1..Gone : scheduled'[i] = scheduled[i]
  BY AppendTail
<1>2. mark \in Nat /\ Len(scheduled) \in Nat
  BY DEF TypeOK, DataOK
<1> QED
  BY <1>1, <1>2 DEF BatchInv, Intact

-----------------------------------------------------------------------------
(* Each part of IInv holds initially and is kept by every step.            *)

LEMMA InvInit == Init => IInv
<1> SUFFICES ASSUME Init PROVE IInv
  OBVIOUS
<1>1. TypeOK
  BY TypeInit
<1>2. ThreadInv
  BY DEF Init, ThreadInv
<1>3. PhaseInv
  BY DEF Init, PhaseInv, RunPhases
<1>4. StopInv
  BY DEF Init, StopInv
<1>5. WakeInv
  BY DEF Init, WakeInv
<1>6. Len(ready) = 0 /\ Len(scheduled) = 0
  BY EmptySeq DEF Init
<1>7. QueueInv /\ TailInv /\ BatchInv
  BY <1>6 DEF Init, QueueInv, TailInv, BatchInv, Gone
<1> QED
  BY <1>1, <1>2, <1>3, <1>4, <1>5, <1>7 DEF IInv

LEMMA FlagsStep ==
  ASSUME FlagsOK, [Next]_vars
  PROVE  FlagsOK'
<1> USE DEF FlagsOK, loopVars
<1>1. CASE Iterate
  BY <1>1 DEF Iterate
<1>2. CASE PopCancelled
  BY <1>2 DEF PopCancelled
<1>3. CASE PopStop
  BY <1>3 DEF PopStop, Stop, RecordError
<1>4. CASE PopCallback
  BY <1>4 DEF PopCallback
<1>5. CASE BatchEnd \/ BatchFlush \/ FlushReturn
  BY <1>5 DEF BatchEnd, BatchFlush, FlushReturn
<1>6. CASE CallbackReturn
  BY <1>6 DEF CallbackReturn
<1>7. CASE CallbackRaise
  BY <1>7 DEF CallbackRaise, Stop, RecordError
<1>8. CASE IdleKept \/ IdleUnneeded \/ IdleStop
  BY <1>8 DEF IdleKept, IdleUnneeded, IdleStop, UvStop
<1>9. CASE PollTimeout \/ PollWake \/ PollIO \/ IOReturn
  BY <1>9 DEF PollTimeout, PollWake, PollIO, IOReturn
<1>10. CASE IORaise \/ FlushRaise
  BY <1>10 DEF IORaise, FlushRaise, Stop, RecordError
<1>11. CASE OnWake
  BY <1>11 DEF OnWake, HasWork
<1>12. CASE RunReturns
  BY <1>12 DEF RunReturns, StoppingAfterRun
<1>13. CASE CloseCancel \/ CloseClear \/ CloseHandles
  BY <1>13 DEF CloseCancel, CloseClear, CloseHandles
<1>14. ASSUME User PROVE FlagsOK'
  <2>1. ASSUME NEW h \in Handles, CallSoon(h) PROVE FlagsOK'
    BY <2>1 DEF CallSoon, UserCode
  <2>2. ASSUME NEW h \in Handles, Cancel(h) PROVE FlagsOK'
    BY <2>2 DEF Cancel, UserCode
  <2>3. CASE RunForever
    BY <2>3 DEF RunForever, UserCode
  <2>4. CASE CloseBegin
    BY <2>4 DEF CloseBegin, CloseAllowed, UserCode
  <2> QED
    BY <1>14, <2>1, <2>2, <2>3, <2>4 DEF User
<1>15. ASSUME NEW t \in Threads, OtherThread(t) PROVE FlagsOK'
  <2>1. ASSUME NEW h \in Handles, ThreadCheck(t, h) PROVE FlagsOK'
    BY <2>1 DEF ThreadCheck
  <2>2. CASE ThreadAppend(t)
    BY <2>2 DEF ThreadAppend
  <2>3. CASE ThreadSend(t)
    BY <2>3 DEF ThreadSend, AsyncIsAlive
  <2> QED
    BY <1>15, <2>1, <2>2, <2>3 DEF OtherThread
<1>16. CASE UNCHANGED vars
  BY <1>16 DEF vars
<1> QED
  BY <1>1, <1>2, <1>3, <1>4, <1>5, <1>6, <1>7, <1>8, <1>9, <1>10, <1>11, <1>12,
     <1>13, <1>14, <1>15, <1>16 DEF Next, LoopThread, Batch, Closing

LEMMA DataStep ==
  ASSUME TypeOK, ThreadInv, QueueInv, [Next]_vars
  PROVE  DataOK'
<1> USE DEF DataOK, TypeOK, Phases, threadVars, batchVars
<1>1. CASE Iterate
  BY <1>1 DEF Iterate
<1>2. CASE PopCancelled
  BY <1>2, PopFacts DEF PopCancelled
<1>3. CASE PopStop
  BY <1>3, PopFacts DEF PopStop, Stop, RecordError
<1>4. CASE PopCallback
  BY <1>4, PopFacts DEF PopCallback
<1>5. CASE BatchEnd \/ BatchFlush \/ FlushReturn
  BY <1>5 DEF BatchEnd, BatchFlush, FlushReturn
<1>6. CASE CallbackReturn
  BY <1>6 DEF CallbackReturn
<1>7. CASE CallbackRaise
  BY <1>7 DEF CallbackRaise, Stop, RecordError
<1>8. CASE IdleKept \/ IdleUnneeded \/ IdleStop
  BY <1>8 DEF IdleKept, IdleUnneeded, IdleStop, UvStop
<1>9. CASE PollTimeout \/ PollWake \/ PollIO \/ IOReturn
  BY <1>9 DEF PollTimeout, PollWake, PollIO, IOReturn
<1>10. CASE IORaise \/ FlushRaise
  BY <1>10 DEF IORaise, FlushRaise, Stop, RecordError
<1>11. CASE OnWake
  BY <1>11 DEF OnWake, HasWork
<1>12. CASE RunReturns
  BY <1>12 DEF RunReturns, StoppingAfterRun
<1>13. CASE CloseCancel \/ CloseClear \/ CloseHandles
  BY <1>13, EmptySeq, RangeOfSeq DEF CloseCancel, CloseClear, CloseHandles
<1>14. ASSUME User PROVE DataOK'
  <2>1. ASSUME NEW h \in Handles, CallSoon(h) PROVE DataOK'
    BY <2>1, AppendFacts DEF CallSoon, UserCode
  <2>2. ASSUME NEW h \in Handles, Cancel(h) PROVE DataOK'
    BY <2>2 DEF Cancel, UserCode
  <2>3. CASE RunForever
    BY <2>3 DEF RunForever, UserCode
  <2>4. CASE CloseBegin
    BY <2>4 DEF CloseBegin, CloseAllowed, UserCode
  <2> QED
    BY <1>14, <2>1, <2>2, <2>3, <2>4 DEF User
<1>15. ASSUME NEW t \in Threads, OtherThread(t) PROVE DataOK'
  <2>1. ASSUME NEW h \in Handles, ThreadCheck(t, h) PROVE DataOK'
    BY <2>1 DEF ThreadCheck
  <2>2. CASE ThreadAppend(t)
    <3>1. targ[t] \in Handles /\ AppendReady(targ[t])
      BY <2>2, TargetFacts
    <3> QED
      BY <2>2, <3>1, AppendFacts DEF ThreadAppend
  <2>3. CASE ThreadSend(t)
    BY <2>3 DEF ThreadSend, AsyncIsAlive
  <2> QED
    BY <1>15, <2>1, <2>2, <2>3 DEF OtherThread
<1>16. CASE UNCHANGED vars
  BY <1>16 DEF vars
<1> QED
  BY <1>1, <1>2, <1>3, <1>4, <1>5, <1>6, <1>7, <1>8, <1>9, <1>10, <1>11, <1>12,
     <1>13, <1>14, <1>15, <1>16 DEF Next, LoopThread, Batch, Closing

LEMMA PhaseStep ==
  ASSUME TypeOK, PhaseInv, [Next]_vars
  PROVE  PhaseInv'
<1> USE DEF TypeOK, DataOK, PhaseInv, RunPhases, Phases, loopVars, batchVars
<1>1. CASE Iterate
  BY <1>1 DEF Iterate
<1>2. CASE PopCancelled
  BY <1>2 DEF PopCancelled, PopLeft, BatchHasNext
<1>3. CASE PopStop
  BY <1>3, StopFacts DEF PopStop, PopLeft, BatchHasNext
<1>4. CASE PopCallback
  BY <1>4 DEF PopCallback, PopLeft, BatchHasNext
<1>5. CASE BatchEnd \/ BatchFlush \/ FlushReturn
  BY <1>5 DEF BatchEnd, BatchFlush, FlushReturn, BatchHasNext
<1>6. CASE CallbackReturn
  BY <1>6 DEF CallbackReturn
<1>7. CASE CallbackRaise
  BY <1>7, StopFacts DEF CallbackRaise
<1>8. CASE IdleKept \/ IdleUnneeded \/ IdleStop
  BY <1>8 DEF IdleKept, IdleUnneeded, IdleStop, UvStop
<1>9. CASE PollTimeout \/ PollWake \/ PollIO \/ IOReturn
  BY <1>9 DEF PollTimeout, PollWake, PollIO, IOReturn
<1>10. CASE IORaise \/ FlushRaise
  <2>1. CASE IORaise
    BY <1>10, <2>1, StopFacts DEF IORaise
  <2>2. CASE FlushRaise
    BY <1>10, <2>2, StopFacts DEF FlushRaise
  <2> QED
    BY <1>10, <2>1, <2>2
<1>11. CASE OnWake
  BY <1>11 DEF OnWake, HasWork
<1>12. CASE RunReturns
  BY <1>12 DEF RunReturns, StoppingAfterRun
<1>13. CASE CloseCancel \/ CloseClear \/ CloseHandles
  BY <1>13 DEF CloseCancel, CloseClear, CloseHandles
<1>14. ASSUME User PROVE PhaseInv'
  <2>1. ASSUME NEW h \in Handles, CallSoon(h) PROVE PhaseInv'
    BY <2>1 DEF CallSoon, UserCode
  <2>2. ASSUME NEW h \in Handles, Cancel(h) PROVE PhaseInv'
    BY <2>2 DEF Cancel, UserCode
  <2>3. CASE RunForever
    BY <2>3 DEF RunForever, UserCode
  <2>4. CASE CloseBegin
    BY <2>4 DEF CloseBegin, CloseAllowed, UserCode
  <2> QED
    BY <1>14, <2>1, <2>2, <2>3, <2>4 DEF User
<1>15. ASSUME NEW t \in Threads, OtherThread(t) PROVE PhaseInv'
  <2>1. ASSUME NEW h \in Handles, ThreadCheck(t, h) PROVE PhaseInv'
    BY <2>1 DEF ThreadCheck
  <2>2. CASE ThreadAppend(t)
    BY <2>2 DEF ThreadAppend
  <2>3. CASE ThreadSend(t)
    BY <2>3 DEF ThreadSend, AsyncIsAlive
  <2> QED
    BY <1>15, <2>1, <2>2, <2>3 DEF OtherThread
<1>16. CASE UNCHANGED vars
  BY <1>16 DEF vars
<1> QED
  BY <1>1, <1>2, <1>3, <1>4, <1>5, <1>6, <1>7, <1>8, <1>9, <1>10, <1>11, <1>12,
     <1>13, <1>14, <1>15, <1>16 DEF Next, LoopThread, Batch, Closing

LEMMA StopStep ==
  ASSUME TypeOK, PhaseInv, StopInv, [Next]_vars
  PROVE  StopInv'
<1> USE DEF FlagsOK, TypeOK, PhaseInv, StopInv, RunPhases, loopVars
<1>1. CASE Iterate
  BY <1>1 DEF Iterate
<1>2. CASE PopCancelled
  BY <1>2 DEF PopCancelled, PopLeft, BatchHasNext
<1>3. CASE PopStop
  BY <1>3, StopFacts DEF PopStop, PopLeft, BatchHasNext
<1>4. CASE PopCallback
  BY <1>4 DEF PopCallback, PopLeft, BatchHasNext
<1>5. CASE BatchEnd \/ BatchFlush \/ FlushReturn
  BY <1>5 DEF BatchEnd, BatchFlush, FlushReturn, BatchHasNext
<1>6. CASE CallbackReturn
  BY <1>6 DEF CallbackReturn
<1>7. CASE CallbackRaise
  BY <1>7, StopFacts DEF CallbackRaise
<1>8. CASE IdleKept \/ IdleUnneeded \/ IdleStop
  BY <1>8 DEF IdleKept, IdleUnneeded, IdleStop, UvStop
<1>9. CASE PollTimeout \/ PollWake \/ PollIO \/ IOReturn
  BY <1>9 DEF PollTimeout, PollWake, PollIO, IOReturn
<1>10. CASE IORaise \/ FlushRaise
  <2>1. CASE IORaise
    BY <1>10, <2>1, StopFacts DEF IORaise
  <2>2. CASE FlushRaise
    BY <1>10, <2>2, StopFacts DEF FlushRaise
  <2> QED
    BY <1>10, <2>1, <2>2
<1>11. CASE OnWake
  BY <1>11 DEF OnWake, HasWork
<1>12. CASE RunReturns
  BY <1>12 DEF RunReturns, StoppingAfterRun
<1>13. CASE CloseCancel \/ CloseClear \/ CloseHandles
  BY <1>13 DEF CloseCancel, CloseClear, CloseHandles
<1>14. ASSUME User PROVE StopInv'
  <2>1. ASSUME NEW h \in Handles, CallSoon(h) PROVE StopInv'
    BY <2>1 DEF CallSoon, UserCode
  <2>2. ASSUME NEW h \in Handles, Cancel(h) PROVE StopInv'
    BY <2>2 DEF Cancel, UserCode
  <2>3. CASE RunForever
    BY <2>3 DEF RunForever, UserCode
  <2>4. CASE CloseBegin
    BY <2>4 DEF CloseBegin, CloseAllowed, UserCode
  <2> QED
    BY <1>14, <2>1, <2>2, <2>3, <2>4 DEF User
<1>15. ASSUME NEW t \in Threads, OtherThread(t) PROVE StopInv'
  <2>1. ASSUME NEW h \in Handles, ThreadCheck(t, h) PROVE StopInv'
    BY <2>1 DEF ThreadCheck
  <2>2. CASE ThreadAppend(t)
    BY <2>2 DEF ThreadAppend
  <2>3. CASE ThreadSend(t)
    BY <2>3 DEF ThreadSend, AsyncIsAlive
  <2> QED
    BY <1>15, <2>1, <2>2, <2>3 DEF OtherThread
<1>16. CASE UNCHANGED vars
  BY <1>16 DEF vars
<1> QED
  BY <1>1, <1>2, <1>3, <1>4, <1>5, <1>6, <1>7, <1>8, <1>9, <1>10, <1>11, <1>12,
     <1>13, <1>14, <1>15, <1>16 DEF Next, LoopThread, Batch, Closing

LEMMA ThreadStep ==
  ASSUME TypeOK, ThreadInv, [Next]_vars
  PROVE  ThreadInv'
<1> USE DEF TypeOK, DataOK, ThreadInv, threadVars
<1>1. CASE Iterate
  BY <1>1 DEF Iterate
<1>2. CASE PopCancelled
  BY <1>2 DEF PopCancelled
<1>3. CASE PopStop
  BY <1>3 DEF PopStop, Stop, RecordError
<1>4. CASE PopCallback
  BY <1>4 DEF PopCallback
<1>5. CASE BatchEnd \/ BatchFlush \/ FlushReturn
  BY <1>5 DEF BatchEnd, BatchFlush, FlushReturn
<1>6. CASE CallbackReturn
  BY <1>6 DEF CallbackReturn
<1>7. CASE CallbackRaise
  BY <1>7 DEF CallbackRaise, Stop, RecordError
<1>8. CASE IdleKept \/ IdleUnneeded \/ IdleStop
  BY <1>8 DEF IdleKept, IdleUnneeded, IdleStop, UvStop
<1>9. CASE PollTimeout \/ PollWake \/ PollIO \/ IOReturn
  BY <1>9 DEF PollTimeout, PollWake, PollIO, IOReturn
<1>10. CASE IORaise \/ FlushRaise
  BY <1>10 DEF IORaise, FlushRaise, Stop, RecordError
<1>11. CASE OnWake
  BY <1>11 DEF OnWake, HasWork
<1>12. CASE RunReturns
  BY <1>12 DEF RunReturns, StoppingAfterRun
<1>13. CASE CloseCancel \/ CloseClear \/ CloseHandles
  BY <1>13 DEF CloseCancel, CloseClear, CloseHandles
<1>14. ASSUME User PROVE ThreadInv'
  <2>1. ASSUME NEW h \in Handles, CallSoon(h) PROVE ThreadInv'
    BY <2>1 DEF CallSoon, UserCode
  <2>2. ASSUME NEW h \in Handles, Cancel(h) PROVE ThreadInv'
    BY <2>2 DEF Cancel, UserCode
  <2>3. CASE RunForever
    BY <2>3 DEF RunForever, UserCode
  <2>4. CASE CloseBegin
    BY <2>4 DEF CloseBegin, CloseAllowed, UserCode
  <2> QED
    BY <1>14, <2>1, <2>2, <2>3, <2>4 DEF User
<1>15. ASSUME NEW t \in Threads, OtherThread(t) PROVE ThreadInv'
  <2>1. ASSUME NEW h \in Handles, ThreadCheck(t, h) PROVE ThreadInv'
    BY <2>1, HandlesAssumption DEF ThreadCheck
  <2>2. CASE ThreadAppend(t)
    BY <2>2 DEF ThreadAppend
  <2>3. CASE ThreadSend(t)
    BY <2>3 DEF ThreadSend, AsyncIsAlive
  <2> QED
    BY <1>15, <2>1, <2>2, <2>3 DEF OtherThread
<1>16. CASE UNCHANGED vars
  BY <1>16 DEF vars
<1> QED
  BY <1>1, <1>2, <1>3, <1>4, <1>5, <1>6, <1>7, <1>8, <1>9, <1>10, <1>11, <1>12,
     <1>13, <1>14, <1>15, <1>16 DEF Next, LoopThread, Batch, Closing

LEMMA WakeStep ==
  ASSUME TypeOK, ThreadInv, PhaseInv, QueueInv, StopInv, WakeInv, [Next]_vars
  PROVE  WakeInv'
<1> USE DEF TypeOK, FlagsOK, DataOK, PhaseInv, WakeInv, SendComing, RunPhases,
        loopVars, threadVars
<1>1. CASE Iterate
  BY <1>1 DEF Iterate
<1>2. CASE PopCancelled
  BY <1>2, PopFacts DEF PopCancelled, PopLeft
<1>3. CASE PopStop
  BY <1>3, PopFacts, StopFacts DEF PopStop, PopLeft
<1>4. CASE PopCallback
  BY <1>4, PopFacts DEF PopCallback, PopLeft
<1>5. CASE BatchEnd \/ BatchFlush \/ FlushReturn
  BY <1>5 DEF BatchEnd, BatchFlush, FlushReturn
<1>6. CASE CallbackReturn
  BY <1>6 DEF CallbackReturn
<1>7. CASE CallbackRaise
  BY <1>7, StopFacts DEF CallbackRaise
<1>8. CASE IdleKept \/ IdleUnneeded \/ IdleStop
  BY <1>8 DEF IdleKept, IdleUnneeded, IdleStop, UvStop, StaysIdle
<1>9. CASE PollTimeout \/ PollWake \/ PollIO \/ IOReturn
  BY <1>9 DEF PollTimeout, PollWake, PollIO, IOReturn
<1>10. CASE IORaise \/ FlushRaise
  <2>1. CASE IORaise
    BY <1>10, <2>1, StopFacts DEF IORaise
  <2>2. CASE FlushRaise
    BY <1>10, <2>2, StopFacts DEF FlushRaise
  <2> QED
    BY <1>10, <2>1, <2>2
<1>11. CASE OnWake
  BY <1>11 DEF OnWake, HasWork
<1>12. CASE RunReturns
  BY <1>12 DEF RunReturns, StoppingAfterRun
<1>13. CASE CloseCancel \/ CloseClear \/ CloseHandles
  BY <1>13 DEF CloseCancel, CloseClear, CloseHandles
<1>14. ASSUME User PROVE WakeInv'
  <2>1. ASSUME NEW h \in Handles, CallSoon(h) PROVE WakeInv'
    BY <2>1 DEF CallSoon, UserCode
  <2>2. ASSUME NEW h \in Handles, Cancel(h) PROVE WakeInv'
    BY <2>2 DEF Cancel, UserCode
  <2>3. CASE RunForever
    BY <2>3 DEF RunForever, UserCode
  <2>4. CASE CloseBegin
    BY <2>4 DEF CloseBegin, CloseAllowed, UserCode
  <2> QED
    BY <1>14, <2>1, <2>2, <2>3, <2>4 DEF User
<1>15. ASSUME NEW t \in Threads, OtherThread(t) PROVE WakeInv'
  <2>1. ASSUME NEW h \in Handles, ThreadCheck(t, h) PROVE WakeInv'
    BY <2>1 DEF ThreadCheck
  <2>2. CASE ThreadAppend(t)
    BY <2>2 DEF ThreadAppend
  <2>3. CASE ThreadSend(t)
    BY <2>3 DEF ThreadSend, AsyncIsAlive
  <2> QED
    BY <1>15, <2>1, <2>2, <2>3 DEF OtherThread
<1>16. CASE UNCHANGED vars
  BY <1>16 DEF vars
<1> QED
  BY <1>1, <1>2, <1>3, <1>4, <1>5, <1>6, <1>7, <1>8, <1>9, <1>10, <1>11, <1>12,
     <1>13, <1>14, <1>15, <1>16 DEF Next, LoopThread, Batch, Closing

LEMMA QueueStep ==
  ASSUME TypeOK, ThreadInv, PhaseInv, QueueInv, [Next]_vars
  PROVE  QueueInv'
<1> USE DEF TypeOK, DataOK, PhaseInv, QueueInv, batchVars
<1>1. CASE Iterate
  BY <1>1 DEF Iterate
<1>2. CASE PopCancelled
  BY <1>2, PopFacts DEF PopCancelled
<1>3. CASE PopStop
  BY <1>3, PopFacts DEF PopStop, Stop, RecordError
<1>4. CASE PopCallback
  BY <1>4, PopFacts DEF PopCallback
<1>5. CASE BatchEnd \/ BatchFlush \/ FlushReturn
  BY <1>5 DEF BatchEnd, BatchFlush, FlushReturn
<1>6. CASE CallbackReturn
  BY <1>6 DEF CallbackReturn
<1>7. CASE CallbackRaise
  BY <1>7 DEF CallbackRaise, Stop, RecordError
<1>8. CASE IdleKept \/ IdleUnneeded \/ IdleStop
  BY <1>8 DEF IdleKept, IdleUnneeded, IdleStop, UvStop
<1>9. CASE PollTimeout \/ PollWake \/ PollIO \/ IOReturn
  BY <1>9 DEF PollTimeout, PollWake, PollIO, IOReturn
<1>10. CASE IORaise \/ FlushRaise
  BY <1>10 DEF IORaise, FlushRaise, Stop, RecordError
<1>11. CASE OnWake
  BY <1>11 DEF OnWake, HasWork
<1>12. CASE RunReturns
  BY <1>12 DEF RunReturns, StoppingAfterRun
<1>13. CASE CloseCancel \/ CloseClear \/ CloseHandles
  BY <1>13, EmptySeq DEF CloseCancel, CloseClear, CloseHandles
<1>14. ASSUME User PROVE QueueInv'
  <2>1. ASSUME NEW h \in Handles, CallSoon(h) PROVE QueueInv'
    BY <2>1, AppendFacts DEF CallSoon, UserCode
  <2>2. ASSUME NEW h \in Handles, Cancel(h) PROVE QueueInv'
    BY <2>2 DEF Cancel, UserCode
  <2>3. CASE RunForever
    BY <2>3 DEF RunForever, UserCode
  <2>4. CASE CloseBegin
    BY <2>4 DEF CloseBegin, CloseAllowed, UserCode
  <2> QED
    BY <1>14, <2>1, <2>2, <2>3, <2>4 DEF User
<1>15. ASSUME NEW t \in Threads, OtherThread(t) PROVE QueueInv'
  <2>1. ASSUME NEW h \in Handles, ThreadCheck(t, h) PROVE QueueInv'
    BY <2>1 DEF ThreadCheck
  <2>2. CASE ThreadAppend(t)
    <3>1. targ[t] \in Handles /\ AppendReady(targ[t])
      BY <2>2, TargetFacts
    <3> QED
      BY <2>2, <3>1, AppendFacts DEF ThreadAppend
  <2>3. CASE ThreadSend(t)
    BY <2>3 DEF ThreadSend, AsyncIsAlive
  <2> QED
    BY <1>15, <2>1, <2>2, <2>3 DEF OtherThread
<1>16. CASE UNCHANGED vars
  BY <1>16 DEF vars
<1> QED
  BY <1>1, <1>2, <1>3, <1>4, <1>5, <1>6, <1>7, <1>8, <1>9, <1>10, <1>11, <1>12,
     <1>13, <1>14, <1>15, <1>16 DEF Next, LoopThread, Batch, Closing

LEMMA TailStep ==
  ASSUME TypeOK, ThreadInv, PhaseInv, QueueInv, TailInv, [Next]_vars
  PROVE  TailInv'
<1> USE DEF Intact, Gone, TailInv
<1>1. CASE Iterate
  BY <1>1 DEF Iterate
<1>2. CASE PopCancelled
  <2>1. /\ PopLeft /\ scheduled' = scheduled /\ ran \subseteq ran'
        /\ cancelled' = cancelled /\ Head(ready) \in ran' \cup cancelled'
        /\ phase' \in {"batch", "callback"}
    BY <1>2 DEF PopCancelled, PopLeft
  <2> QED
    BY <2>1, PopTail
<1>3. CASE PopStop
  <2>1. /\ PopLeft /\ scheduled' = scheduled /\ ran \subseteq ran'
        /\ cancelled' = cancelled /\ Head(ready) \in ran' \cup cancelled'
        /\ phase' \in {"batch", "callback"}
    BY <1>3 DEF PopStop, PopLeft
  <2> QED
    BY <2>1, PopTail
<1>4. CASE PopCallback
  <2>1. /\ PopLeft /\ scheduled' = scheduled /\ ran \subseteq ran'
        /\ cancelled' = cancelled /\ Head(ready) \in ran' \cup cancelled'
        /\ phase' \in {"batch", "callback"}
    BY <1>4 DEF PopCallback, PopLeft
  <2> QED
    BY <2>1, PopTail
<1>5. CASE BatchEnd \/ BatchFlush \/ FlushReturn
  BY <1>5 DEF BatchEnd, BatchFlush, FlushReturn
<1>6. CASE CallbackReturn
  BY <1>6 DEF CallbackReturn
<1>7. CASE CallbackRaise
  BY <1>7 DEF CallbackRaise, Stop, RecordError
<1>8. CASE IdleKept \/ IdleUnneeded \/ IdleStop
  BY <1>8 DEF IdleKept, IdleUnneeded, IdleStop, UvStop
<1>9. CASE PollTimeout \/ PollWake \/ PollIO \/ IOReturn
  BY <1>9 DEF PollTimeout, PollWake, PollIO, IOReturn
<1>10. CASE IORaise \/ FlushRaise
  BY <1>10 DEF IORaise, FlushRaise, Stop, RecordError
<1>11. CASE OnWake
  BY <1>11 DEF OnWake, HasWork
<1>12. CASE RunReturns
  BY <1>12 DEF RunReturns, StoppingAfterRun
<1>13. CASE CloseCancel \/ CloseClear \/ CloseHandles
  BY <1>13 DEF CloseCancel, CloseClear, CloseHandles
<1>14. ASSUME User PROVE TailInv'
  <2>1. ASSUME NEW h \in Handles, CallSoon(h) PROVE TailInv'
    <3>1. AppendReady(h) /\ UNCHANGED <<phase, ran, cancelled>>
      BY <2>1 DEF CallSoon
    <3> QED
      BY <3>1, AppendTail
  <2>2. ASSUME NEW h \in Handles, Cancel(h) PROVE TailInv'
    BY <2>2 DEF Cancel, UserCode
  <2>3. CASE RunForever
    BY <2>3 DEF RunForever, UserCode
  <2>4. CASE CloseBegin
    BY <2>4 DEF CloseBegin, CloseAllowed, UserCode
  <2> QED
    BY <1>14, <2>1, <2>2, <2>3, <2>4 DEF User
<1>15. ASSUME NEW t \in Threads, OtherThread(t) PROVE TailInv'
  <2>1. ASSUME NEW h \in Handles, ThreadCheck(t, h) PROVE TailInv'
    BY <2>1 DEF ThreadCheck
  <2>2. CASE ThreadAppend(t)
    <3>1. targ[t] \in Handles /\ AppendReady(targ[t])
      BY <2>2, TargetFacts
    <3>2. /\ UNCHANGED <<phase, ran, cancelled>>
          /\ UNCHANGED <<todo, current, mark, stopFlag, lastError>>
      BY <2>2 DEF ThreadAppend, loopVars, batchVars
    <3> QED
      BY <3>1, <3>2, AppendTail
  <2>3. CASE ThreadSend(t)
    BY <2>3 DEF ThreadSend, AsyncIsAlive
  <2> QED
    BY <1>15, <2>1, <2>2, <2>3 DEF OtherThread
<1>16. CASE UNCHANGED vars
  BY <1>16 DEF vars
<1> QED
  BY <1>1, <1>2, <1>3, <1>4, <1>5, <1>6, <1>7, <1>8, <1>9, <1>10, <1>11, <1>12,
     <1>13, <1>14, <1>15, <1>16 DEF Next, LoopThread, Batch, Closing

LEMMA BatchStep ==
  ASSUME TypeOK, ThreadInv, PhaseInv, StopInv, QueueInv, TailInv, BatchInv,
        [Next]_vars
  PROVE  BatchInv'
<1> USE DEF TypeOK, FlagsOK, DataOK, PhaseInv, Intact, BatchInv, loopVars,
        batchVars
<1>1. CASE Iterate
  BY <1>1 DEF Iterate, Gone
<1>2. CASE PopCancelled
  <2>1. /\ PopLeft /\ scheduled' = scheduled /\ ran \subseteq ran'
        /\ cancelled' = cancelled /\ Head(ready) \in ran' \cup cancelled'
        /\ phase' \in {"batch", "callback"}
    BY <1>2 DEF PopCancelled, PopLeft
  <2>2. /\ Gone \in Nat /\ Gone' = Gone + 1 /\ Gone' <= Len(scheduled)
        /\ scheduled[Gone'] = Head(ready)
    BY <2>1, PopTail
  <2>3. mark' = mark /\ todo' = todo - 1 /\ todo > 0 /\ phase = "batch"
    BY <2>1, <1>2, PopFacts DEF PopCancelled, PopLeft
  <2>4. phase' = "batch" /\ stopFlag' = stopFlag /\ lastError' = lastError
    BY <1>2 DEF PopCancelled, PopLeft, loopVars
  <2>5. mark' = Gone' + todo' /\ mark' <= Len(scheduled')
    BY <2>1, <2>2, <2>3 DEF BatchInv, Intact, DataOK, TypeOK
  <2>6. stopFlag' /\ ~lastError' => mark' <= Gone'
    BY <2>2, <2>3, <2>4 DEF BatchInv, Intact, DataOK, TypeOK
  <2> QED
    BY <2>1, <2>2, <2>3, <2>4, <2>5, <2>6 DEF BatchInv
<1>3. CASE PopStop
  <2>1. /\ PopLeft /\ scheduled' = scheduled /\ ran \subseteq ran'
        /\ cancelled' = cancelled /\ Head(ready) \in ran' \cup cancelled'
        /\ phase' \in {"batch", "callback"}
    BY <1>3 DEF PopStop, PopLeft
  <2>2. /\ Gone \in Nat /\ Gone' = Gone + 1 /\ Gone' <= Len(scheduled)
        /\ scheduled[Gone'] = Head(ready)
    BY <2>1, PopTail
  <2>3. mark' = mark /\ todo' = todo - 1 /\ todo > 0 /\ phase = "batch"
    BY <2>1, <1>3, PopFacts DEF PopStop, PopLeft
  <2>4. phase' = "batch" /\ stopFlag' = stopFlag /\ lastError' = lastError
    BY <1>3 DEF PopStop, PopLeft, Stop, RecordError
  <2>5. mark' = Gone' + todo' /\ mark' <= Len(scheduled')
    BY <2>1, <2>2, <2>3 DEF BatchInv, Intact, DataOK, TypeOK
  <2>6. stopFlag' /\ ~lastError' => mark' <= Gone'
    BY <2>2, <2>3, <2>4 DEF BatchInv, Intact, DataOK, TypeOK
  <2> QED
    BY <2>1, <2>2, <2>3, <2>4, <2>5, <2>6 DEF BatchInv
<1>4. CASE PopCallback
  <2>1. /\ PopLeft /\ scheduled' = scheduled /\ ran \subseteq ran'
        /\ cancelled' = cancelled /\ Head(ready) \in ran' \cup cancelled'
        /\ phase' \in {"batch", "callback"}
    BY <1>4 DEF PopCallback, PopLeft
  <2>2. /\ Gone \in Nat /\ Gone' = Gone + 1 /\ Gone' <= Len(scheduled)
        /\ scheduled[Gone'] = Head(ready)
    BY <2>1, PopTail
  <2>3. mark' = mark /\ todo' = todo - 1 /\ todo > 0 /\ phase = "batch"
    BY <2>1, <1>4, PopFacts DEF PopCallback, PopLeft
  <2>4. current' = Head(ready) /\ stopFlag' = stopFlag /\ lastError' = lastError
    BY <1>4 DEF PopCallback, loopVars
  <2>5. mark' = Gone' + todo' /\ mark' <= Len(scheduled')
    BY <2>1, <2>2, <2>3 DEF BatchInv, Intact, DataOK, TypeOK
  <2>6. stopFlag' /\ ~lastError' => mark' <= Gone'
    BY <2>2, <2>3, <2>4 DEF BatchInv, Intact, DataOK, TypeOK
  <2> QED
    BY <2>1, <2>2, <2>3, <2>4, <2>5, <2>6 DEF BatchInv
<1>5. CASE BatchEnd \/ BatchFlush \/ FlushReturn
  BY <1>5 DEF BatchEnd, BatchFlush, FlushReturn, Gone, BatchHasNext
<1>6. CASE CallbackReturn
  BY <1>6 DEF CallbackReturn, Gone
<1>7. CASE CallbackRaise
  BY <1>7 DEF CallbackRaise, Stop, RecordError, Gone
<1>8. CASE IdleKept \/ IdleUnneeded \/ IdleStop
  BY <1>8 DEF IdleKept, IdleUnneeded, IdleStop, UvStop, Gone
<1>9. CASE PollTimeout \/ PollWake \/ PollIO \/ IOReturn
  BY <1>9 DEF PollTimeout, PollWake, PollIO, IOReturn, Gone
<1>10. CASE IORaise \/ FlushRaise
  BY <1>10 DEF IORaise, FlushRaise, Stop, RecordError, Gone
<1>11. CASE OnWake
  BY <1>11 DEF OnWake, HasWork, Gone
<1>12. CASE RunReturns
  BY <1>12 DEF RunReturns, StoppingAfterRun, Gone
<1>13. CASE CloseCancel \/ CloseClear \/ CloseHandles
  BY <1>13 DEF CloseCancel, CloseClear, CloseHandles, Gone
<1>14. ASSUME User PROVE BatchInv'
  <2>1. ASSUME NEW h \in Handles, CallSoon(h) PROVE BatchInv'
    <3>1. AppendReady(h) /\ UNCHANGED <<phase, ran, cancelled>>
      BY <2>1 DEF CallSoon
    <3>2. UNCHANGED <<todo, current, mark, stopFlag, lastError>>
      BY <2>1 DEF CallSoon
    <3> QED
      BY <3>1, <3>2, AppendBatch
  <2>2. ASSUME NEW h \in Handles, Cancel(h) PROVE BatchInv'
    BY <2>2 DEF Cancel, UserCode, Gone
  <2>3. CASE RunForever
    BY <2>3 DEF RunForever, UserCode, Gone, StopInv
  <2>4. CASE CloseBegin
    BY <2>4 DEF CloseBegin, CloseAllowed, UserCode, Gone
  <2> QED
    BY <1>14, <2>1, <2>2, <2>3, <2>4 DEF User
<1>15. ASSUME NEW t \in Threads, OtherThread(t) PROVE BatchInv'
  <2>1. ASSUME NEW h \in Handles, ThreadCheck(t, h) PROVE BatchInv'
    BY <2>1 DEF ThreadCheck, Gone
  <2>2. CASE ThreadAppend(t)
    <3>1. targ[t] \in Handles /\ AppendReady(targ[t])
      BY <2>2, TargetFacts
    <3>2. /\ UNCHANGED <<phase, ran, cancelled>>
          /\ UNCHANGED <<todo, current, mark, stopFlag, lastError>>
      BY <2>2 DEF ThreadAppend, loopVars, batchVars
    <3> QED
      BY <3>1, <3>2, AppendBatch
  <2>3. CASE ThreadSend(t)
    BY <2>3 DEF ThreadSend, AsyncIsAlive, Gone
  <2> QED
    BY <1>15, <2>1, <2>2, <2>3 DEF OtherThread
<1>16. CASE UNCHANGED vars
  BY <1>16 DEF vars, Gone
<1> QED
  BY <1>1, <1>2, <1>3, <1>4, <1>5, <1>6, <1>7, <1>8, <1>9, <1>10, <1>11, <1>12,
     <1>13, <1>14, <1>15, <1>16 DEF Next, LoopThread, Batch, Closing

LEMMA InvStep == IInv /\ [Next]_vars => IInv'
<1> SUFFICES ASSUME IInv, [Next]_vars PROVE IInv'
  OBVIOUS
<1>1. /\ TypeOK /\ ThreadInv /\ PhaseInv /\ StopInv /\ WakeInv
      /\ QueueInv /\ TailInv /\ BatchInv /\ FlagsOK
  BY DEF IInv, TypeOK
<1>2. FlagsOK' /\ DataOK'
  BY <1>1, FlagsStep, DataStep
<1>3. ThreadInv' /\ PhaseInv' /\ StopInv'
  BY <1>1, ThreadStep, PhaseStep, StopStep
<1>4. WakeInv'
  BY <1>1, WakeStep
<1>5. QueueInv' /\ TailInv' /\ BatchInv'
  BY <1>1, QueueStep, TailStep, BatchStep
<1> QED
  BY <1>2, <1>3, <1>4, <1>5 DEF IInv, TypeOK

-----------------------------------------------------------------------------
(* The theorems.                                                           *)

\* The strengthened invariant, from which the others follow.
THEOREM Invariance == Spec => []IInv
BY InvInit, InvStep, PTL DEF Spec

\* Every variable keeps to its values, for every set of handles and threads.
THEOREM TypeCorrect == Spec => []TypeOK
<1>1. IInv => TypeOK
  BY DEF IInv
<1> QED
  BY <1>1, Invariance, PTL

\* However many threads call call_soon_threadsafe, and whichever of its steps
\* fall between those of _on_idle, the loop never sleeps on work.
THEOREM NeverSleepsOnWork == Spec => []NoLostWakeup
<1>1. IInv => NoLostWakeup
  BY DEF IInv, WakeInv, PhaseInv, RunPhases, NoLostWakeup, Blocking
<1> QED
  BY <1>1, Invariance, PTL

\* A stopping loop does not block: _stop() is always noticed.
THEOREM StopIsNoticed == Spec => []StopNeverBlocks
<1>1. IInv => StopNeverBlocks
  BY DEF IInv, StopInv, StopNeverBlocks, Blocking
<1> QED
  BY <1>1, Invariance, PTL

\* _on_idle's popleft() finds a handle each of its ntodo times.
THEOREM PopsAreSafe == Spec => []PopLeftSafe
<1>1. IInv => PopLeftSafe
  BY DEF IInv, QueueInv, PopLeftSafe
<1> QED
  BY <1>1, Invariance, PTL

\* A batch never runs a handle submitted after it began.
THEOREM BatchIsBounded == Spec => []NoStarvation
<1>1. IInv => NoStarvation
  <2> SUFFICES ASSUME IInv, phase = "callback"
               PROVE  \E i \in 1..mark : scheduled[i] = current
    BY DEF NoStarvation
  <2>1. Intact
    BY DEF Intact
  <2>2. Len(ready) \in Nat /\ Len(scheduled) \in Nat /\ todo \in Nat
    BY DEF IInv, TypeOK, DataOK
  <2>3. mark = Gone + todo /\ Gone > 0 /\ current = scheduled[Gone]
    BY <2>1 DEF IInv, BatchInv
  <2>4. Gone \in 1..mark
    BY <2>2, <2>3 DEF Gone
  <2> QED
    BY <2>3, <2>4
<1> QED
  BY <1>1, Invariance, PTL

\* run_forever returns from stop() only with a whole iteration done.
THEOREM StopIsOrderly == Spec => []StopCompletesIteration
<1>1. IInv => StopCompletesIteration
  <2> SUFFICES ASSUME IInv, phase = "top", stopFlag, ~lastError,
                      NEW i \in 1..mark
               PROVE  scheduled[i] \in ran \cup cancelled
    BY DEF StopCompletesIteration
  <2>1. Intact
    BY DEF Intact
  <2>2. Len(ready) \in Nat /\ Len(scheduled) \in Nat /\ mark \in Nat
    BY DEF IInv, TypeOK, DataOK
  <2>3. mark <= Gone
    BY <2>1 DEF IInv, BatchInv
  <2>4. i \in 1..Gone
    BY <2>2, <2>3 DEF Gone
  <2> QED
    BY <2>1, <2>4 DEF IInv, TailInv
<1> QED
  BY <1>1, Invariance, PTL

\* Neither stop() nor an error of one run reaches into the next.
THEOREM RunsAreIndependent == Spec => []CleanBetweenRuns
<1>1. IInv => CleanBetweenRuns
  BY DEF IInv, PhaseInv, RunPhases, StopInv, CleanBetweenRuns
<1> QED
  BY <1>1, Invariance, PTL

-----------------------------------------------------------------------------
(* The refinement of CallSoonQueue.                                        *)

\* A handle is submitted once, and what is in _ready was submitted and has
\* not run.
HistoryInv ==
    /\ \A i, j \in 1..Len(scheduled) : scheduled[i] = scheduled[j] => i = j
    /\ \A i, j \in 1..Len(ready) : ready[i] = ready[j] => i = j
    /\ Range(ready) \cap ran = {}
    /\ Range(ready) \cup ran \cup cancelled \subseteq Range(scheduled)

\* _on_idle is in the callback of one handle, or of none.
CurrentInv == IF phase = "callback" THEN current \in ran ELSE current = NoHandle

\* What a thread is about to append has not been submitted by anyone else.
TargetInv ==
    /\ \A t \in Threads : tpc[t] = "checked" => targ[t] \notin Range(scheduled)
    /\ \A t, u \in Threads : targ[t] = targ[u] => t = u \/ targ[t] = NoHandle

QInv == IInv /\ HistoryInv /\ CurrentInv /\ TargetInv

\* Range, of the sequences of this module.
LEMMA RangeFacts ==
  ASSUME TypeOK
  PROVE  /\ Range(ready) = {ready[i] : i \in 1..Len(ready)}
         /\ Range(scheduled) = {scheduled[i] : i \in 1..Len(scheduled)}
         /\ Range(ready) \subseteq Handles /\ Range(scheduled) \subseteq Handles
         /\ Len(ready) \in Nat /\ Len(scheduled) \in Nat
<1>1. ready \in Seq(Handles) /\ scheduled \in Seq(Handles)
  BY DEF TypeOK, DataOK
<1> QED
  BY <1>1, RangeEquality, RangeOfSeq

LEMMA RangeOfEmpty == Range(<<>>) = {}
<1>1. <<>> \in Seq({}) /\ Len(<<>>) = 0
  BY EmptySeq
<1>2. Range(<<>>) \in SUBSET {}
  BY <1>1, RangeOfSeq
<1> QED
  BY <1>2

LEMMA RangeOfAppend ==
  ASSUME NEW S, NEW s \in Seq(S), NEW e \in S
  PROVE  Range(Append(s, e)) = Range(s) \cup {e}
<1> DEFINE a == Append(s, e)
<1>1. /\ a \in Seq(S) /\ Len(a) = Len(s) + 1 /\ Len(s) \in Nat
      /\ \A i \in 1..Len(s) : a[i] = s[i]
      /\ a[Len(s) + 1] = e
  BY AppendProperties
<1>2. /\ Range(a) = {a[i] : i \in 1..Len(a)}
      /\ Range(s) = {s[i] : i \in 1..Len(s)}
  BY <1>1, RangeEquality
<1> HIDE DEF a
<1>3. Range(a) \subseteq Range(s) \cup {e}
  <2> SUFFICES ASSUME NEW i \in 1..Len(a), a[i] # e PROVE a[i] \in Range(s)
    BY <1>2
  <2>1. i \in 1..Len(s)
    BY <1>1
  <2> QED
    BY <1>1, <1>2, <2>1
<1>4. Range(s) \cup {e} \subseteq Range(a)
  <2>1. e \in Range(a)
    <3>1. Len(s) + 1 \in 1..Len(a)
      BY <1>1
    <3> QED
      BY <1>1, <1>2, <3>1
  <2>2. ASSUME NEW i \in 1..Len(s) PROVE s[i] \in Range(a)
    <3>1. i \in 1..Len(a)
      BY <1>1
    <3> QED
      BY <1>1, <1>2, <3>1
  <2> QED
    BY <1>2, <2>1, <2>2
<1>5. Range(a) = Range(s) \cup {e}
  BY <1>3, <1>4
<1> QED
  BY <1>5 DEF a

LEMMA AppendRange ==
  ASSUME TypeOK, NEW h \in Handles, AppendReady(h)
  PROVE  /\ Range(ready') = Range(ready) \cup {h}
         /\ Range(scheduled') = Range(scheduled) \cup {h}
<1>1. ready \in Seq(Handles) /\ scheduled \in Seq(Handles)
  BY DEF TypeOK, DataOK
<1> QED
  BY <1>1, RangeOfAppend DEF AppendReady

LEMMA PopRange ==
  ASSUME TypeOK, QueueInv, HistoryInv, PopLeft
  PROVE  /\ Head(ready) \in Range(ready)
         /\ Range(ready') = Range(ready) \ {Head(ready)}
<1>1. ready' \in Seq(Handles) /\ Len(ready) >= 1 /\ Len(ready') = Len(ready) - 1
  BY PopFacts, EmptySeq DEF TypeOK, DataOK
<1>2. Range(ready') = {ready'[i] : i \in 1..Len(ready')}
  BY <1>1, RangeEquality
<1>3. Head(ready) = ready[1] /\ 1 \in 1..Len(ready)
  BY <1>1, PopFacts, RangeFacts
<1>4. ASSUME NEW i \in 1..Len(ready')
      PROVE  ready'[i] \in Range(ready) \ {Head(ready)}
  <2>1. i + 1 \in 1..Len(ready) /\ i + 1 # 1
    BY <1>1, RangeFacts
  <2>2. ready'[i] = ready[i + 1]
    BY PopFacts
  <2>3. ready[i + 1] # ready[1]
    BY <1>3, <2>1 DEF HistoryInv
  <2> QED
    BY <1>3, <2>1, <2>2, <2>3, RangeFacts
<1>5. ASSUME NEW i \in 1..Len(ready), ready[i] # Head(ready)
      PROVE  ready[i] \in Range(ready')
  <2>1. i # 1
    BY <1>3, <1>5
  <2>2. i - 1 \in 1..Len(ready') /\ (i - 1) + 1 = i
    BY <1>1, <2>1, RangeFacts
  <2>3. ready'[i - 1] = ready[i]
    BY <2>2, PopFacts
  <2> QED
    BY <1>2, <2>2, <2>3
<1>6. Head(ready) \in Range(ready)
  BY <1>3, RangeFacts
<1> QED
  BY <1>2, <1>4, <1>5, <1>6, RangeFacts

LEMMA AppendHistory ==
  ASSUME TypeOK, HistoryInv, NEW h \in Handles, AppendReady(h),
         h \notin Range(scheduled), UNCHANGED <<ran, cancelled>>
  PROVE  HistoryInv'
<1>1. /\ Range(ready') = Range(ready) \cup {h}
      /\ Range(scheduled') = Range(scheduled) \cup {h}
  BY AppendRange
<1>2. ASSUME NEW i \in 1..Len(scheduled'), NEW j \in 1..Len(scheduled'),
             scheduled'[i] = scheduled'[j]
      PROVE  i = j
  <2>1. CASE i = Len(scheduled) + 1 /\ j = Len(scheduled) + 1
    BY <2>1
  <2>2. CASE i \in 1..Len(scheduled) /\ j \in 1..Len(scheduled)
    BY <1>2, <2>2, AppendFacts DEF HistoryInv
  <2>3. CASE i \in 1..Len(scheduled) /\ j = Len(scheduled) + 1
    BY <1>2, <2>3, AppendFacts, RangeFacts
  <2>4. CASE i = Len(scheduled) + 1 /\ j \in 1..Len(scheduled)
    BY <1>2, <2>4, AppendFacts, RangeFacts
  <2> QED
    BY <2>1, <2>2, <2>3, <2>4, AppendFacts, RangeFacts
<1>3. h \notin Range(ready)
  BY DEF HistoryInv
<1>4. ASSUME NEW i \in 1..Len(ready'), NEW j \in 1..Len(ready'),
             ready'[i] = ready'[j]
      PROVE  i = j
  <2>1. CASE i = Len(ready) + 1 /\ j = Len(ready) + 1
    BY <2>1
  <2>2. CASE i \in 1..Len(ready) /\ j \in 1..Len(ready)
    BY <1>4, <2>2, AppendFacts DEF HistoryInv
  <2>3. CASE i \in 1..Len(ready) /\ j = Len(ready) + 1
    BY <1>3, <1>4, <2>3, AppendFacts, RangeFacts
  <2>4. CASE i = Len(ready) + 1 /\ j \in 1..Len(ready)
    BY <1>3, <1>4, <2>4, AppendFacts, RangeFacts
  <2> QED
    BY <2>1, <2>2, <2>3, <2>4, AppendFacts, RangeFacts
<1>5. Range(ready') \cap ran' = {}
  BY <1>1 DEF HistoryInv
<1>6. Range(ready') \cup ran' \cup cancelled' \subseteq Range(scheduled')
  BY <1>1 DEF HistoryInv
<1> QED
  BY <1>2, <1>4, <1>5, <1>6 DEF HistoryInv

LEMMA PopHistory ==
  ASSUME TypeOK, QueueInv, HistoryInv, PopLeft,
         UNCHANGED <<scheduled, cancelled>>,
         ran' \in {ran, ran \cup {Head(ready)}}
  PROVE  HistoryInv'
<1>1. /\ Head(ready) \in Range(ready)
      /\ Range(ready') = Range(ready) \ {Head(ready)}
  BY PopRange
<1>2. ASSUME NEW i \in 1..Len(ready'), NEW j \in 1..Len(ready'),
             ready'[i] = ready'[j]
      PROVE  i = j
  <2>1. i + 1 \in 1..Len(ready) /\ j + 1 \in 1..Len(ready)
    BY PopFacts, RangeFacts
  <2>2. ready[i + 1] = ready[j + 1]
    BY <1>2, PopFacts
  <2>3. i + 1 = j + 1
    BY <2>1, <2>2 DEF HistoryInv
  <2> QED
    BY <2>3
<1> QED
  BY <1>1, <1>2 DEF HistoryInv

\* What the refinement maps: the queue and the callback in progress.
queueVars == <<ready, cancelled, scheduled, ran, current>>

\* The steps of the loop's thread that the queue does not notice.
Unseen ==
    /\ UNCHANGED queueVars
    /\ phase = "callback" <=> phase' = "callback"

LEMMA UnseenSteps ==
  ASSUME IInv, [Next]_vars
  PROVE  \/ Unseen /\ UNCHANGED threadVars
         \/ \E t \in Threads :
               Unseen /\ (ThreadSend(t) \/ \E h \in Handles : ThreadCheck(t, h))
         \/ PopCancelled \/ PopStop \/ PopCallback
         \/ CallbackReturn \/ CallbackRaise
         \/ CloseCancel \/ CloseClear
         \/ \E h \in Handles : CallSoon(h) \/ Cancel(h)
         \/ \E t \in Threads : ThreadAppend(t)
<1> USE DEF Unseen, queueVars, batchVars, threadVars
<1>1. CASE Iterate
  BY <1>1 DEF Iterate
<1>2. CASE BatchEnd \/ BatchFlush \/ FlushReturn
  BY <1>2 DEF BatchEnd, BatchFlush, FlushReturn
<1>3. CASE IdleKept \/ IdleUnneeded \/ IdleStop
  BY <1>3 DEF IdleKept, IdleUnneeded, IdleStop
<1>4. CASE PollTimeout \/ PollWake \/ PollIO \/ IOReturn
  BY <1>4 DEF PollTimeout, PollWake, PollIO, IOReturn
<1>5. CASE IORaise \/ FlushRaise
  BY <1>5 DEF IORaise, FlushRaise
<1>6. CASE OnWake \/ RunReturns \/ CloseHandles
  BY <1>6 DEF OnWake, RunReturns, CloseHandles
<1>7. CASE RunForever \/ CloseBegin
  <2>1. ~running
    BY <1>7 DEF RunForever, CloseBegin, CloseAllowed
  <2>2. phase # "callback"
    BY <2>1 DEF IInv, PhaseInv, RunPhases
  <2> QED
    BY <1>7, <2>2 DEF RunForever, CloseBegin
<1>8. ASSUME NEW t \in Threads, OtherThread(t)
      PROVE  \/ ThreadAppend(t)
             \/ /\ Unseen
                /\ ThreadSend(t) \/ \E h \in Handles : ThreadCheck(t, h)
  BY <1>8 DEF OtherThread, ThreadSend, ThreadCheck
<1>9. CASE UNCHANGED vars
  BY <1>9 DEF vars
<1> QED
  BY <1>1, <1>2, <1>3, <1>4, <1>5, <1>6, <1>7, <1>8, <1>9
     DEF Next, LoopThread, Batch, Closing, User

LEMMA QInit == Init => QInv
<1> SUFFICES ASSUME Init PROVE QInv
  OBVIOUS
<1>1. IInv
  BY InvInit
<1>2. Len(ready) = 0 /\ Len(scheduled) = 0
  BY EmptySeq DEF Init
<1>3. Range(ready) = {} /\ Range(scheduled) = {}
  BY <1>1, <1>2, RangeFacts DEF IInv
<1> QED
  BY <1>1, <1>2, <1>3 DEF Init, QInv, HistoryInv, CurrentInv, TargetInv

LEMMA HistoryStep ==
  ASSUME QInv, [Next]_vars
  PROVE  HistoryInv'
<1> USE DEF QInv, IInv
<1>1. CASE UNCHANGED <<ready, cancelled, scheduled, ran>>
  BY <1>1 DEF HistoryInv
<1>2. CASE PopCancelled
  BY <1>2, PopHistory DEF PopCancelled
<1>3. CASE PopStop
  BY <1>3, PopHistory DEF PopStop
<1>4. CASE PopCallback
  BY <1>4, PopHistory DEF PopCallback
<1>5. CASE CloseCancel
  BY <1>5 DEF CloseCancel, HistoryInv
<1>6. CASE CloseClear
  <2>1. ready' = <<>> /\ UNCHANGED <<cancelled, scheduled, ran>>
    BY <1>6 DEF CloseClear
  <2>2. Len(ready') = 0 /\ Range(ready') = {}
    BY <2>1, EmptySeq, RangeOfEmpty
  <2> QED
    BY <2>1, <2>2 DEF HistoryInv
<1>7. ASSUME NEW h \in Handles, CallSoon(h) PROVE HistoryInv'
  BY <1>7, AppendHistory DEF CallSoon, Fresh
<1>8. ASSUME NEW h \in Handles, Cancel(h) PROVE HistoryInv'
  BY <1>8 DEF Cancel, HistoryInv
<1>9. ASSUME NEW t \in Threads, ThreadAppend(t) PROVE HistoryInv'
  <2>1. targ[t] \in Handles /\ AppendReady(targ[t])
    BY <1>9, TargetFacts
  <2>2. targ[t] \notin Range(scheduled) /\ UNCHANGED <<ran, cancelled>>
    BY <1>9 DEF ThreadAppend, TargetInv
  <2> QED
    BY <2>1, <2>2, AppendHistory
<1>10. CASE CallbackReturn \/ CallbackRaise
  BY <1>1, <1>10 DEF CallbackReturn, CallbackRaise
<1>11. CASE Unseen
  BY <1>1, <1>11 DEF Unseen, queueVars
<1> QED
  BY <1>2, <1>3, <1>4, <1>5, <1>6, <1>7, <1>8, <1>9, <1>10, <1>11, UnseenSteps

LEMMA CurrentStep ==
  ASSUME QInv, [Next]_vars
  PROVE  CurrentInv'
<1> USE DEF CurrentInv, batchVars
<1>1. CASE Unseen
  BY <1>1 DEF QInv, Unseen, queueVars
<1>2. CASE PopCancelled
  BY <1>2 DEF QInv, PopCancelled, PopLeft
<1>3. CASE PopStop
  BY <1>3 DEF QInv, PopStop, PopLeft
<1>4. CASE PopCallback
  BY <1>4 DEF PopCallback
<1>5. CASE CloseCancel \/ CloseClear
  BY <1>5 DEF QInv, CloseCancel, CloseClear
<1>6. ASSUME NEW h \in Handles, CallSoon(h) PROVE CurrentInv'
  BY <1>6 DEF QInv, CallSoon
<1>7. ASSUME NEW h \in Handles, Cancel(h) PROVE CurrentInv'
  BY <1>7 DEF QInv, Cancel
<1>8. ASSUME NEW t \in Threads, ThreadAppend(t) PROVE CurrentInv'
  BY <1>8 DEF QInv, ThreadAppend
<1>9. CASE CallbackReturn \/ CallbackRaise
  BY <1>9 DEF CallbackReturn, CallbackRaise
<1> QED
  BY <1>1, <1>2, <1>3, <1>4, <1>5, <1>6, <1>7, <1>8, <1>9, UnseenSteps DEF QInv

\* A handle that is appended by the loop's thread is none that a thread holds.
LEMMA TargetStep ==
  ASSUME QInv, [Next]_vars
  PROVE  TargetInv'
<1> USE DEF TargetInv
<1>0. TypeOK
  BY DEF QInv, IInv
<1>1. CASE UNCHANGED <<scheduled, tpc, targ>>
  BY <1>1 DEF QInv
<1>2. CASE PopCancelled \/ PopStop \/ PopCallback
  BY <1>1, <1>2 DEF PopCancelled, PopStop, PopCallback, threadVars
<1>3. CASE CloseCancel \/ CloseClear \/ CallbackReturn \/ CallbackRaise
  BY <1>1, <1>3 DEF CloseCancel, CloseClear, CallbackReturn, CallbackRaise,
                    threadVars
<1>4. ASSUME NEW h \in Handles, CallSoon(h) PROVE TargetInv'
  <2>1. AppendReady(h) /\ Fresh(h) /\ UNCHANGED <<tpc, targ>>
    BY <1>4 DEF CallSoon, threadVars
  <2>2. Range(scheduled') = Range(scheduled) \cup {h}
    BY <1>0, <2>1, AppendRange
  <2> QED
    BY <2>1, <2>2 DEF QInv, Fresh
<1>5. ASSUME NEW h \in Handles, Cancel(h) PROVE TargetInv'
  BY <1>1, <1>5 DEF Cancel, threadVars
<1>6. ASSUME NEW t \in Threads, ThreadAppend(t) PROVE TargetInv'
  <2>1. targ[t] \in Handles /\ AppendReady(targ[t])
    BY <1>6, TargetFacts DEF QInv, IInv
  <2>2. Range(scheduled') = Range(scheduled) \cup {targ[t]}
    BY <1>0, <2>1, AppendRange
  <2>3. targ' = targ /\ tpc' = [tpc EXCEPT ![t] = "appended"]
    BY <1>6 DEF ThreadAppend
  <2>4. targ[t] # NoHandle
    BY <2>1, HandlesAssumption
  <2>5. ASSUME NEW u \in Threads, tpc'[u] = "checked"
        PROVE  targ'[u] \notin Range(scheduled')
    <3>1. u # t /\ tpc[u] = "checked"
      BY <1>0, <2>3, <2>5 DEF TypeOK, DataOK
    <3>2. targ[u] # targ[t] /\ targ[u] \notin Range(scheduled)
      BY <2>4, <3>1 DEF QInv
    <3> QED
      BY <2>2, <2>3, <3>2
  <2> QED
    BY <2>3, <2>5 DEF QInv
<1>7. ASSUME NEW t \in Threads, NEW h \in Handles, ThreadCheck(t, h), Unseen
      PROVE  TargetInv'
  <2>1. /\ Fresh(h) /\ scheduled' = scheduled
        /\ tpc' = [tpc EXCEPT ![t] = "checked"]
        /\ targ' = [targ EXCEPT ![t] = h]
    BY <1>7 DEF ThreadCheck
  <2>2. /\ targ'[t] = h
        /\ \A u \in Threads \ {t} : targ'[u] = targ[u] /\ targ[u] # h
    BY <1>0, <2>1 DEF Fresh, TypeOK, DataOK
  <2>3. \A u \in Threads \ {t} : tpc'[u] = tpc[u]
    BY <1>0, <2>1 DEF TypeOK, DataOK
  <2>4. \A u \in Threads :
          tpc'[u] = "checked" => targ'[u] \notin Range(scheduled')
    BY <2>1, <2>2, <2>3 DEF QInv, Fresh
  <2>5. \A u, v \in Threads :
          targ'[u] = targ'[v] => u = v \/ targ'[u] = NoHandle
    BY <2>2 DEF QInv
  <2> QED
    BY <2>4, <2>5
<1>8. ASSUME NEW t \in Threads, ThreadSend(t), Unseen PROVE TargetInv'
  <2>1. /\ scheduled' = scheduled
        /\ tpc' = [tpc EXCEPT ![t] = "quiet"]
        /\ targ' = [targ EXCEPT ![t] = NoHandle]
    BY <1>8 DEF ThreadSend
  <2> QED
    BY <1>0, <2>1 DEF QInv, TypeOK, DataOK
<1>9. CASE Unseen /\ UNCHANGED threadVars
  BY <1>1, <1>9 DEF Unseen, queueVars, threadVars
<1> QED
  BY <1>2, <1>3, <1>4, <1>5, <1>6, <1>7, <1>8, <1>9, UnseenSteps DEF QInv

LEMMA QStep == QInv /\ [Next]_vars => QInv'
BY InvStep, HistoryStep, CurrentStep, TargetStep DEF QInv

\* _call_soon_handle and call_soon_threadsafe submit.
LEMMA AppendSubmits ==
  ASSUME QInv, NEW h \in Handles, AppendReady(h), h \notin Range(scheduled),
         UNCHANGED <<cancelled, ran, current>>
  PROVE  Queue!Submit(h)
<1>1. /\ Range(ready') = Range(ready) \cup {h}
      /\ Range(scheduled') = Range(scheduled) \cup {h}
  BY AppendRange DEF QInv, IInv
<1>2. current # h /\ h \notin ran \cup cancelled
  BY HandlesAssumption DEF QInv, HistoryInv, CurrentInv
<1>3. QueueStatus[h] = "new" /\ QueueStatus'[h] = "pending"
  BY <1>1, <1>2 DEF QueueStatus
<1>4. ASSUME NEW g \in Handles, g # h PROVE QueueStatus'[g] = QueueStatus[g]
  BY <1>1, <1>4 DEF QueueStatus
<1>5. QueueStatus' = [QueueStatus EXCEPT ![h] = "pending"]
  <2>1. /\ QueueStatus' = [g \in Handles |-> QueueStatus'[g]]
        /\ QueueStatus = [g \in Handles |-> QueueStatus[g]]
    BY DEF QueueStatus
  <2> HIDE DEF QueueStatus
  <2> QED
    BY <1>3, <1>4, <2>1
<1>6. scheduled' = Append(scheduled, h)
  BY DEF AppendReady
<1> QED
  BY <1>3, <1>5, <1>6 DEF Queue!Submit

\* Between two callbacks the handle at the head of _ready is pending and every
\* handle submitted before it has been dealt with.
LEMMA HeadIsOldest ==
  ASSUME QInv, PopLeft, Head(ready) \notin cancelled
  PROVE  /\ QueueStatus[Head(ready)] = "pending"
         /\ Queue!IsOldest(Head(ready))
         /\ \A g \in Handles : QueueStatus[g] # "active"
<1>1. TypeOK /\ QueueInv /\ TailInv /\ HistoryInv
  BY DEF QInv, IInv
<1>2. current = NoHandle /\ NoHandle \notin Handles
  BY HandlesAssumption DEF QInv, CurrentInv, PopLeft
<1>3. /\ Head(ready) \in Range(ready) /\ Head(ready) = ready[1]
      /\ Head(ready) \in Handles /\ Len(ready) >= 1
  BY <1>1, PopRange, PopFacts, EmptySeq DEF TypeOK, DataOK
<1>4. Head(ready) \in Range(scheduled) \ ran
  BY <1>1, <1>3 DEF HistoryInv
<1>5. QueueStatus[Head(ready)] = "pending"
  BY <1>2, <1>3, <1>4 DEF QueueStatus
<1>6. \A g \in Handles : QueueStatus[g] # "active"
  BY <1>2 DEF QueueStatus
<1>7. Intact
  BY DEF PopLeft, Intact
<1>8. /\ Gone \in Nat /\ Gone + 1 \in 1..Len(scheduled)
      /\ Head(ready) = scheduled[Gone + 1]
      /\ \A i \in 1..Gone : scheduled[i] \in ran \cup cancelled
  <2>1. Gone \in Nat /\ Gone + 1 \in 1..Len(scheduled)
    BY <1>1, <1>3, <1>7, RangeFacts DEF TailInv, Gone
  <2>2. 1 \in 1..Len(ready)
    BY <1>1, <1>3, RangeFacts
  <2> QED
    BY <1>1, <1>3, <1>7, <2>1, <2>2 DEF TailInv
<1>9. ASSUME NEW i \in 1..Len(scheduled), NEW j \in 1..Len(scheduled),
             scheduled[j] = Head(ready), i < j
      PROVE  QueueStatus[scheduled[i]] \in {"done", "dropped"}
  <2>1. j = Gone + 1
    BY <1>1, <1>8, <1>9 DEF HistoryInv
  <2>2. i \in 1..Gone
    BY <1>8, <1>9, <2>1
  <2>3. scheduled[i] \in ran \cup cancelled
    BY <1>8, <2>2
  <2>4. scheduled[i] \in Handles /\ scheduled[i] \in Range(scheduled)
    BY <1>1, RangeFacts
  <2> QED
    BY <1>2, <2>3, <2>4 DEF QueueStatus
<1>10. Queue!IsOldest(Head(ready))
  BY <1>9 DEF Queue!IsOldest
<1> QED
  BY <1>5, <1>6, <1>10

\* A callback that is called is the oldest that is left, and the only one.
LEMMA PopStarts ==
  ASSUME QInv, PopStop \/ PopCallback
  PROVE  Queue!Start(Head(ready))
<1>1. /\ PopLeft /\ Head(ready) \notin cancelled
      /\ ran' = ran \cup {Head(ready)}
      /\ UNCHANGED <<cancelled, scheduled>>
      /\ current' \in {current, Head(ready)}
  BY DEF PopStop, PopCallback
<1>2. /\ QueueStatus[Head(ready)] = "pending"
      /\ Queue!IsOldest(Head(ready))
      /\ \A g \in Handles : QueueStatus[g] # "active"
  BY <1>1, HeadIsOldest
<1>3. current = NoHandle /\ NoHandle \notin Handles
  BY <1>1, HandlesAssumption DEF QInv, CurrentInv, PopLeft
<1>4. /\ Head(ready) \in Range(ready)
      /\ Range(ready') = Range(ready) \ {Head(ready)}
      /\ Head(ready) \in Handles /\ Head(ready) \in Range(scheduled)
  BY <1>1, PopRange, PopFacts DEF QInv, IInv, HistoryInv
<1>5. QueueStatus'[Head(ready)] \in {"active", "done"}
  BY <1>1, <1>4 DEF QueueStatus
<1>6. ASSUME NEW g \in Handles, g # Head(ready)
      PROVE  QueueStatus'[g] = QueueStatus[g]
  BY <1>1, <1>3, <1>4, <1>6 DEF QueueStatus
<1>7. QueueStatus' =
        [QueueStatus EXCEPT ![Head(ready)] = QueueStatus'[Head(ready)]]
  <2>1. /\ QueueStatus' = [g \in Handles |-> QueueStatus'[g]]
        /\ QueueStatus = [g \in Handles |-> QueueStatus[g]]
    BY DEF QueueStatus
  <2> QED
    BY <1>6, <2>1
<1> QED
  BY <1>1, <1>2, <1>5, <1>7 DEF Queue!Start

\* A handle that is taken out cancelled was dropped before.
LEMMA PopStutters ==
  ASSUME QInv, PopCancelled
  PROVE  UNCHANGED <<scheduled, QueueStatus>>
<1>1. /\ PopLeft /\ Head(ready) \in cancelled
      /\ UNCHANGED <<cancelled, scheduled, ran, current>>
  BY DEF PopCancelled
<1>2. Range(ready') = Range(ready) \ {Head(ready)}
  BY <1>1, PopRange DEF QInv, IInv
<1>3. Range(ready') \ cancelled' = Range(ready) \ cancelled
  BY <1>1, <1>2
<1> QED
  BY <1>1, <1>3 DEF QueueStatus

LEMMA CallbackFinishes ==
  ASSUME QInv, CallbackReturn \/ CallbackRaise
  PROVE  \E h \in Handles : Queue!Finish(h)
<1>1. /\ phase = "callback" /\ current' = NoHandle
      /\ UNCHANGED <<ready, cancelled, scheduled, ran>>
  BY DEF CallbackReturn, CallbackRaise
<1>2. current \in ran /\ current \in Range(scheduled) /\ current \in Handles
  BY <1>1 DEF QInv, IInv, TypeOK, DataOK, HistoryInv, CurrentInv
<1>3. QueueStatus[current] = "active" /\ QueueStatus'[current] = "done"
  BY <1>1, <1>2, HandlesAssumption DEF QueueStatus
<1>4. ASSUME NEW g \in Handles, g # current
      PROVE  QueueStatus'[g] = QueueStatus[g]
  BY <1>1, <1>4, HandlesAssumption DEF QueueStatus
<1>5. QueueStatus' = [QueueStatus EXCEPT ![current] = "done"]
  <2>1. /\ QueueStatus' = [g \in Handles |-> QueueStatus'[g]]
        /\ QueueStatus = [g \in Handles |-> QueueStatus[g]]
    BY DEF QueueStatus
  <2> QED
    BY <1>3, <1>4, <2>1
<1> QED
  BY <1>1, <1>2, <1>3, <1>5 DEF Queue!Finish

\* What both of them do to the queue, pending handles dropped.
LEMMA DropPending ==
  ASSUME NEW S \in SUBSET Handles, scheduled' = scheduled,
         \A g \in S : QueueStatus[g] = "pending" /\ QueueStatus'[g] = "dropped",
         \A g \in Handles \ S : QueueStatus'[g] = QueueStatus[g]
  PROVE  Queue!Drop(S)
<1>1. QueueStatus' = [g \in Handles |-> QueueStatus'[g]]
  BY DEF QueueStatus
<1>2. QueueStatus' =
        [g \in Handles |-> IF g \in S THEN "dropped" ELSE QueueStatus[g]]
  BY <1>1
<1> QED
  BY <1>2 DEF Queue!Drop

\* cancel() drops the handle if it is still pending, and nothing otherwise.
LEMMA CancelDrops ==
  ASSUME QInv, NEW h \in Handles, Cancel(h)
  PROVE  \E S \in SUBSET Handles : Queue!Drop(S)
<1>1. /\ cancelled' = cancelled \cup {h}
      /\ UNCHANGED <<ready, scheduled, ran, current>>
  BY DEF Cancel, batchVars
<1>2. \A g \in Handles \ {h} : QueueStatus'[g] = QueueStatus[g]
  BY <1>1 DEF QueueStatus
<1>3. CASE QueueStatus[h] = "pending"
  <2>1. QueueStatus'[h] = "dropped"
    BY <1>1, <1>3 DEF QueueStatus
  <2>2. Queue!Drop({h})
    BY <1>1, <1>2, <1>3, <2>1, DropPending
  <2> QED
    BY <2>2
<1>4. CASE QueueStatus[h] # "pending"
  <2>1. QueueStatus'[h] = QueueStatus[h]
    BY <1>1, <1>4 DEF QueueStatus
  <2>2. Queue!Drop({})
    BY <1>1, <1>2, <2>1, DropPending
  <2> QED
    BY <2>2
<1> QED
  BY <1>3, <1>4

\* close() drops what is pending, and what another thread adds meanwhile.
LEMMA CloseDrops ==
  ASSUME QInv, CloseCancel \/ CloseClear
  PROVE  \E S \in SUBSET Handles : Queue!Drop(S)
<1> DEFINE S == {g \in Handles : QueueStatus[g] = "pending"}
<1>1. UNCHANGED <<scheduled, ran, current>>
  BY DEF CloseCancel, CloseClear, batchVars
<1>2. Range(ready') \ cancelled' = {} /\ cancelled \subseteq cancelled'
  <2>1. CASE CloseCancel
    BY <2>1 DEF CloseCancel
  <2>2. CASE CloseClear
    <3>1. ready' = <<>> /\ cancelled' = cancelled
      BY <2>2 DEF CloseClear
    <3>2. Range(ready') = {}
      BY <3>1, RangeOfEmpty
    <3> QED
      BY <3>1, <3>2
  <2> QED
    BY <2>1, <2>2
<1>3. ASSUME NEW g \in Handles, QueueStatus[g] = "pending"
      PROVE  QueueStatus'[g] = "dropped"
  BY <1>1, <1>2, <1>3 DEF QueueStatus
<1>4. ASSUME NEW g \in Handles, QueueStatus[g] # "pending"
      PROVE  QueueStatus'[g] = QueueStatus[g]
  BY <1>1, <1>2, <1>4 DEF QueueStatus
<1>5. /\ S \in SUBSET Handles
      /\ \A g \in S : QueueStatus[g] = "pending" /\ QueueStatus'[g] = "dropped"
      /\ \A g \in Handles \ S : QueueStatus'[g] = QueueStatus[g]
  BY <1>3, <1>4
<1> HIDE DEF S
<1>6. Queue!Drop(S)
  BY <1>1, <1>5, DropPending
<1> QED
  BY <1>5, <1>6

LEMMA QueueInit == Init => Queue!Init
<1> SUFFICES ASSUME Init PROVE Queue!Init
  OBVIOUS
<1>1. scheduled = <<>> /\ Range(scheduled) = {}
  BY RangeOfEmpty DEF Init
<1> QED
  BY <1>1 DEF QueueStatus, Queue!Init

LEMMA QueueNext == QInv /\ [Next]_vars => [Queue!Next]_(Queue!vars)
<1> SUFFICES ASSUME QInv, [Next]_vars PROVE [Queue!Next]_(Queue!vars)
  OBVIOUS
<1> USE DEF Queue!Next
<1>1. CASE Unseen
  BY <1>1 DEF Unseen, queueVars, QueueStatus, Queue!vars
<1>2. CASE PopCancelled
  BY <1>2, PopStutters DEF Queue!vars
<1>3. CASE PopStop \/ PopCallback
  <2>1. Head(ready) \in Handles
    BY <1>3, PopFacts DEF QInv, IInv, PopStop, PopCallback
  <2> QED
    BY <1>3, <2>1, PopStarts
<1>4. CASE CallbackReturn \/ CallbackRaise
  BY <1>4, CallbackFinishes
<1>5. CASE CloseCancel \/ CloseClear
  BY <1>5, CloseDrops
<1>6. ASSUME NEW h \in Handles, CallSoon(h) PROVE Queue!Next
  <2>1. /\ AppendReady(h) /\ h \notin Range(scheduled)
        /\ UNCHANGED <<cancelled, ran, current>>
    BY <1>6 DEF CallSoon, Fresh, batchVars
  <2> QED
    BY <2>1, AppendSubmits
<1>7. ASSUME NEW h \in Handles, Cancel(h) PROVE Queue!Next
  BY <1>7, CancelDrops
<1>8. ASSUME NEW t \in Threads, ThreadAppend(t) PROVE Queue!Next
  <2>1. targ[t] \in Handles /\ AppendReady(targ[t])
    BY <1>8, TargetFacts DEF QInv, IInv
  <2>2. /\ targ[t] \notin Range(scheduled)
        /\ UNCHANGED <<cancelled, ran, current>>
    BY <1>8 DEF ThreadAppend, QInv, TargetInv, batchVars
  <2> QED
    BY <2>1, <2>2, AppendSubmits
<1> QED
  BY <1>1, <1>2, <1>3, <1>4, <1>5, <1>6, <1>7, <1>8, UnseenSteps DEF QInv

\* The invariant of the refinement: handles are submitted once.
THEOREM QueueInvariance == Spec => []QInv
BY QInit, QStep, PTL DEF Spec

\* The loop implements the queue of call_soon's docstring: callbacks start in
\* the order of registration, at most once, one at a time, and a cancelled one
\* never, whatever other threads, stop() and close() do meanwhile.
THEOREM LoopImplementsQueue == Spec => ImplementsQueue
BY QueueInit, QueueNext, QueueInvariance, PTL
   DEF Spec, ImplementsQueue, Queue!Spec

-----------------------------------------------------------------------------
(* Signals: none is lost, missed or made up, for any set of signals, any *)
(* size of the self-pipe and any number of arrivals.                     *)

Counts == [Sigs -> Nat]

SignalsTypeOK ==
    /\ pc \in {"out", "poll", "read", "handle", "stopping", "closed"}
    /\ wakeup \in BOOLEAN
    /\ pipe \in Counts /\ data \in Counts /\ queued \in Counts
    /\ arrivals \in Counts /\ calls \in Counts
    /\ tripped \subseteq Sigs /\ signals \subseteq Sigs /\ sigs \subseteq Sigs
    /\ handlers \subseteq Sigs
    /\ owed \subseteq Sigs /\ late \subseteq Sigs /\ abandoned \subseteq Sigs

\* Something is owed only where a handler is, or to ^C, whose default handler
\* has to run for it.
OwedInv ==
    /\ owed \union late \subseteq handlers \union {SigInt}
    /\ SigInt \in (owed \union late) \ handlers => SigInt \in tripped
    /\ ~Listening => owed = {}

\* Only _invoke_signals keeps signals anywhere but in CPython and _signals.
PlaceInv ==
    /\ pc = "handle" => NothingLost
    /\ pc # "handle" => owed \union late \subseteq
                            tripped \union signals \union abandoned

\* What is owed in this run does not rest on what was abandoned in others,
\* and once the self-pipe was read all of it is about to be handled.
RunInv ==
    /\ pc \in {"poll", "read"} => owed \subseteq tripped \union signals
    /\ pc = "handle" =>
           owed \subseteq tripped \union signals \union sigs
                              \union Present(data)
    /\ pc = "handle" /\ wakeup /\ owed # {} =>
           Present(pipe) # {} \/ owed \subseteq sigs \union Present(data)
    /\ NothingMissed

Flag(b) == IF b THEN 1 ELSE 0

\* The callbacks of s that were queued, and those that may yet be.
Account(s) ==
    calls[s] + pipe[s] + data[s]
        + Flag(s \in tripped) + Flag(s \in signals) + Flag(s \in sigs)

CountInv == \A s \in Sigs : Account(s) <= 2 * arrivals[s]

SignalsInv == SignalsTypeOK /\ OwedInv /\ PlaceInv /\ RunInv /\ CountInv

-----------------------------------------------------------------------------
(* One lemma for each part of the invariant, one step for each action. *)

\* The counts of bytes, callbacks and arrivals stay natural numbers.
LEMMA SignalsTypeStep == SignalsInv /\ [SignalsNext]_signalVars => SignalsTypeOK'
<1> SUFFICES ASSUME SignalsInv, [SignalsNext]_signalVars PROVE SignalsTypeOK'
  OBVIOUS
<1> USE SignalsAssumption DEF SignalsInv, SignalsTypeOK, Counts
<1>1. ASSUME NEW s \in Sigs, Arrive(s) PROVE SignalsTypeOK'
  BY <1>1 DEF Arrive, Full, Listening, local
<1>2. ASSUME NEW s \in Sigs, HandleByte(s) PROVE SignalsTypeOK'
  BY <1>2 DEF HandleByte, HandleSignal, QueueCallback, Settle, CheckAgain, Checked,
     Raises, Interrupted, None, Present
<1>3. ASSUME NEW s \in Sigs, HandleRest(s) PROVE SignalsTypeOK'
  BY <1>3 DEF HandleRest, Present, HandleSignal, QueueCallback, Settle, CheckAgain,
     Checked, Raises, Interrupted, None
<1>4. ASSUME NEW s \in Sigs, RunCallback(s) PROVE SignalsTypeOK'
  BY <1>4 DEF RunCallback, local, history
<1>5. ASSUME NEW s \in Sigs, AddSignalHandler(s) PROVE SignalsTypeOK'
  BY <1>5 DEF AddSignalHandler, InProgram, local, history
<1>6. ASSUME NEW s \in Sigs, RemoveSignalHandler(s) PROVE SignalsTypeOK'
  BY <1>6 DEF RemoveSignalHandler, InProgram, Listening, Settle, local
<1>7. CASE PythonRuns
  BY <1>7 DEF PythonRuns, Checked, Raises, local
<1>8. CASE SetupSignals
  BY <1>8 DEF SetupSignals, local, history
<1>9. CASE PauseSignals
  BY <1>9 DEF PauseSignals, None, local
<1>10. CASE ReadFromSelf
  BY <1>10 DEF ReadFromSelf, Present, None, history
<1>11. CASE InvokeSignals
  BY <1>11 DEF InvokeSignals, Present, Checked, Raises, Interrupted, None
<1>12. CASE InvokeEnds
  BY <1>12 DEF InvokeEnds, Present, local, history
<1>13. CASE AddUncatchable
  BY <1>13 DEF AddUncatchable, InProgram, local, history
<1>14. CASE Close
  BY <1>14 DEF Close, None, local, history
<1>15. CASE UNCHANGED signalVars
  BY <1>15 DEF signalVars, local, history
<1> QED
  BY <1>1, <1>2, <1>3, <1>4, <1>5, <1>6, <1>7, <1>8, <1>9, <1>10, <1>11,
     <1>12, <1>13, <1>14, <1>15 DEF SignalsNext

\* Whatever is owed keeps its handler: a handler is removed with its debts,
\* and the default handler of SIGINT settles its own.
LEMMA OwedStep == SignalsInv /\ [SignalsNext]_signalVars => OwedInv'
<1> SUFFICES ASSUME SignalsInv, [SignalsNext]_signalVars PROVE OwedInv'
  OBVIOUS
<1> USE SignalsAssumption DEF SignalsInv, SignalsTypeOK, OwedInv, Listening
<1>1. ASSUME NEW s \in Sigs, Arrive(s) PROVE OwedInv'
  BY <1>1 DEF Arrive, Full, local
<1>2. ASSUME NEW s \in Sigs, HandleByte(s) PROVE OwedInv'
  BY <1>2 DEF HandleByte, HandleSignal, QueueCallback, Settle, CheckAgain, Checked,
     Raises, Interrupted, None, Present
<1>3. ASSUME NEW s \in Sigs, HandleRest(s) PROVE OwedInv'
  BY <1>3 DEF HandleRest, Present, HandleSignal, QueueCallback, Settle, CheckAgain,
     Checked, Raises, Interrupted, None
<1>4. ASSUME NEW s \in Sigs, RunCallback(s) PROVE OwedInv'
  BY <1>4 DEF RunCallback, local, history
<1>5. ASSUME NEW s \in Sigs, AddSignalHandler(s) PROVE OwedInv'
  BY <1>5 DEF AddSignalHandler, InProgram, local, history
<1>6. ASSUME NEW s \in Sigs, RemoveSignalHandler(s) PROVE OwedInv'
  BY <1>6 DEF RemoveSignalHandler, InProgram, Settle, local
<1>7. CASE PythonRuns
  BY <1>7 DEF PythonRuns, Checked, Raises, local
<1>8. CASE SetupSignals
  BY <1>8 DEF SetupSignals, local, history
<1>9. CASE PauseSignals
  BY <1>9 DEF PauseSignals, None, local
<1>10. CASE ReadFromSelf
  BY <1>10 DEF ReadFromSelf, Present, None, history
<1>11. CASE InvokeSignals
  BY <1>11 DEF InvokeSignals, Present, Checked, Raises, Interrupted, None
<1>12. CASE InvokeEnds
  BY <1>12 DEF InvokeEnds, Present, local, history
<1>13. CASE AddUncatchable
  BY <1>13 DEF AddUncatchable, InProgram, local, history
<1>14. CASE Close
  BY <1>14 DEF Close, None, local, history
<1>15. CASE UNCHANGED signalVars
  BY <1>15 DEF signalVars, local, history
<1> QED
  BY <1>1, <1>2, <1>3, <1>4, <1>5, <1>6, <1>7, <1>8, <1>9, <1>10, <1>11,
     <1>12, <1>13, <1>14, <1>15 DEF SignalsNext

\* A signal goes from CPython to _signals, from there to the local set of
\* _invoke_signals, and leaves it by a callback or by an exception.
LEMMA PlaceStep == SignalsInv /\ [SignalsNext]_signalVars => PlaceInv'
<1> SUFFICES ASSUME SignalsInv, [SignalsNext]_signalVars PROVE PlaceInv'
  OBVIOUS
<1> USE SignalsAssumption DEF SignalsInv, SignalsTypeOK, Counts, OwedInv, PlaceInv,
     NothingLost, Present
<1>1. ASSUME NEW s \in Sigs, Arrive(s) PROVE PlaceInv'
  BY <1>1 DEF Arrive, Full, Listening, local
<1>2. ASSUME NEW s \in Sigs, HandleByte(s) PROVE PlaceInv'
  BY <1>2 DEF HandleByte, HandleSignal, QueueCallback, Settle, CheckAgain, Checked,
     Raises, Interrupted, None
<1>3. ASSUME NEW s \in Sigs, HandleRest(s) PROVE PlaceInv'
  BY <1>3 DEF HandleRest, HandleSignal, QueueCallback, Settle, CheckAgain, Checked,
     Raises, Interrupted, None
<1>4. ASSUME NEW s \in Sigs, RunCallback(s) PROVE PlaceInv'
  BY <1>4 DEF RunCallback, local, history
<1>5. ASSUME NEW s \in Sigs, AddSignalHandler(s) PROVE PlaceInv'
  BY <1>5 DEF AddSignalHandler, InProgram, local, history
<1>6. ASSUME NEW s \in Sigs, RemoveSignalHandler(s) PROVE PlaceInv'
  BY <1>6 DEF RemoveSignalHandler, InProgram, Listening, Settle, local
<1>7. CASE PythonRuns
  BY <1>7 DEF PythonRuns, Checked, Raises, local
<1>8. CASE SetupSignals
  BY <1>8 DEF SetupSignals, local, history
<1>9. CASE PauseSignals
  BY <1>9 DEF PauseSignals, None, local
<1>10. CASE ReadFromSelf
  BY <1>10 DEF ReadFromSelf, None, history
<1>11. CASE InvokeSignals
  BY <1>11 DEF InvokeSignals, Checked, Raises, Interrupted, None
<1>12. CASE InvokeEnds
  BY <1>12 DEF InvokeEnds, local, history
<1>13. CASE AddUncatchable
  BY <1>13 DEF AddUncatchable, InProgram, local, history
<1>14. CASE Close
  BY <1>14 DEF Close, None, local, history
<1>15. CASE UNCHANGED signalVars
  BY <1>15 DEF signalVars, local, history
<1> QED
  BY <1>1, <1>2, <1>3, <1>4, <1>5, <1>6, <1>7, <1>8, <1>9, <1>10, <1>11,
     <1>12, <1>13, <1>14, <1>15 DEF SignalsNext

\* A signal of this run that _invoke_signals does not know of has written a
\* byte since the self-pipe was read, or found it full again.
LEMMA RunStep == SignalsInv /\ [SignalsNext]_signalVars => RunInv'
<1> SUFFICES ASSUME SignalsInv, [SignalsNext]_signalVars PROVE RunInv'
  OBVIOUS
<1> USE SignalsAssumption DEF SignalsInv, SignalsTypeOK, Counts, OwedInv, Listening,
     PlaceInv, RunInv, Present, NothingMissed
<1>1. ASSUME NEW s \in Sigs, Arrive(s) PROVE RunInv'
  BY <1>1 DEF Arrive, Full, local
<1>2. ASSUME NEW s \in Sigs, HandleByte(s) PROVE RunInv'
  BY <1>2 DEF HandleByte, HandleSignal, QueueCallback, Settle, CheckAgain, Checked,
     Raises, Interrupted, None
<1>3. ASSUME NEW s \in Sigs, HandleRest(s) PROVE RunInv'
  BY <1>3 DEF HandleRest, HandleSignal, QueueCallback, Settle, CheckAgain, Checked,
     Raises, Interrupted, None
<1>4. ASSUME NEW s \in Sigs, RunCallback(s) PROVE RunInv'
  BY <1>4 DEF RunCallback, local, history
<1>5. ASSUME NEW s \in Sigs, AddSignalHandler(s) PROVE RunInv'
  BY <1>5 DEF AddSignalHandler, InProgram, local, history
<1>6. ASSUME NEW s \in Sigs, RemoveSignalHandler(s) PROVE RunInv'
  BY <1>6 DEF RemoveSignalHandler, InProgram, Settle, local
<1>7. CASE PythonRuns
  BY <1>7 DEF PythonRuns, Checked, Raises, local
<1>8. CASE SetupSignals
  BY <1>8 DEF SetupSignals, local, history
<1>9. CASE PauseSignals
  BY <1>9 DEF PauseSignals, None, local
<1>10. CASE ReadFromSelf
  BY <1>10 DEF ReadFromSelf, None, history
<1>11. CASE InvokeSignals
  BY <1>11 DEF InvokeSignals, Checked, Raises, Interrupted, None
<1>12. CASE InvokeEnds
  BY <1>12 DEF InvokeEnds, local, history
<1>13. CASE AddUncatchable
  BY <1>13 DEF AddUncatchable, InProgram, local, history
<1>14. CASE Close
  BY <1>14 DEF Close, None, local, history
<1>15. CASE UNCHANGED signalVars
  BY <1>15 DEF signalVars, local, history
<1> QED
  BY <1>1, <1>2, <1>3, <1>4, <1>5, <1>6, <1>7, <1>8, <1>9, <1>10, <1>11,
     <1>12, <1>13, <1>14, <1>15 DEF SignalsNext

\* An arrival adds two to the account, its byte and its mark in CPython; no
\* other step adds anything.
LEMMA CountStep == SignalsInv /\ [SignalsNext]_signalVars => CountInv'
<1> SUFFICES ASSUME SignalsInv, [SignalsNext]_signalVars PROVE CountInv'
  OBVIOUS
<1> USE SignalsAssumption DEF SignalsInv, SignalsTypeOK, Counts, CountInv, Account, Flag
<1>1. ASSUME NEW s \in Sigs, Arrive(s) PROVE CountInv'
  BY <1>1 DEF Arrive, Full, Listening, local
<1>2. ASSUME NEW s \in Sigs, HandleByte(s) PROVE CountInv'
  BY <1>2 DEF HandleByte, HandleSignal, QueueCallback, Settle, CheckAgain, Checked,
     Raises, Interrupted, None, Present
<1>3. ASSUME NEW s \in Sigs, HandleRest(s) PROVE CountInv'
  BY <1>3 DEF HandleRest, Present, HandleSignal, QueueCallback, Settle, CheckAgain,
     Checked, Raises, Interrupted, None
<1>4. ASSUME NEW s \in Sigs, RunCallback(s) PROVE CountInv'
  BY <1>4 DEF RunCallback, local, history
<1>5. ASSUME NEW s \in Sigs, AddSignalHandler(s) PROVE CountInv'
  BY <1>5 DEF AddSignalHandler, InProgram, local, history
<1>6. ASSUME NEW s \in Sigs, RemoveSignalHandler(s) PROVE CountInv'
  BY <1>6 DEF RemoveSignalHandler, InProgram, Listening, Settle, local
<1>7. CASE PythonRuns
  BY <1>7 DEF PythonRuns, Checked, Raises, local
<1>8. CASE SetupSignals
  BY <1>8 DEF SetupSignals, local, history
<1>9. CASE PauseSignals
  BY <1>9 DEF PauseSignals, None, local
<1>10. CASE ReadFromSelf
  BY <1>10 DEF ReadFromSelf, Present, None, history
<1>11. CASE InvokeSignals
  BY <1>11 DEF InvokeSignals, Present, Checked, Raises, Interrupted, None
<1>12. CASE InvokeEnds
  BY <1>12 DEF InvokeEnds, Present, local, history
<1>13. CASE AddUncatchable
  BY <1>13 DEF AddUncatchable, InProgram, local, history
<1>14. CASE Close
  BY <1>14 DEF Close, None, local, history
<1>15. CASE UNCHANGED signalVars
  BY <1>15 DEF signalVars, local, history
<1> QED
  BY <1>1, <1>2, <1>3, <1>4, <1>5, <1>6, <1>7, <1>8, <1>9, <1>10, <1>11,
     <1>12, <1>13, <1>14, <1>15 DEF SignalsNext

-----------------------------------------------------------------------------

\* The invariant holds in the initial state, with nothing owed.
LEMMA SignalsInitHolds == SignalsInit => SignalsInv
<1> SUFFICES ASSUME SignalsInit PROVE SignalsInv
  OBVIOUS
<1> USE SignalsAssumption DEF SignalsInit
<1>1. SignalsTypeOK
  BY DEF SignalsTypeOK, Counts, None
<1>2. OwedInv
  BY DEF OwedInv, Listening
<1>3. PlaceInv /\ RunInv
  BY DEF PlaceInv, RunInv, NothingMissed
<1>4. CountInv
  BY DEF CountInv, Account, Flag, None
<1> QED
  BY <1>1, <1>2, <1>3, <1>4 DEF SignalsInv

\* The inductive invariant holds of every run of the loop.
THEOREM SignalsInvariance == SignalsSpec => []SignalsInv
<1>1. SignalsInit => SignalsInv
  BY SignalsInitHolds
<1>2. SignalsInv /\ [SignalsNext]_signalVars => SignalsInv'
  BY SignalsTypeStep, OwedStep, PlaceStep, RunStep, CountStep DEF SignalsInv
<1> QED
  BY <1>1, <1>2, PTL DEF SignalsSpec

\* Every variable keeps to its values.
THEOREM SignalsTypeCorrect == SignalsSpec => []SignalsTypeOK
<1>1. SignalsInv => SignalsTypeOK
  BY DEF SignalsInv
<1> QED
  BY <1>1, SignalsInvariance, PTL

\* A signal is remembered until its callback is queued (_invoke_signals), from
\* one run of the loop to the next, unless a KeyboardInterrupt took it.
THEOREM SignalsAreKept == SignalsSpec => []NothingLost
<1>1. SignalsInv => NothingLost
  BY DEF SignalsInv, PlaceInv, NothingLost
<1> QED
  BY <1>1, SignalsInvariance, PTL

\* The loop never blocks over a signal of this run without a byte in the
\* self-pipe (_setup_or_resume_signals), however small the pipe is.
THEOREM LoopIsWoken == SignalsSpec => []NothingMissed
<1>1. SignalsInv => NothingMissed
  BY DEF SignalsInv, RunInv
<1> QED
  BY <1>1, SignalsInvariance, PTL

\* No callback of a signal is queued but for its arrivals, at most two for
\* each (_invoke_signals goes over the bytes and over the set).
THEOREM NoneIsMadeUp == SignalsSpec => []NoPhantom
<1>1. SignalsInv => NoPhantom
  BY DEF SignalsInv, SignalsTypeOK, Counts, CountInv, Account, Flag, NoPhantom
<1> QED
  BY <1>1, SignalsInvariance, PTL

=============================================================================
