---------------------------- MODULE StreamProofs ----------------------------
(***************************************************************************)
(* The safety of Stream for every number of bytes and every set of water   *)
(* marks.                                                                  *)
(*                                                                         *)
(* Two facts carry the rest.  StackInv bounds re-entrancy: pause_writing   *)
(* is called only while the protocol is not paused, and resume_writing     *)
(* only by the loop or by a write that is not possible while paused, so    *)
(* callbacks nest two deep and a pause is always innermost.  CountInv      *)
(* accounts for the bytes: until the connection is aborted or fails, what  *)
(* was written is in the kernel, in libuv or in _buffer.                   *)
(***************************************************************************)
EXTENDS Stream, SequenceTheorems, TLAPS

USE DEF vars, writeVars, flowVars, closeVars, eofVars, madeVars, history

PauseFrames == {"pause", "pauseQueue"}

Holds(seq, elt) == \E i \in 1..Len(seq) : seq[i] = elt

StackInv ==
    /\ Len(stack) <= 2
    /\ \A i \in 1..Len(stack) : stack[i] \in PauseFrames \/ i = Len(stack)
    /\ \A i \in 1..Len(stack) : stack[i] \in PauseFrames => paused

\* seq holds consecutive bytes, those after byte number first.
Follows(seq, first) == \A i \in 1..Len(seq) : seq[i] = first + i

\* Where each byte is: InOrder without \o.  Bytes are dropped when the socket
\* fails and, by then, the connection is given up.
PlaceInv ==
    ~broken \/ ~hard =>
        /\ Len(kernel) + Len(uv) + Len(buf) = written
        /\ Follows(kernel, 0)
        /\ Follows(uv, Len(kernel))
        /\ Follows(buf, Len(kernel) + Len(uv))

\* The requests end at bytes that were written, and nothing is accepted or
\* left to send once a graceful connection_lost is certain.
CountInv ==
    /\ promised <= written
    /\ ~hard => \A i \in 1..Len(reqs) : reqs[i] <= written
    /\ ~hard /\ connLost => Size = 0

\* connection_lost is scheduled by a graceful close only behind the bytes that
\* close() promised.
FlushInv ==
    ~hard /\ (lostCalls > 0 \/ Holds(sched, "lost")) =>
        closing /\ Len(kernel) >= promised

EofInv == shut # "no" => eof /\ Size = 0

MadeInv ==
    /\ connected <=> made
    /\ Holds(stack, "made") => made
    /\ awaited => Awaited

LostInv ==
    /\ lostCalls = 0 \/ (lostCalls = 1 /\ made)
    /\ lostCalls = 1 => closed \/ Holds(stack, "lost")
    /\ Holds(stack, "lost") => lostCalls = 1
    /\ closed => stack = <<>>
    /\ ~Awaited => LostIsReported

IInv ==
    /\ TypeOK /\ StackInv /\ PlaceInv /\ HighWater /\ NoReadWhileClosing
    /\ CountInv /\ FlushInv /\ EofInv /\ MadeInv /\ LostInv
-----------------------------------------------------------------------------
(* Facts about the sequences the handlers build.                           *)

LEMMA EnterFacts ==
  ASSUME stack \in Seq(Frames), NEW frame \in Frames, Enter(frame)
  PROVE  /\ stack' \in Seq(Frames)
         /\ Len(stack') = Len(stack) + 1
         /\ stack' # <<>>
         /\ stack'[1] = frame
         /\ \A i \in 1..Len(stack) : stack'[i + 1] = stack[i]
BY DEF Enter

LEMMA LeaveFacts ==
  ASSUME stack \in Seq(Frames), stack # <<>>, Leave
  PROVE  /\ stack' \in Seq(Frames)
         /\ Len(stack') = Len(stack) - 1
         /\ Head(stack) = stack[1]
         /\ \A i \in 1..Len(stack') : stack'[i] = stack[i + 1]
BY HeadTailProperties DEF Leave

LEMMA SchedFacts ==
  ASSUME sched \in Seq({"made", "lost"}), ScheduleLost
  PROVE  /\ sched' \in Seq({"made", "lost"})
         /\ Holds(sched', "lost")
BY AppendProperties DEF ScheduleLost, Holds

LEMMA ConcatFacts ==
  ASSUME NEW a \in Seq(Bytes), NEW s \in Seq(Bytes), NEW c, c = a \o s
  PROVE  /\ c \in Seq(Bytes)
         /\ Len(c) = Len(a) + Len(s)
         /\ \A i \in 1..Len(a) : c[i] = a[i]
         /\ \A i \in (Len(a) + 1)..Len(c) : c[i] = s[i - Len(a)]
BY ConcatProperties

\* Consecutive bytes behind consecutive bytes.
LEMMA FollowsConcat ==
  ASSUME NEW a \in Seq(Bytes), NEW s \in Seq(Bytes), NEW c, c = a \o s
  PROVE  /\ c \in Seq(Bytes)
         /\ Len(c) = Len(a) + Len(s)
         /\ \A first \in Nat :
                Follows(a, first) /\ Follows(s, first + Len(a)) =>
                    Follows(c, first)
<1>1. /\ c \in Seq(Bytes)
      /\ Len(c) = Len(a) + Len(s)
      /\ \A i \in 1..Len(a) : c[i] = a[i]
      /\ \A i \in (Len(a) + 1)..Len(c) : c[i] = s[i - Len(a)]
  BY ConcatFacts
<1>2. Len(a) \in Nat /\ Len(s) \in Nat
  OBVIOUS
<1>3. ASSUME NEW first \in Nat,
             Follows(a, first), Follows(s, first + Len(a))
      PROVE  Follows(c, first)
  <2>1. ASSUME NEW i \in 1..Len(c) PROVE c[i] = first + i
    <3>1. CASE i <= Len(a)
      BY ONLY <1>1, <1>2, <1>3, <2>1, <3>1 DEF Follows
    <3>2. CASE i > Len(a)
      <4>1. i \in (Len(a) + 1)..Len(c) /\ i - Len(a) \in 1..Len(s)
        BY ONLY <1>1, <1>2, <2>1, <3>2
      <4> QED
        BY ONLY <1>1, <1>2, <1>3, <2>1, <4>1 DEF Follows
    <3> QED
      BY ONLY <1>2, <2>1, <3>1, <3>2
  <2> QED
    BY ONLY <2>1 DEF Follows
<1> QED
  BY ONLY <1>1, <1>3

\* The socket takes the first k of the bytes s, libuv's queue the others.
LEMMA FollowsSplit ==
  ASSUME NEW s \in Seq(Bytes), NEW k \in Nat, k <= Len(s)
  PROVE  /\ SubSeq(s, 1, k) \in Seq(Bytes)
         /\ Len(SubSeq(s, 1, k)) = k
         /\ SubSeq(s, k + 1, Len(s)) \in Seq(Bytes)
         /\ Len(SubSeq(s, k + 1, Len(s))) = Len(s) - k
         /\ \A first \in Nat : Follows(s, first) =>
                /\ Follows(SubSeq(s, 1, k), first)
                /\ Follows(SubSeq(s, k + 1, Len(s)), first + k)
BY DEF Follows

Split(s, k) ==
    /\ kernel' = kernel \o SubSeq(s, 1, k)
    /\ uv' = uv \o SubSeq(s, k + 1, Len(s))

LEMMA SplitStep ==
  ASSUME kernel \in Seq(Bytes), uv \in Seq(Bytes), NEW s \in Seq(Bytes),
         NEW k \in Nat, k <= Len(s), Split(s, k)
  PROVE  /\ kernel' \in Seq(Bytes) /\ Len(kernel') = Len(kernel) + k
         /\ uv' \in Seq(Bytes) /\ Len(uv') = Len(uv) + (Len(s) - k)
         /\ /\ Follows(kernel, 0) /\ Follows(uv, Len(kernel))
            /\ Follows(s, Len(kernel) + Len(uv))
            /\ uv # <<>> => k = 0
            => Follows(kernel', 0) /\ Follows(uv', Len(kernel'))
<1>1. PICK t, u : t = SubSeq(s, 1, k) /\ u = SubSeq(s, k + 1, Len(s))
  OBVIOUS
<1>2. s \in Seq(Bytes) /\ k \in Nat /\ k <= Len(s)
  OBVIOUS
<1>3. /\ t \in Seq(Bytes) /\ Len(t) = k
      /\ u \in Seq(Bytes) /\ Len(u) = Len(s) - k
      /\ \A first \in Nat : Follows(s, first) =>
             Follows(t, first) /\ Follows(u, first + k)
  BY ONLY <1>1, <1>2, FollowsSplit
<1>4. kernel \in Seq(Bytes) /\ t \in Seq(Bytes) /\ kernel' = kernel \o t
  BY <1>1, <1>3 DEF Split
<1>5. uv \in Seq(Bytes) /\ u \in Seq(Bytes) /\ uv' = uv \o u
  BY <1>1, <1>3 DEF Split
<1>6. /\ kernel' \in Seq(Bytes) /\ Len(kernel') = Len(kernel) + Len(t)
      /\ \A first \in Nat :
             Follows(kernel, first) /\ Follows(t, first + Len(kernel)) =>
                 Follows(kernel', first)
  BY ONLY <1>4, FollowsConcat
<1>7. /\ uv' \in Seq(Bytes) /\ Len(uv') = Len(uv) + Len(u)
      /\ \A first \in Nat :
             Follows(uv, first) /\ Follows(u, first + Len(uv)) =>
                 Follows(uv', first)
  BY ONLY <1>5, FollowsConcat
<1>8. /\ Len(kernel) \in Nat /\ Len(uv) \in Nat
      /\ uv = <<>> => Len(uv) = 0
  OBVIOUS
<1>9. ASSUME Follows(kernel, 0), Follows(uv, Len(kernel)),
             Follows(s, Len(kernel) + Len(uv)), uv # <<>> => k = 0
      PROVE  Follows(kernel', 0) /\ Follows(uv', Len(kernel'))
  <2>1. /\ Follows(t, Len(kernel) + Len(uv))
        /\ Follows(u, Len(kernel) + Len(uv) + k)
    BY ONLY <1>3, <1>8, <1>9
  <2>2. Follows(t, Len(kernel))
    <3>1. CASE uv = <<>>
      BY ONLY <1>8, <2>1, <3>1
    <3>2. CASE k = 0
      BY ONLY <1>3, <3>2 DEF Follows
    <3> QED
      BY ONLY <1>9, <3>1, <3>2
  <2>3. Follows(kernel', 0)
    BY ONLY <1>6, <1>8, <1>9, <2>2
  <2>4. Follows(uv, Len(kernel'))
    <3>1. CASE uv = <<>>
      BY ONLY <1>8, <3>1 DEF Follows
    <3>2. CASE k = 0
      BY ONLY <1>3, <1>6, <1>8, <1>9, <3>2
    <3> QED
      BY ONLY <1>9, <3>1, <3>2
  <2>5. /\ Len(kernel') \in Nat
        /\ Len(kernel) + Len(uv) + k = Len(kernel') + Len(uv)
    BY ONLY <1>2, <1>3, <1>6, <1>8
  <2> QED
    BY ONLY <1>7, <2>1, <2>3, <2>4, <2>5
<1>10. /\ Len(kernel') = Len(kernel) + k
       /\ Len(uv') = Len(uv) + (Len(s) - k)
  BY ONLY <1>3, <1>6, <1>7
<1> QED
  BY ONLY <1>6, <1>7, <1>9, <1>10

\* What write() makes of _buffer.
LEMMA FollowsData ==
  ASSUME TypeOK, NEW n \in Bytes, written + n <= MaxBytes
  PROVE  /\ WithData(n) \in Seq(Bytes)
         /\ Len(WithData(n)) = Len(buf) + n
         /\ \A first \in Nat :
                Follows(buf, first) /\ first + Len(buf) = written =>
                    Follows(WithData(n), first)
<1>1. n \in Nat /\ written \in Nat /\ MaxBytes \in Nat
  BY StreamAssumption DEF TypeOK, Bytes
<1>2. PICK new : new = [i \in 1..n |-> written + i]
  OBVIOUS
<1>3. new \in Seq(Bytes) /\ Len(new) = n /\ Follows(new, written)
  BY <1>1, <1>2 DEF Bytes, Follows
<1>4. PICK d : d = buf \o new
  OBVIOUS
<1>5. buf \in Seq(Bytes) /\ new \in Seq(Bytes) /\ d = buf \o new
  BY <1>3, <1>4 DEF TypeOK
<1>6. /\ d \in Seq(Bytes)
      /\ Len(d) = Len(buf) + Len(new)
      /\ \A first \in Nat :
             Follows(buf, first) /\ Follows(new, first + Len(buf)) =>
                 Follows(d, first)
  BY ONLY <1>5, FollowsConcat
<1>7. d = WithData(n)
  BY ONLY <1>2, <1>4 DEF WithData
<1> QED
  BY ONLY <1>3, <1>6, <1>7

Lengths == /\ Len(kernel) \in Nat /\ Len(uv) \in Nat /\ Len(buf) \in Nat
           /\ written \in Nat

LEMMA LengthsNat == TypeOK => Lengths
BY DEF TypeOK, Lengths

LEMMA LengthsNatNext == TypeOK' => Lengths' /\ promised' \in Nat
BY DEF TypeOK, Lengths

-----------------------------------------------------------------------------
(* How the callbacks nest.                                                 *)

\* A step leaves the callbacks alone, calls pause_writing() of a protocol that
\* was not paused, makes the loop call a callback, or returns from one.
CallStep ==
    \/ UNCHANGED <<stack, paused>>
    \/ \E f \in PauseFrames : Enter(f) /\ ~paused /\ paused'
    \/ \E f \in Frames \ PauseFrames : Enter(f) /\ LoopRuns
    \/ stack # <<>> /\ Leave /\ UNCHANGED paused

LEMMA Calls == Next => CallStep
<1> SUFFICES ASSUME Next PROVE CallStep
  OBVIOUS
<1> USE DEF PauseFrames, Frames
<1>1. ASSUME NEW n \in Bytes, WriteAll(n) PROVE CallStep
  BY <1>1 DEF WriteAll, FastPath, OnWrite, MustResume, CallStep
<1>2. ASSUME NEW n \in Bytes, NEW k \in 0..MaxBytes, WritePart(n, k)
      PROVE  CallStep
  BY <1>2 DEF WritePart, MaybePause, CallStep
<1>3. ASSUME NEW n \in Bytes, WriteFails(n) \/ WriteLater(n) PROVE CallStep
  BY <1>3 DEF WriteFails, WriteLater, PauseAndQueue, MaybePause, CallStep
<1>4. ASSUME NEW l \in Limits, SetLimits(l) PROVE CallStep
  BY <1>4 DEF SetLimits, MaybePause, CallStep
<1>5. CASE WriteEof \/ Close \/ Abort \/ ResumeReading \/ PauseReading
  BY <1>5 DEF WriteEof, Close, Abort, ResumeReading, PauseReading, CallStep
<1>6. CASE ExecAll
  BY <1>6 DEF ExecAll, ExecSomething, ExecQueued, OnWrite, Resume, CallStep
<1>7. ASSUME NEW k \in 0..MaxBytes, ExecPart(k) PROVE CallStep
  BY <1>7 DEF ExecPart, ExecSomething, ExecQueued, MaybeResume, Resume,
              CallStep
<1>8. CASE ExecNothing \/ ExecFails \/ WriteIgnored \/ WriteError
  BY <1>8 DEF ExecNothing, ExecFails, WriteIgnored, WriteError, CallStep
<1>9. CASE WriteDone
  BY <1>9 DEF WriteDone, Callback, OnWrite, Resume, CallStep
<1>10. CASE ShutdownCallback \/ KernelProgress \/ KernelFail \/ ReadError
  BY <1>10 DEF ShutdownCallback, KernelProgress, KernelAccept, KernelFail,
               ReadError, CallStep
<1>11. CASE ReadEof
  BY <1>11 DEF ReadEof, CallStep
<1>12. CASE Returns
  BY <1>12 DEF Returns, PauseReturn, ResumeReturn, FlowRaise, EofKeepsOpen,
               EofCloses, MadeReturns, MadeRaises, LostReturns, InCallback,
               CallStep
<1>13. CASE RunMade \/ RunLost
  BY <1>13 DEF RunMade, RunLost, RunHandle, CallStep
<1>14. CASE RunIgnored \/ LostUnheard \/ ConnectReturns \/ ConnectCancelled
  BY <1>14 DEF RunIgnored, LostUnheard, ConnectReturns, ConnectCancelled,
               CallStep
<1> QED
  BY <1>1, <1>2, <1>3, <1>4, <1>5, <1>6, <1>7, <1>8, <1>9, <1>10, <1>11,
     <1>12, <1>13, <1>14
     DEF Next, User, Write, ExecWrites, WriteCallback, Scheduled

LEMMA StackStep ==
  ASSUME TypeOK, StackInv, CallStep
  PROVE  stack' \in Seq(Frames) /\ StackInv'
<1>0. /\ stack \in Seq(Frames) /\ Len(stack) \in Nat
      /\ stack = <<>> => Len(stack) = 0
      /\ stack # <<>> => Len(stack) > 0
  BY EmptySeq DEF TypeOK
<1>1. CASE UNCHANGED <<stack, paused>>
  BY <1>0, <1>1 DEF StackInv
<1>2. ASSUME NEW f \in PauseFrames, Enter(f), ~paused, paused'
      PROVE  stack' \in Seq(Frames) /\ StackInv'
  <2>1. f \in Frames
    BY DEF PauseFrames, Frames
  <2>2. Len(stack) <= 1
    BY <1>0, <1>2 DEF StackInv
  <2> QED
    BY <1>0, <1>2, <2>1, <2>2, EnterFacts DEF StackInv
<1>3. ASSUME NEW f \in Frames \ PauseFrames, Enter(f), LoopRuns
      PROVE  stack' \in Seq(Frames) /\ StackInv'
  <2>1. Len(stack') = 1 /\ stack'[1] = f /\ stack' \in Seq(Frames)
    BY <1>0, <1>3, EnterFacts DEF LoopRuns
  <2> QED
    BY <1>3, <2>1 DEF StackInv
<1>4. CASE stack # <<>> /\ Leave /\ UNCHANGED paused
  BY <1>0, <1>4, LeaveFacts DEF StackInv
<1> QED
  BY <1>1, <1>2, <1>3, <1>4 DEF CallStep

-----------------------------------------------------------------------------
(* How the connection ends.                                                *)

\* Nothing changes, the connection is given up, or a graceful close begins.
EndStep ==
    \/ UNCHANGED <<closing, connLost, hard, promised>>
    \/ /\ ~connLost /\ ~closed
       /\ closing' /\ connLost' /\ hard'
       /\ promised' = promised
    \/ /\ ~closing /\ closing' /\ Drained /\ connLost' /\ hard' = hard
       /\ promised' = written /\ written' = written
    \/ /\ ~closing /\ closing' /\ UNCHANGED <<connLost, hard>>
       /\ promised' = written /\ written' = written

LEMMA ForceCloseEnds == ForceClose => EndStep
BY DEF ForceClose, EndStep

LEMMA CloseEnds == CloseTransport /\ written' = written => EndStep
BY DEF CloseTransport, CloseNow, EndStep

LEMMA Ends == Next => EndStep
<1> SUFFICES ASSUME Next PROVE EndStep
  OBVIOUS
<1>1. CASE UNCHANGED <<closing, connLost, hard, promised>>
  BY <1>1 DEF EndStep
<1>2. CASE Write
  <2>1. ASSUME NEW n \in Bytes, WriteFails(n) PROVE EndStep
    BY <2>1, ForceCloseEnds DEF WriteFails
  <2> QED
    BY <1>1, <1>2, <2>1 DEF Write, WriteAll, WritePart, WriteLater
<1>3. CASE Close
  BY <1>3, CloseEnds DEF Close
<1>4. CASE Abort
  BY <1>4, ForceCloseEnds DEF Abort
<1>5. CASE \/ WriteEof \/ ResumeReading \/ PauseReading
           \/ (\E l \in Limits : SetLimits(l))
  BY <1>1, <1>5 DEF WriteEof, ResumeReading, PauseReading, SetLimits
<1>6. CASE ExecWrites
  <2>1. CASE ExecFails
    BY <2>1, ForceCloseEnds DEF ExecFails
  <2> QED
    BY <1>1, <1>6, <2>1 DEF ExecWrites, ExecNothing, ExecAll, ExecPart
<1>7. CASE WriteCallback
  <2>1. CASE WriteError
    BY <2>1, ForceCloseEnds DEF WriteError
  <2> QED
    BY <1>1, <1>7, <2>1 DEF WriteCallback, WriteIgnored, WriteDone
<1>8. CASE ShutdownCallback \/ ReadError
  BY <1>1, <1>8, ForceCloseEnds DEF ShutdownCallback, ReadError
<1>9. CASE KernelProgress \/ KernelFail \/ ReadEof
  BY <1>1, <1>9 DEF KernelProgress, KernelAccept, KernelFail, ReadEof
<1>10. CASE Returns
  <2>1. CASE FlowRaise
    BY <1>1, <2>1, ForceCloseEnds DEF FlowRaise
  <2>2. CASE EofCloses
    BY <2>2, ForceCloseEnds, CloseEnds DEF EofCloses
  <2> QED
    BY <1>1, <1>10, <2>1, <2>2 DEF Returns, PauseReturn, ResumeReturn,
       EofKeepsOpen, MadeReturns, MadeRaises, LostReturns
<1>11. CASE Scheduled \/ ConnectReturns \/ ConnectCancelled
  BY <1>1, <1>11 DEF Scheduled, RunIgnored, RunMade, RunLost, LostUnheard,
     ConnectReturns, ConnectCancelled
<1> QED
  BY <1>2, <1>3, <1>4, <1>5, <1>6, <1>7, <1>8, <1>9, <1>10, <1>11
     DEF Next, User

\* The steps that drop bytes.
Drop == (\E n \in Bytes : WriteFails(n)) \/ ExecFails \/ WriteError

\* Bytes are dropped only when the connection is given up.
LEMMA DropIsHard ==
  ASSUME TypeOK, PlaceInv, CountInv, Drop
  PROVE  hard'
<1>0. Lengths /\ (buf # <<>> => Len(buf) > 0)
  BY LengthsNat, EmptySeq DEF TypeOK
<1>1. ASSUME NEW n \in Bytes, WriteFails(n) PROVE hard'
  BY <1>1 DEF WriteFails, Accepts, ForceClose
<1>2. CASE ExecFails
  BY <1>0, <1>2 DEF ExecFails, ExecSomething, ForceClose, CountInv, Size,
     Lengths
<1>3. CASE WriteError
  <2>1. /\ reqs # <<>> /\ ~(Head(reqs) <= Len(kernel))
        /\ ~closed /\ ForceClose
    BY <1>3 DEF WriteError, Callback, Sent, HandleClosed
  <2>2. /\ reqs \in Seq(Bytes) /\ 1 \in 1..Len(reqs) /\ Head(reqs) = reqs[1]
        /\ Head(reqs) \in Nat
    <3>1. reqs \in Seq(Bytes)
      BY DEF TypeOK
    <3>2. Len(reqs) \in Nat \ {0} /\ Head(reqs) = reqs[1]
      BY <2>1, <3>1
    <3>3. Head(reqs) \in Bytes
      BY ONLY <2>1, <3>1, HeadTailProperties
    <3> QED
      BY <3>1, <3>2, <3>3 DEF Bytes
  <2>3. CASE connLost
    <3> SUFFICES ASSUME ~hard PROVE FALSE
      BY <2>1, <2>3 DEF ForceClose
    <3>1. reqs[1] <= written
      BY <2>2 DEF CountInv
    <3>2. Len(kernel) = written
      BY <1>0, <2>3 DEF CountInv, PlaceInv, Size, Lengths
    <3> QED
      BY <1>0, <2>1, <2>2, <3>1, <3>2 DEF Lengths
  <2>4. CASE ~connLost
    BY <2>1, <2>4 DEF ForceClose
  <2> QED
    BY <2>3, <2>4
<1> QED
  BY <1>1, <1>2, <1>3 DEF Drop

-----------------------------------------------------------------------------
(* Where the bytes are.                                                    *)

DataOK ==
    /\ written \in 0..MaxBytes
    /\ buf \in Seq(Bytes) /\ uv \in Seq(Bytes) /\ kernel \in Seq(Bytes)
    /\ reqs \in Seq(Bytes)
    /\ Len(kernel) + Len(uv) + Len(buf) <= written

\* The steps that move no byte and complete no request.
DataStands == UNCHANGED <<written, buf, uv, reqs, kernel, broken>>

LEMMA DataStep ==
  ASSUME TypeOK, PlaceInv, CountInv, Next
  PROVE  DataOK' /\ PlaceInv'
<1> DEFINE Goal == DataOK' /\ PlaceInv'
<1>0. /\ DataOK /\ Len(kernel) \in Nat /\ Len(uv) \in Nat /\ Len(buf) \in Nat
      /\ <<>> \in Seq(Bytes) /\ Len(<<>>) = 0 /\ MaxBytes \in Nat
      /\ uv = <<>> => Len(uv) = 0
      /\ hard => hard'
  BY StreamAssumption, EmptySeq, Ends DEF TypeOK, DataOK, EndStep
<1>1. ASSUME NEW n \in Bytes, WriteAll(n) PROVE Goal
  <2>1. PICK d : d = WithData(n)
    OBVIOUS
  <2>2. /\ written + n <= MaxBytes /\ written' = written + n /\ uv = <<>>
        /\ buf' = <<>> /\ UNCHANGED <<uv, reqs, broken>>
    BY <1>1 DEF WriteAll, Accepts, FastPath
  <2>3. /\ d \in Seq(Bytes) /\ Len(d) = Len(buf) + n
        /\ \A first \in Nat : Follows(buf, first) /\ first + Len(buf) = written
                                => Follows(d, first)
    BY ONLY TypeOK, <1>1, <2>1, <2>2, FollowsData
  <2>4. kernel \in Seq(Bytes) /\ d \in Seq(Bytes) /\ kernel' = kernel \o d
    BY <1>0, <1>1, <2>1, <2>3 DEF WriteAll, DataOK
  <2>5. /\ kernel' \in Seq(Bytes) /\ Len(kernel') = Len(kernel) + Len(d)
        /\ \A first \in Nat :
               Follows(kernel, first) /\ Follows(d, first + Len(kernel)) =>
                   Follows(kernel', first)
    BY ONLY <2>4, FollowsConcat
  <2>6. DataOK'
    BY <1>0, <2>2, <2>3, <2>5 DEF DataOK, Bytes
  <2>7. PlaceInv'
    <3> SUFFICES ASSUME ~broken \/ ~hard PROVE PlaceInv'
      BY <1>0, <2>2 DEF PlaceInv
    <3>1. Follows(d, Len(kernel)) /\ Follows(kernel, 0)
      BY <1>0, <2>2, <2>3 DEF PlaceInv
    <3>2. Follows(uv', Len(kernel')) /\ Follows(buf', Len(kernel'))
      BY <1>0, <2>2 DEF Follows
    <3> QED
      BY <1>0, <2>2, <2>3, <2>5, <3>1, <3>2 DEF PlaceInv, Bytes
  <2> QED
    BY <2>6, <2>7
<1>2. ASSUME NEW n \in Bytes, NEW k \in 0..MaxBytes, WritePart(n, k)
      PROVE  Goal
  <2>1. PICK d : d = WithData(n)
    OBVIOUS
  <2>2. /\ written + n <= MaxBytes /\ written' = written + n
        /\ k <= Len(d) /\ buf' = <<>> /\ uv = <<>> /\ UNCHANGED broken
    BY <1>2, <2>1 DEF WritePart, Accepts, FastPath
  <2>3. /\ d \in Seq(Bytes) /\ Len(d) = Len(buf) + n
        /\ \A first \in Nat : Follows(buf, first) /\ first + Len(buf) = written
                                => Follows(d, first)
    BY ONLY TypeOK, <1>2, <2>1, <2>2, FollowsData
  <2>4. Split(d, k)
    BY <1>2, <2>1 DEF WritePart, Split
  <2>5. /\ kernel' \in Seq(Bytes) /\ Len(kernel') = Len(kernel) + k
        /\ uv' \in Seq(Bytes) /\ Len(uv') = Len(uv) + (Len(d) - k)
        /\ /\ Follows(kernel, 0) /\ Follows(uv, Len(kernel))
           /\ Follows(d, Len(kernel) + Len(uv))
           /\ uv # <<>> => k = 0
           => Follows(kernel', 0) /\ Follows(uv', Len(kernel'))
    <3>1. /\ kernel \in Seq(Bytes) /\ uv \in Seq(Bytes) /\ d \in Seq(Bytes)
          /\ k \in Nat /\ k <= Len(d)
      BY <1>0, <2>2, <2>3 DEF DataOK
    <3> QED
      BY ONLY <2>4, <3>1, SplitStep
  <2>6. DataOK'
    <3>1. written + n \in Bytes /\ reqs' = Append(reqs, written + n)
      BY <1>0, <1>2, <2>2 DEF WritePart, DataOK, Bytes
    <3>2. reqs' \in Seq(Bytes)
      BY <1>0, <3>1, AppendProperties DEF DataOK
    <3> QED
      BY <1>0, <2>2, <2>3, <2>5, <3>2 DEF DataOK, Bytes
  <2>7. PlaceInv'
    <3> SUFFICES ASSUME ~broken \/ ~hard PROVE PlaceInv'
      BY <1>0, <2>2 DEF PlaceInv
    <3>1. /\ Follows(d, Len(kernel)) /\ Follows(kernel, 0)
          /\ Follows(uv, Len(kernel))
      BY <1>0, <2>2, <2>3 DEF PlaceInv
    <3>2. Follows(buf', Len(kernel') + Len(uv'))
      BY <1>0, <2>2 DEF Follows
    <3> QED
      BY <1>0, <2>2, <2>3, <2>5, <3>1, <3>2 DEF PlaceInv, Bytes
  <2> QED
    BY <2>6, <2>7
<1>3. ASSUME NEW n \in Bytes, WriteFails(n) PROVE Goal
  <2>1. broken' /\ hard'
    BY <1>3, DropIsHard DEF WriteFails, Drop
  <2>2. DataOK'
    BY <1>0, <1>3 DEF WriteFails, Accepts, DataOK, Bytes
  <2> QED
    BY <2>1, <2>2 DEF PlaceInv
<1>4. ASSUME NEW n \in Bytes, WriteLater(n) PROVE Goal
  <2>1. /\ written + n <= MaxBytes /\ written' = written + n
        /\ buf' = WithData(n) /\ UNCHANGED <<uv, reqs, kernel, broken>>
    BY <1>4 DEF WriteLater, Accepts
  <2>2. /\ buf' \in Seq(Bytes) /\ Len(buf') = Len(buf) + n
        /\ \A first \in Nat : Follows(buf, first) /\ first + Len(buf) = written
                                => Follows(buf', first)
    BY ONLY TypeOK, <1>4, <2>1, FollowsData
  <2>3. UNCHANGED <<uv, reqs, kernel, broken>> /\ written' = written + n
    BY <2>1
  <2>4. written + n <= MaxBytes
    BY <2>1
  <2>5. DataOK'
    BY ONLY <1>0, <2>2, <2>3, <2>4 DEF DataOK, Bytes
  <2>6. n \in Nat /\ Len(kernel) + Len(uv) \in Nat /\ PlaceInv
    BY <1>0 DEF Bytes
  <2>7. ASSUME ~broken \/ ~hard PROVE Follows(buf', Len(kernel) + Len(uv))
    BY <2>2, <2>6, <2>7 DEF PlaceInv
  <2>8. Len(buf') = Len(buf) + n
    BY <2>2
  <2>9. PlaceInv'
    <3>1. ~broken' \/ ~hard' => ~broken \/ ~hard
      BY <1>0, <2>3
    <3> SUFFICES ASSUME ~broken \/ ~hard PROVE PlaceInv'
      BY <3>1 DEF PlaceInv
    <3> QED
      BY <1>0, <2>3, <2>6, <2>7, <2>8 DEF PlaceInv
  <2> QED
    BY <2>5, <2>9
<1>5. CASE ExecAll
  <2>1. /\ uv = <<>> /\ buf' = <<>> /\ UNCHANGED <<written, uv, reqs, broken>>
    BY <1>5 DEF ExecAll
  <2>2. kernel \in Seq(Bytes) /\ buf \in Seq(Bytes) /\ kernel' = kernel \o buf
    BY <1>0, <1>5 DEF ExecAll, DataOK
  <2>3. /\ kernel' \in Seq(Bytes) /\ Len(kernel') = Len(kernel) + Len(buf)
        /\ \A first \in Nat :
               Follows(kernel, first) /\ Follows(buf, first + Len(kernel)) =>
                   Follows(kernel', first)
    BY ONLY <2>2, FollowsConcat
  <2>4. Follows(uv', Len(kernel')) /\ Follows(buf', Len(kernel') + Len(uv'))
    BY <1>0, <2>1 DEF Follows
  <2> QED
    BY <1>0, <2>1, <2>3, <2>4 DEF DataOK, PlaceInv
<1>6. ASSUME NEW k \in 0..MaxBytes, ExecPart(k) PROVE Goal
  <2>1. /\ k <= Len(buf) /\ (uv # <<>> => k = 0) /\ buf # <<>>
        /\ buf' = <<>> /\ UNCHANGED <<written, broken>>
    BY <1>6 DEF ExecPart, ExecSomething
  <2>2. Split(buf, k)
    BY <1>6 DEF ExecPart, Split
  <2>3. /\ kernel' \in Seq(Bytes) /\ Len(kernel') = Len(kernel) + k
        /\ uv' \in Seq(Bytes) /\ Len(uv') = Len(uv) + (Len(buf) - k)
        /\ /\ Follows(kernel, 0) /\ Follows(uv, Len(kernel))
           /\ Follows(buf, Len(kernel) + Len(uv))
           /\ uv # <<>> => k = 0
           => Follows(kernel', 0) /\ Follows(uv', Len(kernel'))
    <3>1. /\ kernel \in Seq(Bytes) /\ uv \in Seq(Bytes) /\ buf \in Seq(Bytes)
          /\ k \in Nat /\ k <= Len(buf)
      BY <1>0, <2>1 DEF DataOK
    <3> QED
      BY ONLY <2>2, <3>1, SplitStep
  <2>4. DataOK'
    <3>1. /\ buf[Len(buf)] \in Bytes
          /\ reqs' = Append(reqs, buf[Len(buf)])
      BY <1>0, <1>6, <2>1, EmptySeq DEF ExecPart, DataOK
    <3>2. reqs' \in Seq(Bytes)
      BY <1>0, <3>1, AppendProperties DEF DataOK
    <3> QED
      BY <1>0, <2>1, <2>3, <3>2 DEF DataOK
  <2>5. PlaceInv'
    <3>1. Follows(buf', Len(kernel') + Len(uv'))
      BY <1>0, <2>1 DEF Follows
    <3> QED
      BY <1>0, <2>1, <2>3, <3>1 DEF PlaceInv
  <2> QED
    BY <2>4, <2>5
<1>7. CASE ExecFails
  <2>1. broken' /\ hard'
    BY <1>7, DropIsHard DEF ExecFails, Drop
  <2>2. DataOK'
    BY <1>0, <1>7 DEF ExecFails, DataOK
  <2> QED
    BY <2>1, <2>2 DEF PlaceInv
<1>8. ASSUME NEW k \in Bytes, KernelAccept(k) PROVE Goal
  <2>1. k \in Nat /\ k <= Len(uv) /\ UNCHANGED <<written, buf, reqs, broken>>
    BY <1>8 DEF KernelAccept, Bytes
  <2>2. /\ kernel \in Seq(Bytes) /\ uv \in Seq(Bytes)
        /\ kernel' = kernel \o SubSeq(uv, 1, k)
        /\ uv' = SubSeq(uv, k + 1, Len(uv))
    BY <1>0, <1>8 DEF KernelAccept, DataOK
  <2>3. PICK t : t = SubSeq(uv, 1, k)
    OBVIOUS
  <2>4. /\ t \in Seq(Bytes) /\ Len(t) = k
        /\ uv' \in Seq(Bytes) /\ Len(uv') = Len(uv) - k
        /\ \A first \in Nat : Follows(uv, first) =>
               Follows(t, first) /\ Follows(uv', first + k)
    BY ONLY <2>1, <2>2, <2>3, FollowsSplit
  <2>5. kernel \in Seq(Bytes) /\ t \in Seq(Bytes) /\ kernel' = kernel \o t
    BY ONLY <2>2, <2>3, <2>4
  <2>6. /\ kernel' \in Seq(Bytes) /\ Len(kernel') = Len(kernel) + Len(t)
        /\ \A first \in Nat :
               Follows(kernel, first) /\ Follows(t, first + Len(kernel)) =>
                   Follows(kernel', first)
    BY ONLY <2>5, FollowsConcat
  <2>7. DataOK'
    BY <1>0, <2>1, <2>4, <2>6 DEF DataOK
  <2>8. ASSUME ~broken \/ ~hard
        PROVE  /\ Follows(kernel', 0)
               /\ Follows(uv', Len(kernel'))
    BY <1>0, <2>4, <2>6, <2>8 DEF PlaceInv
  <2>9. Len(kernel') + Len(uv') = Len(kernel) + Len(uv)
    BY <1>0, <2>1, <2>4, <2>6
  <2>10. PlaceInv'
    BY <1>0, <2>1, <2>8, <2>9 DEF PlaceInv
  <2> QED
    BY <2>7, <2>10
<1>9. CASE KernelFail
  BY <1>9 DEF KernelFail, TypeOK, DataOK, PlaceInv
<1>10. CASE WriteIgnored \/ WriteDone
  <2>1. reqs' \in Seq(Bytes) /\ UNCHANGED <<written, buf, uv, kernel, broken>>
    BY <1>0, <1>10, HeadTailProperties
       DEF WriteIgnored, WriteDone, Callback, DataOK
  <2> QED
    BY <1>0, <2>1 DEF DataOK, PlaceInv
<1>11. CASE WriteError
  <2>1. reqs' \in Seq(Bytes) /\ broken /\ UNCHANGED <<written, buf, kernel,
                                                      broken>>
    BY <1>0, <1>11, HeadTailProperties DEF WriteError, Callback, DataOK
  <2>2. uv' \in Seq(Bytes) /\ Len(uv') <= Len(uv) /\ Len(uv') \in Nat
    BY <1>0, <1>11 DEF WriteError, DropFirst, DataOK
  <2>3. broken' /\ hard'
    BY <1>11, <2>1, DropIsHard DEF Drop
  <2> QED
    BY <1>0, <2>1, <2>2, <2>3 DEF DataOK, PlaceInv
<1>12. CASE DataStands
  BY <1>0, <1>12 DEF DataStands, DataOK, PlaceInv
<1>13. CASE \/ WriteEof \/ Close \/ Abort \/ ResumeReading \/ PauseReading
            \/ (\E l \in Limits : SetLimits(l))
            \/ ExecNothing \/ ShutdownCallback \/ ReadError \/ ReadEof
  BY <1>12, <1>13 DEF WriteEof, Close, Abort, ResumeReading, PauseReading,
     SetLimits, ExecNothing, ShutdownCallback, ReadError, ReadEof, DataStands
<1>14. CASE Returns \/ Scheduled \/ ConnectReturns \/ ConnectCancelled
  BY <1>12, <1>14 DEF Returns, PauseReturn, ResumeReturn, FlowRaise,
     EofKeepsOpen, EofCloses, MadeReturns, MadeRaises, LostReturns, Scheduled,
     RunIgnored, RunMade, RunLost, LostUnheard, ConnectReturns,
     ConnectCancelled, DataStands
<1> QED
  BY <1>1, <1>2, <1>3, <1>4, <1>5, <1>6, <1>7, <1>8, <1>9, <1>10, <1>11,
     <1>13, <1>14
     DEF Next, User, Write, ExecWrites, WriteCallback, KernelProgress

-----------------------------------------------------------------------------
(* How many bytes there are where.                                         *)

All == Len(kernel) + Len(uv) + Len(buf)

\* A byte that is not dropped stays somewhere, the kernel keeps what it has,
\* and only write() makes what is buffered grow.
LengthStep ==
    /\ All' + written = All + written' \/ Drop
    /\ Len(kernel') >= Len(kernel)
    /\ written' >= written
    /\ written' > written => ~connLost /\ ~closed /\ ~eof
    /\ written' = written => Size' <= Size

LEMMA Counts ==
  ASSUME TypeOK, Next
  PROVE  LengthStep
<1>0. /\ Lengths /\ MaxBytes \in Nat /\ Len(<<>>) = 0
      /\ kernel \in Seq(Bytes) /\ uv \in Seq(Bytes) /\ buf \in Seq(Bytes)
      /\ uv = <<>> => Len(uv) = 0
  BY StreamAssumption, LengthsNat DEF TypeOK
<1> USE DEF LengthStep, All, Size, Lengths
<1>1. ASSUME NEW n \in Bytes, WriteAll(n) PROVE LengthStep
  <2>1. PICK d : d = WithData(n)
    OBVIOUS
  <2>2. /\ written + n <= MaxBytes /\ written' = written + n /\ uv = <<>>
        /\ buf' = <<>> /\ uv' = uv /\ n \in Nat /\ n > 0
        /\ ~connLost /\ ~closed /\ ~eof
    BY <1>1 DEF WriteAll, Accepts, FastPath, Bytes
  <2>3. d \in Seq(Bytes) /\ Len(d) = Len(buf) + n
    BY ONLY TypeOK, <1>1, <2>1, <2>2, FollowsData
  <2>4. kernel \in Seq(Bytes) /\ d \in Seq(Bytes) /\ kernel' = kernel \o d
    BY <1>0, <1>1, <2>1, <2>3 DEF WriteAll
  <2>5. Len(kernel') = Len(kernel) + Len(d)
    BY ONLY <2>4, FollowsConcat
  <2> QED
    BY <1>0, <2>2, <2>3, <2>5
<1>2. ASSUME NEW n \in Bytes, NEW k \in 0..MaxBytes, WritePart(n, k)
      PROVE  LengthStep
  <2>1. PICK d : d = WithData(n)
    OBVIOUS
  <2>2. /\ written + n <= MaxBytes /\ written' = written + n
        /\ k <= Len(d) /\ k \in Nat /\ buf' = <<>> /\ n \in Nat /\ n > 0
        /\ ~connLost /\ ~closed /\ ~eof
    BY <1>2, <2>1 DEF WritePart, Accepts, Bytes
  <2>3. d \in Seq(Bytes) /\ Len(d) = Len(buf) + n
    BY ONLY TypeOK, <1>2, <2>1, <2>2, FollowsData
  <2>4. Split(d, k)
    BY <1>2, <2>1 DEF WritePart, Split
  <2>5. Len(kernel') = Len(kernel) + k /\ Len(uv') = Len(uv) + (Len(d) - k)
    BY ONLY <1>0, <2>2, <2>3, <2>4, SplitStep
  <2> QED
    BY <1>0, <2>2, <2>3, <2>5
<1>3. ASSUME NEW n \in Bytes, WriteFails(n) PROVE LengthStep
  BY <1>0, <1>3 DEF WriteFails, Accepts, Drop, Bytes
<1>4. ASSUME NEW n \in Bytes, WriteLater(n) PROVE LengthStep
  <2>1. /\ written + n <= MaxBytes /\ written' = written + n
        /\ buf' = WithData(n) /\ UNCHANGED <<uv, kernel>>
        /\ n \in Nat /\ n > 0 /\ ~connLost /\ ~closed /\ ~eof
    BY <1>4 DEF WriteLater, Accepts, Bytes
  <2>2. Len(buf') = Len(buf) + n
    BY ONLY TypeOK, <1>4, <2>1, FollowsData
  <2> QED
    BY <1>0, <2>1, <2>2
<1>5. CASE ExecAll
  <2>1. kernel \in Seq(Bytes) /\ buf \in Seq(Bytes) /\ kernel' = kernel \o buf
    BY <1>0, <1>5 DEF ExecAll
  <2>2. Len(kernel') = Len(kernel) + Len(buf)
    BY ONLY <2>1, FollowsConcat
  <2> QED
    BY <1>0, <1>5, <2>2 DEF ExecAll
<1>6. ASSUME NEW k \in 0..MaxBytes, ExecPart(k) PROVE LengthStep
  <2>1. k <= Len(buf) /\ k \in Nat /\ buf' = <<>> /\ written' = written
    BY <1>6 DEF ExecPart
  <2>2. Split(buf, k)
    BY <1>6 DEF ExecPart, Split
  <2>3. Len(kernel') = Len(kernel) + k /\ Len(uv') = Len(uv) + (Len(buf) - k)
    BY ONLY <1>0, <2>1, <2>2, SplitStep
  <2> QED
    BY <1>0, <2>1, <2>3
<1>7. CASE ExecFails
  BY <1>0, <1>7 DEF ExecFails, Drop
<1>8. ASSUME NEW k \in Bytes, KernelAccept(k) PROVE LengthStep
  <2>1. k \in Nat /\ k <= Len(uv) /\ UNCHANGED <<written, buf>>
    BY <1>8 DEF KernelAccept, Bytes
  <2>2. PICK t : t = SubSeq(uv, 1, k)
    OBVIOUS
  <2>3. kernel' = kernel \o t /\ uv' = SubSeq(uv, k + 1, Len(uv))
    BY <1>8, <2>2 DEF KernelAccept
  <2>4. t \in Seq(Bytes) /\ Len(t) = k /\ Len(uv') = Len(uv) - k
    BY ONLY <1>0, <2>1, <2>2, <2>3, FollowsSplit
  <2>5. kernel \in Seq(Bytes) /\ t \in Seq(Bytes) /\ kernel' = kernel \o t
    BY <1>0, <2>3, <2>4
  <2>6. Len(kernel') = Len(kernel) + Len(t)
    BY ONLY <2>5, FollowsConcat
  <2> QED
    BY <1>0, <2>1, <2>4, <2>6
<1>9. CASE WriteError
  <2>1. Len(uv') <= Len(uv) /\ Len(uv') \in Nat
    BY <1>0, <1>9 DEF WriteError, DropFirst
  <2> QED
    BY <1>0, <1>9, <2>1 DEF WriteError, Drop
<1>10. CASE UNCHANGED <<written, buf, uv, kernel>>
  BY <1>0, <1>10
<1>11. CASE KernelFail \/ WriteIgnored \/ WriteDone
  BY <1>10, <1>11 DEF KernelFail, WriteIgnored, WriteDone
<1>12. CASE \/ WriteEof \/ Close \/ Abort \/ ResumeReading \/ PauseReading
            \/ (\E l \in Limits : SetLimits(l))
            \/ ExecNothing \/ ShutdownCallback \/ ReadError \/ ReadEof
  BY <1>10, <1>12 DEF WriteEof, Close, Abort, ResumeReading, PauseReading,
     SetLimits, ExecNothing, ShutdownCallback, ReadError, ReadEof
<1>13. CASE Returns \/ Scheduled \/ ConnectReturns \/ ConnectCancelled
  BY <1>10, <1>13 DEF Returns, PauseReturn, ResumeReturn, FlowRaise,
     EofKeepsOpen, EofCloses, MadeReturns, MadeRaises, LostReturns, Scheduled,
     RunIgnored, RunMade, RunLost, LostUnheard, ConnectReturns,
     ConnectCancelled
<1> QED
  BY <1>1, <1>2, <1>3, <1>4, <1>5, <1>6, <1>7, <1>8, <1>9, <1>11, <1>12,
     <1>13
     DEF Next, User, Write, ExecWrites, WriteCallback, KernelProgress


-----------------------------------------------------------------------------
(* Type correctness.                                                       *)

FlagsOK ==
    /\ queued \in BOOLEAN /\ broken \in BOOLEAN /\ paused \in BOOLEAN
    /\ limits \in Limits
    /\ reading \in BOOLEAN /\ connected \in BOOLEAN /\ made \in BOOLEAN
    /\ closing \in BOOLEAN /\ connLost \in BOOLEAN /\ closed \in BOOLEAN
    /\ eof \in BOOLEAN /\ shut \in {"no", "requested", "done"}
    /\ awaited \in BOOLEAN /\ hard \in BOOLEAN
    /\ lostCalls \in Nat

\* The flags the handlers' helpers set.
LEMMA ForceCloseType ==
  ASSUME FlagsOK, ForceClose
  PROVE  /\ closing' \in BOOLEAN /\ connLost' \in BOOLEAN
         /\ closed' \in BOOLEAN /\ reading' \in BOOLEAN /\ hard' \in BOOLEAN
<1>1. CASE closing' = TRUE /\ connLost' = TRUE /\ reading' = FALSE
           /\ hard' = TRUE /\ closed' = closed
  BY <1>1 DEF FlagsOK
<1>2. CASE UNCHANGED <<closing, connLost, closed, reading, hard>>
  BY <1>2 DEF FlagsOK
<1> QED
  BY <1>1, <1>2 DEF ForceClose

LEMMA CloseType ==
  ASSUME FlagsOK, CloseTransport
  PROVE  /\ closing' \in BOOLEAN /\ connLost' \in BOOLEAN
         /\ closed' \in BOOLEAN /\ reading' \in BOOLEAN /\ hard' \in BOOLEAN
<1>1. CASE closing' = TRUE /\ connLost' = TRUE /\ reading' = FALSE
           /\ hard' = hard /\ closed' = closed
  BY <1>1 DEF FlagsOK
<1>2. CASE closing' = TRUE /\ connLost' = connLost /\ reading' = FALSE
           /\ hard' = hard /\ closed' = closed
  BY <1>2 DEF FlagsOK
<1>3. CASE UNCHANGED <<closing, connLost, closed, reading, hard>>
  BY <1>3 DEF FlagsOK
<1> QED
  BY <1>1, <1>2, <1>3 DEF CloseTransport, CloseNow

LEMMA PauseType ==
  ASSUME FlagsOK, NEW size, NEW high, NEW frame,
         MaybePause(size, high, frame)
  PROVE  paused' \in BOOLEAN
<1>1. CASE paused' = TRUE
  BY <1>1
<1>2. CASE paused' = paused
  BY <1>2 DEF FlagsOK
<1> QED
  BY <1>1, <1>2 DEF MaybePause

LEMMA QueueType ==
  ASSUME FlagsOK, NEW size, PauseAndQueue(size)
  PROVE  queued' \in BOOLEAN /\ paused' \in BOOLEAN
<1>1. CASE queued' = TRUE
  BY <1>1, PauseType DEF PauseAndQueue
<1>2. CASE queued' = queued
  BY <1>2, PauseType DEF PauseAndQueue, FlagsOK
<1> QED
  BY <1>1, <1>2 DEF PauseAndQueue

LEMMA ResumeType ==
  ASSUME FlagsOK, NEW size, NEW frame, MaybeResume(size, frame)
  PROVE  paused' \in BOOLEAN
<1>1. CASE paused' = FALSE
  BY <1>1
<1>2. CASE paused' = paused
  BY <1>2 DEF FlagsOK
<1> QED
  BY <1>1, <1>2 DEF MaybeResume, Resume

LEMMA TailType ==
  ASSUME FlagsOK, NEW size, WriteTail(size)
  PROVE  shut' \in {"no", "requested", "done"}
<1>1. CASE shut' = "requested"
  BY <1>1
<1>2. CASE shut' = shut
  BY <1>2 DEF FlagsOK
<1> QED
  BY <1>1, <1>2 DEF WriteTail, Shutdown

LEMMA OnWriteType ==
  ASSUME FlagsOK, NEW size, NEW frame, OnWrite(size, frame)
  PROVE  paused' \in BOOLEAN /\ shut' \in {"no", "requested", "done"}
<1>1. CASE paused' = FALSE /\ shut' = shut
  BY <1>1 DEF FlagsOK
<1>2. CASE paused' = paused /\ WriteTail(size)
  BY <1>2, TailType DEF FlagsOK
<1> QED
  BY <1>1, <1>2 DEF OnWrite, Resume

LEMMA FlagsStep ==
  ASSUME FlagsOK, Next
  PROVE  FlagsOK'
<1> USE DEF FlagsOK
<1>1. ASSUME NEW n \in Bytes, WriteAll(n) PROVE FlagsOK'
  BY <1>1, OnWriteType DEF WriteAll
<1>2. ASSUME NEW n \in Bytes, NEW k \in 0..MaxBytes, WritePart(n, k)
      PROVE  FlagsOK'
  BY <1>2, PauseType DEF WritePart
<1>3. ASSUME NEW n \in Bytes, WriteFails(n) PROVE FlagsOK'
  BY <1>3, ForceCloseType DEF WriteFails
<1>4. ASSUME NEW n \in Bytes, WriteLater(n) PROVE FlagsOK'
  BY <1>4, QueueType DEF WriteLater
<1>5. CASE Close
  BY <1>5, CloseType DEF Close
<1>6. CASE Abort
  BY <1>6, ForceCloseType DEF Abort
<1>7. CASE ReadError
  BY <1>7, ForceCloseType DEF ReadError
<1>8. CASE EofCloses
  BY <1>8, CloseType, ForceCloseType DEF EofCloses
<1>9. CASE WriteEof
  BY <1>9 DEF WriteEof, Shutdown
<1>10. CASE ResumeReading
  BY <1>10 DEF ResumeReading
<1>11. CASE PauseReading
  <2>1. reading' \in BOOLEAN
    BY <1>11 DEF PauseReading
  <2> QED
    BY <1>11, <2>1 DEF PauseReading
<1>12. ASSUME NEW l \in Limits, SetLimits(l) PROVE FlagsOK'
  BY <1>12, PauseType DEF SetLimits
<1>13. CASE ExecNothing
  <2>1. queued' \in BOOLEAN
    BY <1>13 DEF ExecNothing, ExecQueued
  <2> QED
    BY <1>13, <2>1 DEF ExecNothing, ExecQueued
<1>14. CASE ExecAll
  BY <1>14, OnWriteType DEF ExecAll, ExecSomething, ExecQueued
<1>15. ASSUME NEW k \in 0..MaxBytes, ExecPart(k) PROVE FlagsOK'
  BY <1>15, ResumeType DEF ExecPart, ExecSomething, ExecQueued
<1>16. CASE ExecFails
  BY <1>16, ForceCloseType DEF ExecFails, ExecSomething, ExecQueued
<1>17. CASE WriteIgnored
  BY <1>17 DEF WriteIgnored
<1>18. CASE WriteDone
  BY <1>18, OnWriteType DEF WriteDone
<1>19. CASE WriteError
  BY <1>19, ForceCloseType DEF WriteError
<1>20. CASE ShutdownCallback
  BY <1>20, ForceCloseType DEF ShutdownCallback
<1>21. ASSUME NEW k \in Bytes, KernelAccept(k) PROVE FlagsOK'
  BY <1>21 DEF KernelAccept
<1>22. CASE KernelFail
  BY <1>22 DEF KernelFail
<1>23. CASE ReadEof
  <2>1. reading' \in BOOLEAN
    BY <1>23 DEF ReadEof
  <2> QED
    BY <1>23, <2>1 DEF ReadEof
<1>24. CASE PauseReturn
  <2>1. CASE queued' = TRUE
    BY <1>24, <2>1 DEF PauseReturn
  <2>2. CASE queued' = queued
    BY <1>24, <2>2 DEF PauseReturn
  <2> QED
    BY <1>24, <2>1, <2>2 DEF PauseReturn
<1>25. CASE ResumeReturn
  <2>1. shut' \in {"no", "requested", "done"}
    BY <1>25, TailType DEF ResumeReturn
  <2> QED
    BY <1>25, <2>1 DEF ResumeReturn
<1>26. CASE FlowRaise
  <2>1. CASE ForceClose
    BY <1>26, <2>1, ForceCloseType DEF FlowRaise
  <2>2. CASE UNCHANGED <<closeVars, reading, history>>
    BY <1>26, <2>2 DEF FlowRaise
  <2> QED
    BY <1>26, <2>1, <2>2 DEF FlowRaise
<1>27. CASE EofKeepsOpen
  <2>1. reading' \in BOOLEAN
    BY <1>27 DEF EofKeepsOpen
  <2> QED
    BY <1>27, <2>1 DEF EofKeepsOpen
<1>28. CASE MadeReturns
  <2>1. CASE reading' = TRUE
    BY <1>28, <2>1 DEF MadeReturns
  <2>2. CASE reading' = reading
    BY <1>28, <2>2 DEF MadeReturns
  <2> QED
    BY <1>28, <2>1, <2>2 DEF MadeReturns
<1>29. CASE MadeRaises
  BY <1>29 DEF MadeRaises
<1>30. CASE LostReturns
  <2>1. closed' \in BOOLEAN /\ reading' \in BOOLEAN
    BY <1>30 DEF LostReturns, CloseHandle
  <2> QED
    BY <1>30, <2>1 DEF LostReturns, CloseHandle
<1>31. CASE RunIgnored
  BY <1>31 DEF RunIgnored
<1>32. CASE RunMade
  BY <1>32 DEF RunMade, ConnectedBefore
<1>33. CASE RunLost
  BY <1>33 DEF RunLost
<1>34. CASE LostUnheard
  BY <1>34 DEF LostUnheard, CloseHandle
<1>35. CASE ConnectReturns
  <2>1. awaited' \in BOOLEAN
    BY <1>35 DEF ConnectReturns
  <2> QED
    BY <1>35, <2>1 DEF ConnectReturns
<1>36. CASE ConnectCancelled
  <2>1. awaited' \in BOOLEAN /\ closed' \in BOOLEAN /\ reading' \in BOOLEAN
    BY <1>36 DEF ConnectCancelled, CloseHandle
  <2> QED
    BY <1>36, <2>1 DEF ConnectCancelled, CloseHandle
<1> QED
  BY <1>1, <1>2, <1>3, <1>4, <1>5, <1>6, <1>7, <1>8, <1>9, <1>10, <1>11,
     <1>12, <1>13, <1>14, <1>15, <1>16, <1>17, <1>18, <1>19, <1>20, <1>21,
     <1>22, <1>23, <1>24, <1>25, <1>26, <1>27, <1>28, <1>29, <1>30, <1>31,
     <1>32, <1>33, <1>34, <1>35, <1>36
     DEF Next, User, Write, ExecWrites, WriteCallback, KernelProgress, Returns,
         Scheduled

\* What the handlers schedule: connection_lost, when the connection is given
\* up or when it closes with nothing left to send.
SchedStep ==
    \/ sched' = sched
    \/ /\ ScheduleLost
       /\ hard' \/ (closing' /\ Size' = 0)
    \/ LoopRuns /\ sched # <<>> /\ sched' = Tail(sched)

LEMMA SchedCases ==
  ASSUME Lengths, Next
  PROVE  SchedStep
<1>0. /\ Len(<<>>) = 0 /\ uv = <<>> => Len(uv) = 0
      /\ Len(kernel) \in Nat /\ Len(uv) \in Nat /\ Len(buf) \in Nat
  BY DEF Lengths
<1>1. ASSUME ForceClose PROVE SchedStep
  BY <1>1 DEF ForceClose, SchedStep
<1>2. ASSUME CloseTransport, UNCHANGED <<uv, buf>> PROVE SchedStep
  BY <1>2 DEF CloseTransport, CloseNow, Drained, Size, SchedStep
<1>3. CASE sched' = sched
  BY <1>3 DEF SchedStep
<1>4. ASSUME NEW n \in Bytes, WriteAll(n) PROVE SchedStep
  BY <1>0, <1>3, <1>4 DEF WriteAll, FastPath, OnWrite, WriteTail, Size,
     SchedStep
<1>5. CASE Write
  <2>1. ASSUME NEW n \in Bytes, WriteFails(n) PROVE SchedStep
    BY <1>1, <2>1 DEF WriteFails
  <2> QED
    BY <1>3, <1>4, <1>5, <2>1 DEF Write, WritePart, WriteLater
<1>6. CASE Close \/ Abort \/ ReadError \/ EofCloses
  BY <1>1, <1>2, <1>6 DEF Close, Abort, ReadError, EofCloses
<1>7. CASE \/ WriteEof \/ ResumeReading \/ PauseReading
           \/ (\E l \in Limits : SetLimits(l))
  BY <1>3, <1>7 DEF WriteEof, ResumeReading, PauseReading, SetLimits
<1>8. CASE ExecAll
  BY <1>0, <1>3, <1>8 DEF ExecAll, ExecSomething, OnWrite, WriteTail, Size,
     SchedStep
<1>9. CASE ExecWrites
  <2>1. CASE ExecFails
    BY <1>1, <2>1 DEF ExecFails
  <2> QED
    BY <1>3, <1>8, <1>9, <2>1 DEF ExecWrites, ExecNothing, ExecPart
<1>10. CASE WriteDone
  BY <1>0, <1>3, <1>10 DEF WriteDone, OnWrite, WriteTail, Size, SchedStep
<1>11. CASE WriteCallback
  BY <1>1, <1>3, <1>10, <1>11 DEF WriteCallback, WriteIgnored, WriteError
<1>12. CASE ShutdownCallback
  BY <1>1, <1>3, <1>12 DEF ShutdownCallback
<1>13. CASE KernelProgress \/ KernelFail \/ ReadEof
  BY <1>3, <1>13 DEF KernelProgress, KernelAccept, KernelFail, ReadEof
<1>14. CASE ResumeReturn
  BY <1>0, <1>3, <1>14 DEF ResumeReturn, WriteTail, Size, SchedStep
<1>15. CASE PauseReturn \/ FlowRaise
  BY <1>1, <1>3, <1>15 DEF PauseReturn, FlowRaise
<1>16. CASE EofKeepsOpen \/ MadeReturns \/ MadeRaises \/ LostReturns
  BY <1>3, <1>16 DEF EofKeepsOpen, MadeReturns, MadeRaises, LostReturns
<1>17. CASE Scheduled
  BY <1>17 DEF Scheduled, RunIgnored, RunMade, RunLost, LostUnheard,
     RunHandle, SchedStep
<1>18. CASE ConnectReturns \/ ConnectCancelled
  BY <1>3, <1>18 DEF ConnectReturns, ConnectCancelled
<1> QED
  BY <1>5, <1>6, <1>7, <1>9, <1>11, <1>12, <1>13, <1>14, <1>15, <1>16, <1>17,
     <1>18 DEF Next, User, Returns

LEMMA TypeStep ==
  ASSUME TypeOK, StackInv, PlaceInv, CountInv, Next
  PROVE  TypeOK'
<1>1. DataOK'
  BY DataStep
<1>2. stack' \in Seq(Frames) /\ Len(stack') <= 2
  BY Calls, StackStep DEF StackInv
<1>3. FlagsOK'
  BY FlagsStep DEF TypeOK, FlagsOK
<1>4. sched' \in Seq({"made", "lost"})
  <2>1. sched \in Seq({"made", "lost"}) /\ SchedStep
    BY LengthsNat, SchedCases DEF TypeOK
  <2> QED
    BY <2>1, SchedFacts, HeadTailProperties DEF SchedStep
<1>5. promised' \in 0..MaxBytes
  BY Ends DEF EndStep, TypeOK
<1> QED
  BY <1>1, <1>2, <1>3, <1>4, <1>5 DEF TypeOK, DataOK, FlagsOK

-----------------------------------------------------------------------------
(* The bytes of a graceful close.                                          *)

\* The requests end at bytes that were written.
LEMMA RequestStep ==
  ASSUME TypeOK, PlaceInv, CountInv, Next, ~hard'
  PROVE  \A i \in 1..Len(reqs') : reqs'[i] <= written'
<1>0. /\ reqs \in Seq(Bytes) /\ written \in Nat /\ written' \in Nat
      /\ written' >= written /\ MaxBytes \in Nat
  BY DataStep, Counts, StreamAssumption DEF TypeOK, DataOK, LengthStep
<1>1. ~hard
  BY Ends DEF EndStep
<1>2. \A i \in 1..Len(reqs) : reqs[i] \in Nat /\ reqs[i] <= written
  BY <1>0, <1>1 DEF CountInv, Bytes
<1>3. CASE reqs' = reqs
  BY <1>0, <1>2, <1>3
<1>4. ASSUME NEW b \in Bytes, reqs' = Append(reqs, b), b <= written'
      PROVE  \A i \in 1..Len(reqs') : reqs'[i] <= written'
  BY <1>0, <1>2, <1>4, AppendProperties DEF Bytes
<1>5. CASE reqs # <<>> /\ reqs' = Tail(reqs)
  <2>1. /\ Len(reqs) \in Nat /\ Len(reqs') = Len(reqs) - 1
        /\ \A i \in 1..Len(reqs') : reqs'[i] = reqs[i + 1]
    BY <1>0, <1>5, HeadTailProperties
  <2> QED
    BY <1>0, <1>2, <2>1
<1>6. ASSUME NEW n \in Bytes, NEW k \in 0..MaxBytes, WritePart(n, k)
      PROVE  \A i \in 1..Len(reqs') : reqs'[i] <= written'
  <2>1. /\ written + n \in Bytes /\ reqs' = Append(reqs, written + n)
        /\ written + n <= written'
    BY <1>0, <1>6 DEF WritePart, Accepts, Bytes
  <2> QED
    BY <1>4, <2>1
<1>7. ASSUME NEW k \in 0..MaxBytes, ExecPart(k)
      PROVE  \A i \in 1..Len(reqs') : reqs'[i] <= written'
  <2>1. /\ Len(buf) \in 1..Len(buf) /\ buf[Len(buf)] \in Bytes
        /\ Len(buf) \in Nat /\ Len(kernel) \in Nat /\ Len(uv) \in Nat
    <3>1. buf # <<>> /\ buf \in Seq(Bytes)
      BY <1>7 DEF ExecPart, ExecSomething, TypeOK
    <3>2. Len(buf) \in Nat \ {0}
      BY <3>1, EmptySeq
    <3> QED
      BY <3>1, <3>2, LengthsNat DEF Lengths
  <2>2. Follows(buf, Len(kernel) + Len(uv)) /\ All = written
    BY <1>1 DEF PlaceInv, All
  <2>3. buf[Len(buf)] = written
    BY <2>1, <2>2 DEF Follows, All
  <2>4. reqs' = Append(reqs, buf[Len(buf)])
    BY <1>7 DEF ExecPart
  <2> QED
    BY <1>0, <1>4, <2>1, <2>3, <2>4
<1>8. CASE WriteCallback
  BY <1>5, <1>8 DEF WriteCallback, WriteIgnored, WriteDone, WriteError,
     Callback
<1>9. CASE Write \/ ExecWrites
  BY <1>3, <1>6, <1>7, <1>9 DEF Write, WriteAll, WriteFails, WriteLater,
     ExecWrites, ExecNothing, ExecAll, ExecFails
<1>10. CASE \/ WriteEof \/ Close \/ Abort \/ ResumeReading \/ PauseReading
            \/ (\E l \in Limits : SetLimits(l))
            \/ ShutdownCallback \/ ReadError \/ ReadEof
            \/ KernelProgress \/ KernelFail
  BY <1>3, <1>10 DEF WriteEof, Close, Abort, ResumeReading, PauseReading,
     SetLimits, ShutdownCallback, ReadError, ReadEof, KernelProgress,
     KernelAccept, KernelFail
<1>11. CASE Returns \/ Scheduled \/ ConnectReturns \/ ConnectCancelled
  BY <1>3, <1>11 DEF Returns, PauseReturn, ResumeReturn, FlowRaise,
     EofKeepsOpen, EofCloses, MadeReturns, MadeRaises, LostReturns, Scheduled,
     RunIgnored, RunMade, RunLost, LostUnheard, ConnectReturns,
     ConnectCancelled
<1> QED
  BY <1>8, <1>9, <1>10, <1>11 DEF Next, User

LEMMA CountStep ==
  ASSUME TypeOK, TypeOK', PlaceInv, CountInv, Next
  PROVE  CountInv'
<1>0. /\ Lengths /\ Lengths' /\ promised \in Nat /\ promised' \in Nat
      /\ LengthStep /\ EndStep
  BY LengthsNat, LengthsNatNext, Counts, Ends DEF TypeOK
<1>1. promised' <= written'
  BY <1>0 DEF CountInv, EndStep, LengthStep, Lengths
<1>2. ~hard' => \A i \in 1..Len(reqs') : reqs'[i] <= written'
  BY RequestStep
<1>3. ASSUME ~hard', connLost' PROVE Size' = 0
  <2>1. CASE connLost
    <3>1. ~hard /\ Size = 0
      BY <1>0, <1>3, <2>1 DEF CountInv, EndStep
    <3>2. written' = written
      BY <1>0, <2>1 DEF LengthStep, Lengths
    <3> QED
      BY <1>0, <3>1, <3>2 DEF LengthStep, Lengths, Size
  <2>2. CASE ~connLost
    <3>1. Drained /\ written' = written
      BY <1>0, <1>3, <2>2 DEF EndStep
    <3> QED
      BY <1>0, <3>1 DEF Drained, LengthStep, Lengths, Size
  <2> QED
    BY <2>1, <2>2
<1> QED
  BY <1>1, <1>2, <1>3 DEF CountInv

LEMMA FlushStep ==
  ASSUME TypeOK, TypeOK', PlaceInv', CountInv', FlushInv, Next
  PROVE  FlushInv'
<1>0. /\ Lengths /\ Lengths' /\ promised \in Nat /\ promised' \in Nat
      /\ LengthStep /\ EndStep /\ SchedStep
  BY LengthsNat, LengthsNatNext, Counts, Ends, SchedCases DEF TypeOK
<1> SUFFICES ASSUME ~hard', lostCalls' > 0 \/ Holds(sched', "lost")
             PROVE  closing' /\ Len(kernel') >= promised'
  BY DEF FlushInv
<1>1. CASE closing' /\ Size' = 0
  BY <1>0, <1>1 DEF PlaceInv, CountInv, Size, Lengths
<1>2. ASSUME lostCalls > 0 \/ Holds(sched, "lost")
      PROVE  closing' /\ Len(kernel') >= promised'
  <2>1. ~hard /\ closing /\ Len(kernel) >= promised
    BY <1>0, <1>2 DEF FlushInv, EndStep
  <2>2. closing' /\ promised' = promised
    BY <1>0, <2>1 DEF EndStep
  <2> QED
    BY <1>0, <2>1, <2>2 DEF LengthStep, Lengths
<1>3. CASE lostCalls' = lostCalls
  <2>1. CASE sched # <<>> /\ sched' = Tail(sched)
    <3>1. Holds(sched', "lost") => Holds(sched, "lost")
      <4>1. /\ Len(sched) \in Nat /\ Len(sched') = Len(sched) - 1
            /\ \A i \in 1..Len(sched') : sched'[i] = sched[i + 1]
        BY <2>1, HeadTailProperties DEF TypeOK
      <4> QED
        BY <4>1 DEF Holds
    <3> QED
      BY <1>2, <1>3, <3>1
  <2> QED
    BY <1>0, <1>1, <1>2, <1>3, <2>1 DEF SchedStep
<1>4. CASE RunLost
  <2>1. sched # <<>> /\ Head(sched) = "lost"
    BY <1>4 DEF RunLost, RunHandle
  <2>2. Holds(sched, "lost")
    <3>1. Len(sched) \in Nat \ {0} /\ Head(sched) = sched[1]
      BY <2>1, EmptySeq DEF TypeOK
    <3> QED
      BY <2>1, <3>1 DEF Holds
  <2> QED
    BY <1>2, <2>2
<1>5. RunLost \/ lostCalls' = lostCalls
  <2>1. CASE Write \/ ExecWrites \/ WriteCallback
    BY <2>1 DEF Write, WriteAll, WritePart, WriteFails, WriteLater,
       ExecWrites, ExecNothing, ExecAll, ExecFails, ExecPart,
       WriteCallback, WriteIgnored, WriteDone, WriteError
  <2>2. CASE \/ WriteEof \/ Close \/ Abort \/ ResumeReading \/ PauseReading
             \/ (\E l \in Limits : SetLimits(l))
             \/ ShutdownCallback \/ ReadError \/ ReadEof
             \/ KernelProgress \/ KernelFail
    BY <2>2 DEF WriteEof, Close, Abort, ResumeReading, PauseReading,
       SetLimits, ShutdownCallback, ReadError, ReadEof, KernelProgress,
       KernelAccept, KernelFail
  <2>3. CASE Returns \/ Scheduled \/ ConnectReturns \/ ConnectCancelled
    BY <2>3 DEF Returns, PauseReturn, ResumeReturn, FlowRaise,
       EofKeepsOpen, EofCloses, MadeReturns, MadeRaises, LostReturns,
       Scheduled, RunIgnored, RunMade, LostUnheard, ConnectReturns,
       ConnectCancelled
  <2> QED
    BY <2>1, <2>2, <2>3 DEF Next, User
<1> QED
  BY <1>3, <1>4, <1>5

-----------------------------------------------------------------------------
(* The life of the connection, as its protocol sees it.                    *)

\* The steps that neither begin nor end it.
LifeQuiet ==
    /\ UNCHANGED <<connected, made, awaited, lostCalls, closed>>
    /\ \/ UNCHANGED stack
       \/ ~closed /\ \E f \in Frames \ {"made", "lost"} : Enter(f)
       \/ stack # <<>> /\ Head(stack) # "lost" /\ Leave

LifeEvent ==
    \/ RunMade \/ MadeReturns \/ RunLost \/ LostReturns \/ LostUnheard
    \/ ConnectReturns \/ ConnectCancelled

LEMMA ForceCloseKeepsHandle == ForceClose => closed' = closed
BY DEF ForceClose

LEMMA CloseKeepsHandle == CloseTransport => closed' = closed
BY DEF CloseTransport, CloseNow

LEMMA Life ==
  ASSUME NoReadWhileClosing, Next
  PROVE  LifeQuiet \/ LifeEvent
<1> USE DEF Frames
<1>1. ASSUME NEW n \in Bytes, WriteAll(n) PROVE LifeQuiet
  BY <1>1 DEF WriteAll, Accepts, OnWrite, Resume, LifeQuiet
<1>2. ASSUME NEW n \in Bytes, NEW k \in 0..MaxBytes, WritePart(n, k)
      PROVE  LifeQuiet
  BY <1>2 DEF WritePart, Accepts, MaybePause, LifeQuiet
<1>3. ASSUME NEW n \in Bytes, WriteFails(n) PROVE LifeQuiet
  BY <1>3, ForceCloseKeepsHandle DEF WriteFails, LifeQuiet
<1>4. ASSUME NEW n \in Bytes, WriteLater(n) PROVE LifeQuiet
  BY <1>4 DEF WriteLater, Accepts, PauseAndQueue, MaybePause, LifeQuiet
<1>5. ASSUME NEW l \in Limits, SetLimits(l) PROVE LifeQuiet
  BY <1>5 DEF SetLimits, MaybePause, LifeQuiet
<1>6. CASE Close \/ Abort
  BY <1>6, ForceCloseKeepsHandle, CloseKeepsHandle DEF Close, Abort, LifeQuiet
<1>7. CASE WriteEof \/ ResumeReading \/ PauseReading
  BY <1>7 DEF WriteEof, ResumeReading, PauseReading, LifeQuiet
<1>8. CASE ExecNothing \/ ExecFails \/ WriteIgnored \/ WriteError
  BY <1>8, ForceCloseKeepsHandle DEF ExecNothing, ExecFails, WriteIgnored,
     WriteError, LifeQuiet
<1>9. CASE ExecAll
  BY <1>9 DEF ExecAll, ExecSomething, OnWrite, Resume, LifeQuiet
<1>10. ASSUME NEW k \in 0..MaxBytes, ExecPart(k) PROVE LifeQuiet
  BY <1>10 DEF ExecPart, ExecSomething, MaybeResume, Resume, LifeQuiet
<1>11. CASE WriteDone
  BY <1>11 DEF WriteDone, HandleClosed, OnWrite, Resume, LifeQuiet
<1>12. CASE ShutdownCallback \/ ReadError
  BY <1>12, ForceCloseKeepsHandle DEF ShutdownCallback, ReadError, LifeQuiet
<1>13. CASE KernelProgress \/ KernelFail
  BY <1>13 DEF KernelProgress, KernelAccept, KernelFail, LifeQuiet
<1>14. CASE ReadEof
  BY <1>14 DEF ReadEof, NoReadWhileClosing, LifeQuiet
<1>15. CASE PauseReturn \/ ResumeReturn \/ EofKeepsOpen \/ MadeRaises
  BY <1>15 DEF PauseReturn, ResumeReturn, EofKeepsOpen, MadeRaises,
     InCallback, LifeQuiet
<1>16. CASE FlowRaise
  BY <1>16, ForceCloseKeepsHandle DEF FlowRaise, InCallback, LifeQuiet
<1>17. CASE EofCloses
  BY <1>17, ForceCloseKeepsHandle, CloseKeepsHandle
     DEF EofCloses, InCallback, LifeQuiet
<1>18. CASE RunIgnored
  BY <1>18 DEF RunIgnored, LifeQuiet
<1> QED
  BY <1>1, <1>2, <1>3, <1>4, <1>5, <1>6, <1>7, <1>8, <1>9, <1>10, <1>11,
     <1>12, <1>13, <1>14, <1>15, <1>16, <1>17, <1>18
     DEF Next, User, Write, ExecWrites, WriteCallback, Returns, Scheduled,
         LifeEvent

\* Entering and leaving callbacks, in terms of Holds.
LEMMA HoldsEnter ==
  ASSUME stack \in Seq(Frames), NEW f \in Frames, Enter(f), NEW elt
  PROVE  Holds(stack', elt) <=> f = elt \/ Holds(stack, elt)
<1>1. /\ Len(stack) \in Nat /\ Len(stack') = Len(stack) + 1
      /\ stack'[1] = f
      /\ \A i \in 1..Len(stack) : stack'[i + 1] = stack[i]
  BY EnterFacts
<1>2. ASSUME Holds(stack', elt) PROVE f = elt \/ Holds(stack, elt)
  <2>1. PICK i \in 1..Len(stack') : stack'[i] = elt
    BY <1>2 DEF Holds
  <2>2. CASE i = 1
    BY <1>1, <2>1, <2>2
  <2>3. CASE i > 1
    <3>1. i - 1 \in 1..Len(stack) /\ stack'[(i - 1) + 1] = stack[i - 1]
          /\ (i - 1) + 1 = i
      BY <1>1, <2>1, <2>3
    <3> QED
      BY <2>1, <3>1 DEF Holds
  <2> QED
    BY <1>1, <2>1, <2>2, <2>3
<1>3. ASSUME f = elt \/ Holds(stack, elt) PROVE Holds(stack', elt)
  BY <1>1, <1>3 DEF Holds
<1> QED
  BY <1>2, <1>3

LEMMA HoldsLeave ==
  ASSUME stack \in Seq(Frames), stack # <<>>, Leave, NEW elt
  PROVE  Holds(stack, elt) <=> Head(stack) = elt \/ Holds(stack', elt)
<1>1. /\ Len(stack) \in Nat \ {0} /\ Len(stack') = Len(stack) - 1
      /\ Head(stack) = stack[1]
      /\ \A i \in 1..Len(stack') : stack'[i] = stack[i + 1]
  BY LeaveFacts, EmptySeq
<1>2. ASSUME Holds(stack, elt) PROVE Head(stack) = elt \/ Holds(stack', elt)
  <2>1. PICK i \in 1..Len(stack) : stack[i] = elt
    BY <1>2 DEF Holds
  <2>2. CASE i = 1
    BY <1>1, <2>1, <2>2
  <2>3. CASE i > 1
    <3>1. i - 1 \in 1..Len(stack') /\ stack'[i - 1] = stack[(i - 1) + 1]
          /\ (i - 1) + 1 = i
      BY <1>1, <2>1, <2>3
    <3> QED
      BY <2>1, <3>1 DEF Holds
  <2> QED
    BY <1>1, <2>1, <2>2, <2>3
<1>3. ASSUME Head(stack) = elt \/ Holds(stack', elt) PROVE Holds(stack, elt)
  BY <1>1, <1>3 DEF Holds
<1> QED
  BY <1>2, <1>3

LEMMA HoldsEmpty == ASSUME NEW elt PROVE ~Holds(<<>>, elt)
BY DEF Holds

LEMMA MadeStep ==
  ASSUME TypeOK, NoReadWhileClosing, MadeInv, Next
  PROVE  MadeInv'
<1>0. stack \in Seq(Frames)
  BY DEF TypeOK
<1>1. CASE LifeQuiet
  <2>1. Holds(stack', "made") => Holds(stack, "made")
    BY <1>0, <1>1, HoldsEnter, HoldsLeave DEF LifeQuiet
  <2> QED
    BY <1>1, <2>1 DEF LifeQuiet, MadeInv
<1>2. CASE RunMade
  BY <1>2 DEF RunMade, ConnectedBefore, MadeInv
<1>3. CASE MadeReturns
  <2>1. stack # <<>> /\ Head(stack) = "made" /\ Leave
    BY <1>3 DEF MadeReturns, InCallback
  <2>2. Holds(stack, "made")
    BY <1>0, <2>1, HoldsLeave
  <2> QED
    BY <1>3, <2>2 DEF MadeReturns, MadeInv
<1>4. CASE RunLost
  <2>1. Holds(stack', "made") => Holds(stack, "made")
    BY <1>0, <1>4, HoldsEnter DEF RunLost, Frames
  <2> QED
    BY <1>4, <2>1 DEF RunLost, MadeInv
<1>5. CASE LostReturns
  <2>1. Holds(stack', "made") => Holds(stack, "made")
    BY <1>0, <1>5, HoldsLeave DEF LostReturns, InCallback
  <2> QED
    BY <1>5, <2>1 DEF LostReturns, MadeInv
<1>6. CASE LostUnheard
  BY <1>6 DEF LostUnheard, MadeInv
<1>7. CASE ConnectReturns \/ ConnectCancelled
  BY <1>7 DEF ConnectReturns, ConnectCancelled, MadeInv
<1> QED
  BY <1>1, <1>2, <1>3, <1>4, <1>5, <1>6, <1>7, Life DEF LifeEvent

LEMMA LostStep ==
  ASSUME TypeOK, StackInv, NoReadWhileClosing, MadeInv, LostInv, Next
  PROVE  LostInv'
<1>0. stack \in Seq(Frames) /\ lostCalls \in Nat
  BY DEF TypeOK
<1> USE DEF LostIsReported
<1>1. CASE LifeQuiet
  <2>1. Holds(stack', "lost") <=> Holds(stack, "lost")
    BY <1>0, <1>1, HoldsEnter, HoldsLeave DEF LifeQuiet
  <2>2. closed => stack' = <<>>
    BY <1>1 DEF LifeQuiet, LostInv
  <2> QED
    BY <1>1, <2>1, <2>2 DEF LifeQuiet, LostInv
<1>2. CASE RunMade
  <2>1. Holds(stack', "lost") <=> Holds(stack, "lost")
    BY <1>0, <1>2, HoldsEnter DEF RunMade, Frames
  <2> QED
    BY <1>2, <2>1 DEF RunMade, HandleClosed, LostInv
<1>3. CASE MadeReturns
  <2>1. Holds(stack', "lost") <=> Holds(stack, "lost")
    BY <1>0, <1>3, HoldsLeave DEF MadeReturns, InCallback
  <2> QED
    BY <1>3, <2>1 DEF MadeReturns, InCallback, LostInv
<1>4. CASE RunLost
  <2>1. ~closed /\ ~Holds(stack, "lost")
    BY <1>4, HoldsEmpty DEF RunLost, RunHandle, LoopRuns, HandleClosed
  <2>2. lostCalls = 0 /\ made
    BY <1>4, <2>1 DEF RunLost, LostInv, MadeInv
  <2>3. Holds(stack', "lost")
    BY <1>0, <1>4, HoldsEnter DEF RunLost, Frames
  <2> QED
    BY <1>4, <2>1, <2>2, <2>3 DEF RunLost, LostInv
<1>5. CASE LostReturns
  <2>1. stack # <<>> /\ Head(stack) = "lost" /\ Leave
    BY <1>5 DEF LostReturns, InCallback
  <2>2. Holds(stack, "lost")
    BY <1>0, <2>1, HoldsLeave
  <2>3. stack' = <<>>
    <3>1. /\ Len(stack) \in Nat \ {0} /\ Len(stack') = Len(stack) - 1
          /\ Head(stack) = stack[1] /\ stack' \in Seq(Frames)
      BY <1>0, <2>1, LeaveFacts, EmptySeq
    <3>2. Len(stack) = 1
      BY <2>1, <3>1 DEF StackInv, PauseFrames
    <3> QED
      BY <3>1, <3>2, EmptySeq
  <2>4. ~Holds(stack', "lost")
    BY <2>3, HoldsEmpty
  <2> QED
    BY <1>5, <2>2, <2>3, <2>4 DEF LostReturns, CloseHandle, LostInv
<1>6. CASE LostUnheard
  <2>1. stack = <<>> /\ stack' = stack /\ ~connected /\ ~made /\ made' = made
    BY <1>6 DEF LostUnheard, RunHandle, LoopRuns, MadeInv
  <2> QED
    BY <1>6, <2>1, HoldsEmpty DEF LostUnheard, CloseHandle, LostInv
<1>7. CASE ConnectCancelled
  <2>1. stack = <<>> /\ stack' = stack /\ Awaited
    BY <1>7 DEF ConnectCancelled, LoopRuns, MadeInv
  <2> QED
    BY <1>7, <2>1, HoldsEmpty DEF ConnectCancelled, CloseHandle, LostInv
<1>8. CASE ConnectReturns
  BY <1>8 DEF ConnectReturns, LostInv
<1> QED
  BY <1>1, <1>2, <1>3, <1>4, <1>5, <1>6, <1>7, <1>8, Life DEF LifeEvent

-----------------------------------------------------------------------------
(* Reading, flow control and the end of file.                              *)

LEMMA ForceCloseStopsReading ==
  ASSUME NoReadWhileClosing, ForceClose
  PROVE  NoReadWhileClosing'
BY DEF ForceClose, NoReadWhileClosing

LEMMA CloseStopsReading ==
  ASSUME NoReadWhileClosing, CloseTransport
  PROVE  NoReadWhileClosing'
BY DEF CloseTransport, CloseNow, NoReadWhileClosing

LEMMA ReadStep ==
  ASSUME NoReadWhileClosing, Next
  PROVE  NoReadWhileClosing'
<1>1. CASE UNCHANGED <<reading, closing, closed>>
  BY <1>1 DEF NoReadWhileClosing
<1>2. CASE reading' = FALSE
  BY <1>2 DEF NoReadWhileClosing
<1>3. CASE Write
  <2>1. ASSUME NEW n \in Bytes, WriteFails(n) PROVE NoReadWhileClosing'
    BY <2>1, ForceCloseStopsReading DEF WriteFails
  <2> QED
    BY <1>1, <1>3, <2>1 DEF Write, WriteAll, WritePart, WriteLater
<1>4. CASE Close \/ Abort \/ ReadError \/ EofCloses
  BY <1>4, ForceCloseStopsReading, CloseStopsReading DEF Close, Abort,
     ReadError, EofCloses
<1>5. CASE ResumeReading
  BY <1>5 DEF ResumeReading, MayRead, NoReadWhileClosing
<1>6. CASE \/ WriteEof \/ PauseReading
           \/ (\E l \in Limits : SetLimits(l))
  BY <1>1, <1>2, <1>6 DEF WriteEof, PauseReading, SetLimits
<1>7. CASE ExecWrites
  BY <1>1, <1>7, ForceCloseStopsReading DEF ExecWrites, ExecNothing, ExecAll,
     ExecPart, ExecFails
<1>8. CASE WriteCallback \/ ShutdownCallback
  BY <1>1, <1>8, ForceCloseStopsReading DEF WriteCallback, WriteIgnored,
     WriteDone, WriteError, ShutdownCallback
<1>9. CASE KernelProgress \/ KernelFail \/ ReadEof
  BY <1>1, <1>2, <1>9 DEF KernelProgress, KernelAccept, KernelFail, ReadEof
<1>10. CASE PauseReturn \/ ResumeReturn \/ FlowRaise
  BY <1>1, <1>10, ForceCloseStopsReading DEF PauseReturn, ResumeReturn,
     FlowRaise
<1>11. CASE MadeReturns
  BY <1>1, <1>11 DEF MadeReturns, MayRead, NoReadWhileClosing
<1>12. CASE EofKeepsOpen \/ MadeRaises \/ LostReturns
  BY <1>1, <1>2, <1>12 DEF EofKeepsOpen, MadeRaises, LostReturns, CloseHandle
<1>13. CASE Scheduled \/ ConnectReturns \/ ConnectCancelled
  BY <1>1, <1>2, <1>13 DEF Scheduled, RunIgnored, RunMade, RunLost,
     LostUnheard, ConnectReturns, ConnectCancelled, CloseHandle
<1> QED
  BY <1>3, <1>4, <1>5, <1>6, <1>7, <1>8, <1>9, <1>10, <1>11, <1>12, <1>13
     DEF Next, User, Returns

LEMMA MarksFacts ==
  TypeOK => limits[1] \in Nat /\ limits[2] \in Nat /\ limits[1] >= limits[2]
BY StreamAssumption DEF TypeOK

LEMMA HighWaterStep ==
  ASSUME TypeOK, TypeOK', HighWater, Next
  PROVE  HighWater'
<1>0. /\ Lengths /\ Lengths' /\ Size \in Nat /\ Size' \in Nat /\ Len(<<>>) = 0
      /\ limits[1] \in Nat /\ limits[2] \in Nat /\ limits[1] >= limits[2]
      /\ LengthStep /\ (uv = <<>> => Len(uv) = 0)
  BY LengthsNat, LengthsNatNext, MarksFacts, Counts DEF Size, Lengths
<1>1. CASE UNCHANGED <<written, limits, paused>>
  BY <1>0, <1>1 DEF LengthStep, HighWater
<1>2. ASSUME NEW n \in Bytes, WriteAll(n) PROVE HighWater'
  <2>1. Size' = 0 /\ limits' = limits
    BY <1>0, <1>2 DEF WriteAll, FastPath, Size
  <2> QED
    BY <1>0, <2>1 DEF HighWater
<1>3. ASSUME NEW n \in Bytes, NEW k \in 0..MaxBytes, WritePart(n, k)
      PROVE  HighWater'
  <2>1. Size' = Len(uv') /\ limits' = limits
        /\ MaybePause(Len(uv'), limits[1], "pause")
    BY <1>0, <1>3 DEF WritePart, Size, Lengths
  <2> QED
    BY <1>0, <2>1 DEF MaybePause, OverHigh, HighWater
<1>4. ASSUME NEW n \in Bytes, WriteFails(n) PROVE HighWater'
  <2>1. Size' <= Size /\ UNCHANGED <<paused, limits>>
    BY <1>0, <1>4 DEF WriteFails, Size, Lengths
  <2> QED
    BY <1>0, <2>1 DEF HighWater
<1>5. ASSUME NEW n \in Bytes, WriteLater(n) PROVE HighWater'
  <2>1. Size' = Len(uv) + Len(buf') /\ limits' = limits
        /\ MaybePause(Len(uv) + Len(buf'), limits[1], "pauseQueue")
    BY <1>5 DEF WriteLater, PauseAndQueue, Size
  <2> QED
    BY <1>0, <2>1 DEF MaybePause, OverHigh, HighWater
<1>6. ASSUME NEW l \in Limits, SetLimits(l) PROVE HighWater'
  <2>1. Size' = Size /\ limits' = l /\ MaybePause(Size, l[1], "pause")
    BY <1>6 DEF SetLimits, Size
  <2>2. l[1] \in Nat
    BY StreamAssumption
  <2> QED
    BY <1>0, <2>1, <2>2 DEF MaybePause, OverHigh, HighWater
<1>7. CASE ExecAll
  <2>1. Size' = 0 /\ limits' = limits
    BY <1>0, <1>7 DEF ExecAll, Size
  <2> QED
    BY <1>0, <2>1 DEF HighWater
<1>8. ASSUME NEW k \in 0..MaxBytes, ExecPart(k) PROVE HighWater'
  <2>1. Size' = Len(uv') /\ limits' = limits /\ written' = written
        /\ MaybeResume(Len(uv'), "resumeExec")
    BY <1>0, <1>8 DEF ExecPart, Size, Lengths
  <2>2. CASE paused' = paused
    BY <1>1, <2>1, <2>2
  <2>3. CASE UnderLow(Len(uv'))
    BY <1>0, <2>1, <2>3 DEF UnderLow, HighWater
  <2> QED
    BY <2>1, <2>2, <2>3 DEF MaybeResume, MustResume
<1>9. CASE WriteDone
  <2>1. Size' = Size /\ limits' = limits /\ written' = written
        /\ OnWrite(Size, "resumeCb")
    BY <1>9 DEF WriteDone, Size
  <2>2. CASE paused' = paused
    BY <1>1, <2>1, <2>2
  <2>3. CASE UnderLow(Size)
    BY <1>0, <2>1, <2>3 DEF UnderLow, HighWater
  <2> QED
    BY <2>1, <2>2, <2>3 DEF OnWrite, MustResume
<1>10. CASE ExecNothing \/ ExecFails \/ WriteIgnored \/ WriteError
  BY <1>1, <1>10 DEF ExecNothing, ExecFails, WriteIgnored, WriteError
<1>11. CASE \/ WriteEof \/ Close \/ Abort \/ ResumeReading \/ PauseReading
            \/ ShutdownCallback \/ ReadError \/ ReadEof
            \/ KernelProgress \/ KernelFail
  BY <1>1, <1>11 DEF WriteEof, Close, Abort, ResumeReading, PauseReading,
     ShutdownCallback, ReadError, ReadEof, KernelProgress, KernelAccept,
     KernelFail
<1>12. CASE Returns \/ Scheduled \/ ConnectReturns \/ ConnectCancelled
  BY <1>1, <1>12 DEF Returns, PauseReturn, ResumeReturn, FlowRaise,
     EofKeepsOpen, EofCloses, MadeReturns, MadeRaises, LostReturns, Scheduled,
     RunIgnored, RunMade, RunLost, LostUnheard, ConnectReturns,
     ConnectCancelled
<1> QED
  BY <1>2, <1>3, <1>4, <1>5, <1>6, <1>7, <1>8, <1>9, <1>10, <1>11, <1>12
     DEF Next, User, Write, ExecWrites, WriteCallback

\* uv_shutdown is asked for only behind the last byte.
ShutStep ==
    \/ UNCHANGED <<shut, eof>>
    \/ eof' /\ shut' = shut
    \/ shut # "no" /\ eof' = eof
    \/ eof' /\ Size' = 0

LEMMA ShutCases ==
  ASSUME Lengths, Next
  PROVE  ShutStep
<1>0. /\ Len(<<>>) = 0 /\ uv = <<>> => Len(uv) = 0
      /\ Len(uv) \in Nat /\ Len(buf) \in Nat
  BY DEF Lengths
<1>1. CASE UNCHANGED <<shut, eof>>
  BY <1>1 DEF ShutStep
<1>2. ASSUME NEW n \in Bytes, WriteAll(n) PROVE ShutStep
  <2>1. Size' = 0 /\ eof' = eof /\ OnWrite(Len(uv), "resumeWrite")
    BY <1>0, <1>2 DEF WriteAll, FastPath, Size
  <2> QED
    BY <2>1 DEF OnWrite, WriteTail, Shutdown, ShutStep
<1>3. CASE Write
  BY <1>1, <1>2, <1>3 DEF Write, WritePart, WriteFails, WriteLater
<1>4. CASE WriteEof
  <2>1. eof' = TRUE /\ Size' = Size
    BY <1>4 DEF WriteEof, Size
  <2> QED
    BY <1>4, <2>1 DEF WriteEof, Drained, ShutStep
<1>5. CASE \/ Close \/ Abort \/ ResumeReading \/ PauseReading
           \/ (\E l \in Limits : SetLimits(l))
  BY <1>1, <1>5 DEF Close, Abort, ResumeReading, PauseReading, SetLimits
<1>6. CASE ExecAll
  <2>1. Size' = 0 /\ eof' = eof /\ OnWrite(0, "resumeWrite")
    BY <1>0, <1>6 DEF ExecAll, ExecSomething, Size
  <2> QED
    BY <2>1 DEF OnWrite, WriteTail, Shutdown, ShutStep
<1>7. CASE ExecWrites
  BY <1>1, <1>6, <1>7 DEF ExecWrites, ExecNothing, ExecPart, ExecFails
<1>8. CASE WriteDone
  <2>1. Size' = Size /\ eof' = eof /\ OnWrite(Size, "resumeCb")
    BY <1>8 DEF WriteDone, Size
  <2> QED
    BY <2>1 DEF OnWrite, WriteTail, Shutdown, ShutStep
<1>9. CASE WriteCallback
  BY <1>1, <1>8, <1>9 DEF WriteCallback, WriteIgnored, WriteError
<1>10. CASE ShutdownCallback
  BY <1>10 DEF ShutdownCallback, ShutStep
<1>11. CASE ReadError \/ ReadEof \/ KernelProgress \/ KernelFail
  BY <1>1, <1>11 DEF ReadError, ReadEof, KernelProgress, KernelAccept,
     KernelFail
<1>12. CASE ResumeReturn
  <2>1. Size' = Size /\ eof' = eof
    BY <1>12 DEF ResumeReturn, Size
  <2> QED
    BY <1>12, <2>1 DEF ResumeReturn, WriteTail, Shutdown, ShutStep
<1>13. CASE \/ PauseReturn \/ FlowRaise \/ EofKeepsOpen \/ EofCloses
            \/ MadeReturns \/ MadeRaises \/ LostReturns
  BY <1>1, <1>13 DEF PauseReturn, FlowRaise, EofKeepsOpen, EofCloses,
     MadeReturns, MadeRaises, LostReturns
<1>14. CASE Scheduled \/ ConnectReturns \/ ConnectCancelled
  BY <1>1, <1>14 DEF Scheduled, RunIgnored, RunMade, RunLost, LostUnheard,
     ConnectReturns, ConnectCancelled
<1> QED
  BY <1>3, <1>4, <1>5, <1>7, <1>9, <1>10, <1>11, <1>12, <1>13, <1>14
     DEF Next, User, Returns

LEMMA EofStep ==
  ASSUME TypeOK, TypeOK', EofInv, Next
  PROVE  EofInv'
<1>0. /\ Lengths /\ Lengths' /\ Size \in Nat /\ Size' \in Nat
      /\ LengthStep /\ ShutStep
  BY LengthsNat, LengthsNatNext, Counts, ShutCases DEF Size, Lengths
<1>1. CASE shut = "no"
  BY <1>0, <1>1 DEF EofInv, ShutStep
<1>2. CASE shut # "no"
  <2>1. eof /\ Size = 0
    BY <1>2 DEF EofInv
  <2>2. written' = written
    BY <1>0, <2>1 DEF LengthStep, Lengths
  <2>3. Size' = 0
    BY <1>0, <2>1, <2>2 DEF LengthStep
  <2>4. eof'
    BY <1>0, <2>1 DEF ShutStep
  <2> QED
    BY <2>3, <2>4 DEF EofInv
<1> QED
  BY <1>1, <1>2

-----------------------------------------------------------------------------
(* The invariant and the theorems.                                         *)

LEMMA InvInit == Init => IInv
<1> SUFFICES ASSUME Init PROVE IInv
  OBVIOUS
<1>1. /\ <<>> \in Seq(Bytes) /\ <<>> \in Seq(Frames) /\ Len(<<>>) = 0
      /\ MaxBytes \in Nat
  BY EmptySeq, StreamAssumption
<1>2. TypeOK
  <2>1. sched \in Seq({"made", "lost"}) /\ closing \in BOOLEAN
        /\ connLost \in BOOLEAN /\ hard \in BOOLEAN
    <3>1. <<"made">> \in Seq({"made", "lost"})
          /\ <<"lost">> \in Seq({"made", "lost"})
      OBVIOUS
    <3>2. CASE Opened
      BY <3>1, <3>2 DEF Opened
    <3>3. CASE AcceptFailed
      BY <3>1, <3>3 DEF AcceptFailed
    <3> QED
      BY <3>2, <3>3 DEF Init
  <2>2. awaited \in BOOLEAN
    BY StreamAssumption DEF Init
  <2>3. /\ written \in 0..MaxBytes /\ promised \in 0..MaxBytes
        /\ Len(kernel) + Len(uv) + Len(buf) <= written
    BY <1>1 DEF Init
  <2>4. /\ buf \in Seq(Bytes) /\ uv \in Seq(Bytes) /\ kernel \in Seq(Bytes)
        /\ reqs \in Seq(Bytes) /\ stack \in Seq(Frames) /\ Len(stack) <= 2
    BY <1>1 DEF Init
  <2>5. /\ queued \in BOOLEAN /\ broken \in BOOLEAN /\ paused \in BOOLEAN
        /\ limits \in Limits /\ reading \in BOOLEAN
        /\ connected \in BOOLEAN /\ made \in BOOLEAN /\ closed \in BOOLEAN
        /\ eof \in BOOLEAN /\ shut \in {"no", "requested", "done"}
        /\ lostCalls \in Nat
    BY DEF Init
  <2> QED
    BY <2>1, <2>2, <2>3, <2>4, <2>5 DEF TypeOK
<1>3. StackInv
  BY <1>1 DEF Init, StackInv
<1>4. PlaceInv
  BY <1>1 DEF Init, PlaceInv, Follows
<1>5. HighWater
  BY <1>1, <1>2, MarksFacts DEF Init, HighWater, Size
<1>6. NoReadWhileClosing /\ EofInv
  BY DEF Init, NoReadWhileClosing, EofInv
<1>7. CountInv
  BY <1>1 DEF Init, CountInv, Size
<1>8. FlushInv
  BY DEF Init, Opened, AcceptFailed, FlushInv, Holds
<1>9. MadeInv /\ LostInv
  BY <1>1 DEF Init, MadeInv, LostInv, LostIsReported, Holds
<1> QED
  BY <1>2, <1>3, <1>4, <1>5, <1>6, <1>7, <1>8, <1>9 DEF IInv

LEMMA InvStep == IInv /\ [Next]_vars => IInv'
<1> SUFFICES ASSUME IInv, [Next]_vars PROVE IInv'
  OBVIOUS
<1>1. CASE Next
  <2>1. /\ TypeOK /\ StackInv /\ PlaceInv /\ HighWater /\ NoReadWhileClosing
        /\ CountInv /\ FlushInv /\ EofInv /\ MadeInv /\ LostInv
    BY DEF IInv
  <2>2. TypeOK'
    BY <1>1, <2>1, TypeStep
  <2>3. StackInv' /\ PlaceInv'
    BY <1>1, <2>1, Calls, StackStep, DataStep
  <2>4. CountInv'
    BY <1>1, <2>1, <2>2, CountStep
  <2>5. FlushInv'
    BY <1>1, <2>1, <2>2, <2>3, <2>4, FlushStep
  <2>6. HighWater' /\ NoReadWhileClosing' /\ EofInv'
    BY <1>1, <2>1, <2>2, HighWaterStep, ReadStep, EofStep
  <2>7. MadeInv' /\ LostInv'
    BY <1>1, <2>1, MadeStep, LostStep
  <2> QED
    BY <2>2, <2>3, <2>4, <2>5, <2>6, <2>7 DEF IInv
<1>2. CASE UNCHANGED vars
  BY <1>2 DEF IInv, TypeOK, StackInv, PlaceInv, HighWater, NoReadWhileClosing,
     CountInv, FlushInv, EofInv, MadeInv, LostInv, LostIsReported, Follows,
     Holds, Size
<1> QED
  BY <1>1, <1>2

\* IInv holds in every reachable state, for every number of bytes and every
\* set of water marks.
THEOREM Invariance == Spec => []IInv
<1>1. Init => IInv
  BY InvInit
<1>2. IInv /\ [Next]_vars => IInv'
  BY InvStep
<1> QED
  BY <1>1, <1>2, PTL DEF Spec

\* Every variable of the transport keeps to its values; in particular the
\* callbacks of the protocol never nest more than two deep.
THEOREM TypeCorrect == Spec => []TypeOK
<1>1. IInv => TypeOK
  BY DEF IInv
<1> QED
  BY <1>1, Invariance, PTL

\* Whatever mixture of direct writes, write requests and queued writes the
\* bytes take, they keep their order and none is lost or doubled on a socket
\* that works.
THEOREM BytesKeepOrder == Spec => []InOrder
<1>1. IInv => InOrder
  <2> SUFFICES ASSUME IInv, ~broken
               PROVE  kernel \o uv \o buf = [i \in 1..written |-> i]
    BY DEF InOrder
  <2>1. /\ kernel \in Seq(Bytes) /\ uv \in Seq(Bytes) /\ buf \in Seq(Bytes)
        /\ written \in Nat
    BY DEF IInv, TypeOK
  <2>2. /\ Len(kernel) + Len(uv) + Len(buf) = written
        /\ Follows(kernel, 0) /\ Follows(uv, Len(kernel))
        /\ Follows(buf, Len(kernel) + Len(uv))
    BY DEF IInv, PlaceInv
  <2>3. PICK a : a = kernel \o uv
    OBVIOUS
  <2>4. kernel \in Seq(Bytes) /\ uv \in Seq(Bytes) /\ a = kernel \o uv
    BY <2>1, <2>3
  <2>5. /\ a \in Seq(Bytes) /\ Len(a) = Len(kernel) + Len(uv)
        /\ \A first \in Nat :
               Follows(kernel, first) /\ Follows(uv, first + Len(kernel)) =>
                   Follows(a, first)
    BY ONLY <2>4, FollowsConcat
  <2>6. PICK b : b = a \o buf
    OBVIOUS
  <2>7. a \in Seq(Bytes) /\ buf \in Seq(Bytes) /\ b = a \o buf
    BY <2>1, <2>5, <2>6
  <2>8. /\ b \in Seq(Bytes) /\ Len(b) = Len(a) + Len(buf)
        /\ \A first \in Nat :
               Follows(a, first) /\ Follows(buf, first + Len(a)) =>
                   Follows(b, first)
    BY ONLY <2>7, FollowsConcat
  <2>9. Len(kernel) \in Nat /\ Len(uv) \in Nat /\ Len(buf) \in Nat
    BY ONLY <2>1
  <2>10. Follows(a, 0)
    BY ONLY <2>2, <2>5, <2>9
  <2>11. Follows(b, 0) /\ Len(b) = written
    BY ONLY <2>2, <2>5, <2>8, <2>9, <2>10
  <2>12. b = [i \in 1..written |-> i]
    <3>1. \A i \in 1..written : b[i] = i
      BY ONLY <2>1, <2>11 DEF Follows
    <3>2. DOMAIN b = 1..written /\ b = [i \in DOMAIN b |-> b[i]]
      BY ONLY <2>8, <2>11
    <3> QED
      BY ONLY <3>1, <3>2
  <2> QED
    BY ONLY <2>3, <2>6, <2>12
<1> QED
  BY <1>1, Invariance, PTL

\* When connection_lost is called and nobody aborted, every byte accepted
\* before close() is in the kernel.
THEOREM CloseFlushes == Spec => []FlushBeforeLost
<1>1. IInv => FlushBeforeLost
  BY DEF IInv, FlushInv, FlushBeforeLost
<1> QED
  BY <1>1, Invariance, PTL

\* While more than the high-water mark is buffered the protocol is paused.
THEOREM PausedAboveHighWater == Spec => []HighWater
<1>1. IInv => HighWater
  BY DEF IInv
<1> QED
  BY <1>1, Invariance, PTL

\* A transport that is closing does not read.
THEOREM ClosingStopsReading == Spec => []NoReadWhileClosing
<1>1. IInv => NoReadWhileClosing
  BY DEF IInv
<1> QED
  BY <1>1, Invariance, PTL

\* connection_lost is called at most once, after connection_made, and no
\* callback of the protocol is active once the handle is closed.
THEOREM LostAtMostOnce == Spec => []LostOnce
<1>1. IInv => LostOnce
  BY DEF IInv, LostInv, LostOnce
<1> QED
  BY <1>1, Invariance, PTL

\* The socket's write side is shut down only behind the last byte.
THEOREM EofBehindData == Spec => []EofAfterData
<1>1. IInv => EofAfterData
  BY DEF IInv, EofInv, EofAfterData
<1> QED
  BY <1>1, Invariance, PTL

\* A transport no create_connection awaits has called connection_lost by the
\* time its handle is closed, if it called connection_made.
THEOREM AcceptedIsReported == ~Awaited /\ Spec => []LostIsReported
<1>1. ~Awaited /\ IInv => LostIsReported
  BY DEF IInv, LostInv
<1>2. CASE ~Awaited
  <2>1. IInv => LostIsReported
    BY <1>1, <1>2
  <2> QED
    BY <2>1, Invariance, PTL
<1>3. CASE Awaited
  BY <1>3
<1> QED
  BY <1>2, <1>3
-----------------------------------------------------------------------------
(* Data in _buffer, for protocols that do not raise KeyboardInterrupt.     *)

\* A call of the protocol hides no frame.
LEMMA EnterHolds ==
  ASSUME stack \in Seq(Frames), NEW elt, Holds(stack, elt),
         stack' = stack \/ \E frame \in Frames : Enter(frame)
  PROVE  Holds(stack', elt)
<1>1. CASE stack' = stack
  BY <1>1 DEF Holds
<1>2. ASSUME NEW frame \in Frames, Enter(frame) PROVE Holds(stack', elt)
  <2>1. PICK i \in 1..Len(stack) : stack[i] = elt
    BY DEF Holds
  <2>2. i + 1 \in 1..Len(stack') /\ stack'[i + 1] = elt
    BY <1>2, <2>1, EnterFacts
  <2> QED
    BY <2>2 DEF Holds
<1> QED
  BY <1>1, <1>2

\* A return removes the first frame only.
LEMMA LeaveHolds ==
  ASSUME stack \in Seq(Frames), stack # <<>>, Leave,
         NEW elt, Holds(stack, elt), Head(stack) # elt
  PROVE  Holds(stack', elt)
<1>1. PICK i \in 1..Len(stack) : stack[i] = elt
  BY DEF Holds
<1>2. i - 1 \in 1..Len(stack') /\ stack'[i - 1] = elt
  BY <1>1, LeaveFacts
<1> QED
  BY <1>2 DEF Holds

\* One step keeps data from resting in _buffer: whoever empties the set of
\* queued streams sends or drops the data of this one, and only user code puts
\* data into _buffer.
LEMMA StrandedStep ==
  ASSUME TypeOK, NoStrandedData, Next, ~Interrupts
  PROVE  NoStrandedData'
<1> DEFINE Waits == Holds(stack, "pauseQueue")
<1>1. stack \in Seq(Frames) /\ PauseFrames \subseteq Frames
  BY DEF TypeOK, PauseFrames, Frames
<1>2. NoStrandedData <=> (buf # <<>> /\ ~closed => queued \/ Waits)
  BY DEF NoStrandedData, Holds
<1>3. NoStrandedData' <=> (buf' # <<>> /\ ~closed' => queued' \/ Waits')
  BY DEF NoStrandedData, Holds
<1>4. ASSUME stack' = stack \/ \E frame \in Frames : Enter(frame),
             UNCHANGED <<buf, queued>>, closed => closed'
      PROVE  NoStrandedData'
  <2>1. Waits => Waits'
    BY <1>1, <1>4, EnterHolds
  <2> QED
    BY <1>2, <1>3, <1>4, <2>1
<1>5. ASSUME Leave, stack # <<>>, Head(stack) # "pauseQueue",
             UNCHANGED <<buf, queued>>, closed => closed'
      PROVE  NoStrandedData'
  <2>1. Waits => Waits'
    BY <1>1, <1>5, LeaveHolds
  <2> QED
    BY <1>2, <1>3, <1>5, <2>1
<1>6. CASE Write
  <2>1. PICK n \in Bytes :
          \/ WriteAll(n) \/ WriteFails(n) \/ WriteLater(n)
          \/ \E k \in 0..MaxBytes : WritePart(n, k)
    BY <1>6 DEF Write
  <2>2. CASE buf' = <<>>
    BY <1>3, <2>2
  <2>3. CASE WriteLater(n)
    <3>1. CASE queued' = TRUE
      BY <1>3, <3>1
    <3>2. CASE Enter("pauseQueue")
      <4>1. "pauseQueue" \in Frames
        BY DEF Frames
      <4>2. Len(stack') >= 1 /\ stack'[1] = "pauseQueue"
        BY <1>1, <3>2, <4>1, EnterFacts
      <4>3. Waits'
        BY <4>2 DEF Holds
      <4> QED
        BY <1>3, <4>3
    <3> QED
      BY <2>3, <3>1, <3>2 DEF WriteLater, PauseAndQueue, MaybePause
  <2> QED
    BY <2>1, <2>2, <2>3 DEF WriteAll, WriteFails, WritePart
<1>7. CASE ExecWrites
  <2>1. CASE ExecNothing
    BY <1>3, <2>1 DEF ExecNothing
  <2>2. CASE ~ExecNothing
    BY <1>3, <1>7, <2>2 DEF ExecWrites, ExecAll, ExecPart, ExecFails
  <2> QED
    BY <2>1, <2>2
<1>8. CASE PauseReturn
  <2>1. CASE Head(stack) = "pauseQueue"
    BY <1>3, <1>8, <2>1 DEF PauseReturn, QueuesAfterPause, InCallback
  <2>2. CASE Head(stack) # "pauseQueue"
    BY <1>5, <1>8, <2>2 DEF PauseReturn, QueuesAfterPause, InCallback
  <2> QED
    BY <2>1, <2>2
<1>9. CASE ResumeReturn \/ EofKeepsOpen \/ EofCloses \/ MadeReturns
             \/ MadeRaises \/ LostReturns
  <2>1. /\ Leave /\ stack # <<>> /\ Head(stack) # "pauseQueue"
        /\ UNCHANGED <<buf, queued>>
    BY <1>9 DEF ResumeReturn, EofKeepsOpen, EofCloses, MadeReturns, MadeRaises,
       LostReturns, InCallback
  <2>2. closed => closed'
    BY <1>9 DEF ResumeReturn, EofKeepsOpen, EofCloses, MadeReturns, MadeRaises,
       LostReturns, CloseTransport, CloseNow, ForceClose, CloseHandle
  <2> QED
    BY <1>5, <2>1, <2>2
<1>10. CASE LostUnheard \/ ConnectCancelled
  <2>1. stack' = stack /\ UNCHANGED <<buf, queued>> /\ closed' = TRUE
    BY <1>10 DEF LostUnheard, ConnectCancelled, CloseHandle
  <2> QED
    BY <1>4, <2>1
<1>11. CASE WriteEof \/ ResumeReading \/ PauseReading \/ KernelProgress
              \/ KernelFail \/ RunIgnored \/ ConnectReturns \/ WriteIgnored
  <2>1. UNCHANGED <<stack, buf, queued, closed>>
    BY <1>11 DEF WriteEof, ResumeReading, PauseReading, KernelProgress,
       KernelAccept, KernelFail, RunIgnored, ConnectReturns, WriteIgnored
  <2> QED
    BY <1>4, <2>1
<1>12. CASE Close \/ Abort \/ ShutdownCallback \/ ReadError \/ WriteError
  <2>1. /\ UNCHANGED <<stack, buf, queued>>
        /\ CloseTransport \/ ForceClose \/ UNCHANGED closed
    BY <1>12 DEF Close, Abort, ShutdownCallback, ReadError, WriteError
  <2>2. closed' = closed
    BY <2>1 DEF CloseTransport, CloseNow, ForceClose
  <2> QED
    BY <1>4, <2>1, <2>2
<1>13. CASE ReadEof \/ RunMade \/ RunLost
  <2>1. /\ \E frame \in Frames : Enter(frame)
        /\ UNCHANGED <<buf, queued, closed>>
    BY <1>13 DEF ReadEof, RunMade, RunLost, Frames
  <2> QED
    BY <1>4, <2>1
<1>14. CASE WriteDone \/ \E l \in Limits : SetLimits(l)
  <2>1. /\ stack' = stack \/ \E frame \in Frames : Enter(frame)
        /\ UNCHANGED <<buf, queued, closed>>
    BY <1>14 DEF WriteDone, OnWrite, Resume, SetLimits, MaybePause, Frames
  <2> QED
    BY <1>4, <2>1
<1>15. ~FlowRaise
  BY DEF FlowRaise
<1> QED
  BY <1>6, <1>7, <1>8, <1>9, <1>10, <1>11, <1>12, <1>13, <1>14, <1>15
     DEF Next, User, Returns, Scheduled, WriteCallback

\* If pause_writing() and resume_writing() do not raise KeyboardInterrupt,
\* data in _buffer always has somebody who will send it, whatever the protocol
\* writes from inside of them.
THEOREM NoneIsStranded == ASSUME ~Interrupts PROVE Spec => []NoStrandedData
<1>1. Init => NoStrandedData
  BY DEF Init, NoStrandedData
<1>2. ASSUME TypeOK, NoStrandedData, [Next]_vars PROVE NoStrandedData'
  <2>1. CASE Next
    BY <1>2, <2>1, StrandedStep
  <2>2. CASE UNCHANGED vars
    BY <1>2, <2>2 DEF NoStrandedData
  <2> QED
    BY <1>2, <2>1, <2>2
<1> QED
  BY <1>1, <1>2, TypeCorrect, PTL DEF Spec
=============================================================================
