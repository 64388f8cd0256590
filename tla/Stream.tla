------------------------------- MODULE Stream -------------------------------
(***************************************************************************)
(* One stream transport of uvloop: UVStream (handles/stream.pyx) on top of *)
(* UVBaseTransport (handles/basetransport.pyx), from _init_protocol() to   *)
(* the closing of its libuv handle.                                        *)
(*                                                                         *)
(* The n-th byte a program writes is the number n.  A byte is in the       *)
(* transport's _buffer, in a libuv write request, or in the kernel.        *)
(* Everything happens in the loop's thread; what makes it hard is that the *)
(* protocol's callbacks, called from the middle of a handler, may call any *)
(* method of the transport.  stack holds the callbacks the thread is in:   *)
(* while it is not empty only user code runs.                              *)
(***************************************************************************)
EXTENDS Naturals, Sequences

CONSTANTS
    MaxBytes,       \* bound: bytes a program writes
    Limits,         \* arguments of set_write_buffer_limits: <<high, low>>
    Awaited,        \* create_connection awaits the transport (no Server has it)
    Interrupts      \* pause_/resume_writing may raise KeyboardInterrupt

ASSUME StreamAssumption ==
    /\ MaxBytes \in Nat
    /\ \A l \in Limits : l[1] \in Nat /\ l[2] \in Nat /\ l[1] >= l[2]
    /\ Limits # {}
    /\ Awaited \in BOOLEAN /\ Interrupts \in BOOLEAN

VARIABLES
    written,        \* history: bytes accepted by write()
    buf,            \* UVStream._buffer
    queued,         \* the stream is in Loop._queued_streams
    uv,             \* bytes in libuv's write queue (write_queue_size)
    reqs,           \* uv_write requests: the last byte of each
    kernel,         \* bytes the socket has accepted
    broken,         \* the socket fails every write
    paused,         \* _protocol_paused
    limits,         \* <<_high_water, _low_water>>
    reading,        \* __reading
    connected,      \* _protocol_connected
    closing,        \* _closing
    connLost,       \* _conn_lost > 0
    closed,         \* _closed: the libuv handle is closed
    eof,            \* _eof
    shut,           \* __shutting_down, and what became of uv_shutdown
    sched,          \* Loop._ready, as far as it holds handles of this stream
    stack,          \* protocol callbacks the thread is in, innermost first
    awaited,        \* create_connection has not returned yet
    made,           \* history: connection_made was called
    lostCalls,      \* history: calls of connection_lost
    promised,       \* history: bytes accepted when close() was called
    hard            \* history: the connection was aborted or failed

writeVars  == <<written, buf, queued, uv, reqs, kernel, broken>>
flowVars   == <<paused, limits>>
closeVars  == <<closing, connLost, closed>>
eofVars    == <<eof, shut>>
madeVars   == <<connected, made, awaited>>
history    == <<promised, hard>>
vars == <<writeVars, flowVars, reading, closeVars, eofVars, sched, stack,
          madeVars, lostCalls, history>>

Frames ==
    { "made", "lost", "eof",    \* connection_made, connection_lost, eof_received
      "pause",                  \* pause_writing, nothing is left to do after it
      "pauseQueue",             \* pause_writing, then Loop._queue_write
      "resumeExec",             \* resume_writing, nothing is left to do
      "resumeWrite",            \* resume_writing from _on_write ...
      "resumeCb" }              \* ... in the callback of uv_write

Bytes == 1..MaxBytes

TypeOK ==
    /\ written \in 0..MaxBytes /\ promised \in 0..MaxBytes
    /\ buf \in Seq(Bytes) /\ uv \in Seq(Bytes) /\ kernel \in Seq(Bytes)
    /\ reqs \in Seq(Bytes)
    /\ Len(kernel) + Len(uv) + Len(buf) <= written
    /\ queued \in BOOLEAN /\ broken \in BOOLEAN /\ paused \in BOOLEAN
    /\ limits \in Limits
    /\ reading \in BOOLEAN /\ connected \in BOOLEAN /\ made \in BOOLEAN
    /\ closing \in BOOLEAN /\ connLost \in BOOLEAN /\ closed \in BOOLEAN
    /\ eof \in BOOLEAN /\ shut \in {"no", "requested", "done"}
    /\ sched \in Seq({"made", "lost"})
    /\ stack \in Seq(Frames) /\ Len(stack) <= 2
    /\ awaited \in BOOLEAN /\ hard \in BOOLEAN
    /\ lostCalls \in Nat

\* _init_protocol() has scheduled connection_made.
Opened ==
    /\ sched = <<"made">>
    /\ closing = FALSE /\ connLost = FALSE /\ hard = FALSE

\* uv_accept() failed: the transport was force-closed without a connection.
AcceptFailed ==
    /\ ~Awaited
    /\ sched = <<"lost">>
    /\ closing = TRUE /\ connLost = TRUE /\ hard = TRUE

Init ==
    /\ written = 0 /\ promised = 0
    /\ buf = <<>> /\ uv = <<>> /\ kernel = <<>> /\ reqs = <<>>
    /\ queued = FALSE /\ broken = FALSE
    /\ paused = FALSE /\ limits \in Limits
    /\ reading = FALSE /\ connected = FALSE /\ made = FALSE
    /\ Opened \/ AcceptFailed
    /\ closed = FALSE
    /\ eof = FALSE /\ shut = "no"
    /\ stack = <<>>
    /\ awaited = Awaited
    /\ lostCalls = 0

-----------------------------------------------------------------------------
(* Helpers of the handlers.                                                *)

\* The loop's own handlers run when no protocol callback is active.
LoopRuns == stack = <<>>
InCallback(frames) == stack # <<>> /\ Head(stack) \in frames
Enter(frame) == stack' = <<frame>> \o stack
Leave == stack' = Tail(stack)

\* get_write_buffer_size()
Size == Len(uv) + Len(buf)

\* _schedule_call_connection_lost
ScheduleLost == sched' = Append(sched, "lost")

\* _force_close, called by abort() and by every fatal error.
ForceClose ==
    \/ /\ ~connLost /\ ~closed
       /\ closing' = TRUE /\ connLost' = TRUE
       /\ reading' = FALSE
       /\ hard' = TRUE
       /\ ScheduleLost
       /\ UNCHANGED <<closed, promised>>
    \/ /\ connLost \/ closed
       /\ UNCHANGED <<closeVars, reading, history, sched>>

\* The condition under which close() and write_eof() need not wait.
Drained_UvOnly == uv = <<>>
Drained_Always == TRUE
Drained == Size = 0

\* close()
CloseNow ==
    /\ closing' = TRUE
    /\ reading' = FALSE
    /\ promised' = written
    /\ \/ Drained /\ connLost' = TRUE /\ ScheduleLost
       \/ ~Drained /\ UNCHANGED <<connLost, sched>>
    /\ UNCHANGED <<closed, hard>>

CloseTransport ==
    \/ ~closing /\ ~closed /\ CloseNow
    \/ (closing \/ closed) /\ UNCHANGED <<closeVars, reading, history, sched>>

\* _maybe_pause_protocol: pause_writing() is called at once, from user code.
OverHigh_OffByOne(size, high) == size > high + 1
OverHigh(size, high) == size > high

MaybePause(size, high, frame) ==
    \/ OverHigh(size, high) /\ ~paused /\ paused' = TRUE /\ Enter(frame)
    \/ (~OverHigh(size, high) \/ paused) /\ UNCHANGED <<paused, stack>>

\* _maybe_pause_protocol and then Loop._queue_write.
PauseAndQueue(size) ==
    /\ MaybePause(size, limits[1], "pauseQueue")
    /\ \/ OverHigh(size, limits[1]) /\ ~paused /\ UNCHANGED queued
       \/ (~OverHigh(size, limits[1]) \/ paused) /\ queued' = TRUE

\* _maybe_resume_protocol
UnderLow_Strict(size) == size < limits[2]
UnderLow(size) == size <= limits[2]

MustResume(size) == paused /\ UnderLow(size)
Resume(frame) == paused' = FALSE /\ Enter(frame)

MaybeResume(size, frame) ==
    \/ MustResume(size) /\ Resume(frame)
    \/ ~MustResume(size) /\ UNCHANGED <<paused, stack>>

\* _shutdown
Shutdown ==
    \/ shut = "no" /\ shut' = "requested"
    \/ shut # "no" /\ UNCHANGED shut

\* _on_write after _maybe_resume_protocol.
WriteTail_NoLost(size) ==
    /\ \/ size = 0 /\ ~closing /\ eof /\ Shutdown
       \/ (size > 0 \/ closing \/ ~eof) /\ UNCHANGED shut
    /\ UNCHANGED sched

WriteTail(size) ==
    \/ size = 0 /\ closing /\ ScheduleLost /\ UNCHANGED shut
    \/ size = 0 /\ ~closing /\ eof /\ Shutdown /\ UNCHANGED sched
    \/ (size > 0 \/ (~closing /\ ~eof)) /\ UNCHANGED <<sched, shut>>

\* _on_write: the tail runs when resume_writing() has returned.
OnWrite(size, frame) ==
    \/ MustResume(size) /\ Resume(frame) /\ UNCHANGED <<sched, shut>>
    \/ ~MustResume(size) /\ WriteTail(size) /\ UNCHANGED <<paused, stack>>

-----------------------------------------------------------------------------
(* write() and writelines(), by user code: in a callback of the protocol,  *)
(* or in some other callback of the loop.                                  *)

UserHasTransport == made

\* write() raises on a closed handle and after write_eof(), and drops its
\* data once _conn_lost is set.
Accepts(n) ==
    /\ UserHasTransport
    /\ ~closed /\ ~eof /\ ~connLost
    /\ written + n <= MaxBytes

WithData(n) == buf \o [i \in 1..n |-> written + i]

\* _initiate_write's fast path: nothing is in libuv's queue.
FastPath_Unpaused == ~paused
FastPath == ~paused /\ uv = <<>>

\* write(2) takes everything.
WriteAll(n) ==
    /\ Accepts(n) /\ FastPath /\ ~broken
    /\ written' = written + n
    /\ kernel' = kernel \o WithData(n) /\ buf' = <<>>
    /\ OnWrite(Len(uv), "resumeWrite")
    /\ UNCHANGED <<queued, uv, reqs, broken, limits, reading, closeVars, eof,
                   madeVars, lostCalls, history>>

\* write(2), and uv_write after it, take the first k bytes; libuv keeps the
\* rest, and the protocol may have to be paused.
WritePart(n, k) ==
    /\ Accepts(n) /\ FastPath
    /\ k <= Len(WithData(n)) /\ (broken => k = 0)
    /\ written' = written + n
    /\ kernel' = kernel \o SubSeq(WithData(n), 1, k)
    /\ uv' = uv \o SubSeq(WithData(n), k + 1, Len(WithData(n)))
    /\ reqs' = Append(reqs, written + n)
    /\ buf' = <<>>
    /\ MaybePause(Len(uv'), limits[1], "pause")
    /\ UNCHANGED <<queued, broken, limits, reading, closeVars, eofVars, sched,
                   madeVars, lostCalls, history>>

\* write(2) fails: the data is dropped and the transport force-closed.
WriteFails(n) ==
    /\ Accepts(n) /\ FastPath
    /\ written' = written + n
    /\ broken' = TRUE /\ buf' = <<>>
    /\ ForceClose
    /\ UNCHANGED <<queued, uv, reqs, kernel, flowVars, eofVars, stack,
                   madeVars, lostCalls>>

\* The slow path: the data waits for the end of the loop's iteration.
WriteLater(n) ==
    /\ Accepts(n) /\ ~FastPath
    /\ written' = written + n
    /\ buf' = WithData(n)
    /\ PauseAndQueue(Len(uv) + Len(buf'))
    /\ UNCHANGED <<uv, reqs, kernel, broken, limits, reading, closeVars,
                   eofVars, sched, madeVars, lostCalls, history>>

Write ==
    \E n \in Bytes :
        \/ WriteAll(n) \/ WriteFails(n) \/ WriteLater(n)
        \/ \E k \in 0..MaxBytes : WritePart(n, k)

-----------------------------------------------------------------------------
(* Loop._exec_queued_writes, once per iteration, for this stream.          *)

ExecQueued == LoopRuns /\ queued /\ queued' = FALSE

\* _exec_write: the handle is closed, or the buffer was flushed meanwhile.
ExecNothing ==
    /\ ExecQueued
    /\ closed \/ buf = <<>>
    /\ UNCHANGED <<written, buf, uv, reqs, kernel, broken, flowVars, reading,
                   closeVars, eofVars, sched, stack, madeVars, lostCalls,
                   history>>

ExecSomething == ExecQueued /\ ~closed /\ buf # <<>>

ExecAll ==
    /\ ExecSomething /\ uv = <<>> /\ ~broken
    /\ kernel' = kernel \o buf /\ buf' = <<>>
    /\ OnWrite(0, "resumeWrite")
    /\ UNCHANGED <<written, uv, reqs, broken, limits, reading, closeVars, eof,
                   madeVars, lostCalls, history>>

\* libuv gets what the socket did not take: everything, if libuv's queue was
\* not empty.
ExecPart(k) ==
    /\ ExecSomething
    /\ k <= Len(buf) /\ (broken \/ uv # <<>> => k = 0)
    /\ kernel' = kernel \o SubSeq(buf, 1, k)
    /\ uv' = uv \o SubSeq(buf, k + 1, Len(buf))
    /\ reqs' = Append(reqs, buf[Len(buf)])
    /\ buf' = <<>>
    /\ MaybeResume(Len(uv'), "resumeExec")
    /\ UNCHANGED <<written, broken, limits, reading, closeVars, eofVars, sched,
                   madeVars, lostCalls, history>>

ExecFails ==
    /\ ExecSomething /\ uv = <<>>
    /\ broken' = TRUE /\ buf' = <<>>
    /\ ForceClose
    /\ UNCHANGED <<written, uv, reqs, kernel, flowVars, eofVars, stack,
                   madeVars, lostCalls>>

ExecWrites ==
    \/ ExecNothing \/ ExecAll \/ ExecFails
    \/ \E k \in 0..MaxBytes : ExecPart(k)

-----------------------------------------------------------------------------
(* libuv's side of the write requests.                                     *)

\* The socket takes bytes of libuv's queue.
KernelAccept(k) ==
    /\ LoopRuns /\ ~closed /\ ~broken
    /\ k <= Len(uv)
    /\ kernel' = kernel \o SubSeq(uv, 1, k)
    /\ uv' = SubSeq(uv, k + 1, Len(uv))
    /\ UNCHANGED <<written, buf, queued, reqs, broken, flowVars, reading,
                   closeVars, eofVars, sched, stack, madeVars, lostCalls,
                   history>>

\* The peer resets the connection: the first request fails, and so would all.
KernelFail ==
    /\ LoopRuns /\ ~closed /\ ~broken /\ uv # <<>>
    /\ broken' = TRUE
    /\ UNCHANGED <<written, buf, queued, uv, reqs, kernel, flowVars, reading,
                   closeVars, eofVars, sched, stack, madeVars, lostCalls,
                   history>>

\* __uv_stream_on_write for the first request.
HandleClosed_Ignored == FALSE
HandleClosed == closed

Callback == LoopRuns /\ reqs # <<>> /\ reqs' = Tail(reqs)
Sent == Head(reqs) <= Len(kernel)

WriteIgnored ==
    /\ Callback /\ HandleClosed
    /\ UNCHANGED <<written, buf, queued, uv, kernel, broken, flowVars, reading,
                   closeVars, eofVars, sched, stack, madeVars, lostCalls,
                   history>>

WriteDone ==
    /\ Callback /\ ~HandleClosed /\ Sent
    /\ OnWrite(Size, "resumeCb")
    /\ UNCHANGED <<written, buf, queued, uv, kernel, broken, limits, reading,
                   closeVars, eof, madeVars, lostCalls, history>>

\* The bytes of a failed request leave write_queue_size with it.
DropFirst ==
    \E k \in 0..Len(uv) :
        /\ \A i \in 1..Len(uv) : uv[i] > Head(reqs) <=> i > k
        /\ uv' = SubSeq(uv, k + 1, Len(uv))

WriteError ==
    /\ Callback /\ ~HandleClosed /\ ~Sent /\ broken
    /\ DropFirst
    /\ ForceClose
    /\ UNCHANGED <<written, buf, queued, kernel, broken, flowVars, eofVars,
                   stack, madeVars, lostCalls>>

WriteCallback == WriteIgnored \/ WriteDone \/ WriteError

\* __uv_stream_on_shutdown
ShutdownCallback ==
    /\ LoopRuns /\ shut = "requested"
    /\ shut' = "done"
    /\ ForceClose \/ UNCHANGED <<closeVars, reading, history, sched>>
    /\ UNCHANGED <<writeVars, flowVars, eof, stack, madeVars, lostCalls>>

-----------------------------------------------------------------------------
(* The return of pause_writing() and resume_writing().  An Exception goes  *)
(* to the exception handler; KeyboardInterrupt is raised to the caller.    *)

QueuesAfterPause_No == FALSE
QueuesAfterPause == InCallback({"pauseQueue"})

PauseReturn ==
    /\ InCallback({"pause", "pauseQueue"})
    /\ Leave
    /\ \/ QueuesAfterPause /\ queued' = TRUE
       \/ ~QueuesAfterPause /\ UNCHANGED queued
    /\ UNCHANGED <<written, buf, uv, reqs, kernel, broken, flowVars, reading,
                   closeVars, eofVars, sched, madeVars, lostCalls, history>>

ResumeReturn ==
    /\ InCallback({"resumeExec", "resumeWrite", "resumeCb"})
    /\ Leave
    /\ \/ Head(stack) = "resumeExec" /\ UNCHANGED <<sched, shut>>
       \/ Head(stack) # "resumeExec" /\ WriteTail(Size)
    /\ UNCHANGED <<writeVars, flowVars, reading, closeVars, eof, madeVars,
                   lostCalls, history>>

\* Nothing is queued after pause_writing, and the tail of _on_write is
\* skipped.  Only __uv_stream_on_write catches the exception.
FlowRaise ==
    /\ Interrupts
    /\ InCallback({"pause", "pauseQueue", "resumeExec", "resumeWrite",
                   "resumeCb"})
    /\ Leave
    /\ \/ Head(stack) = "resumeCb" /\ ForceClose
       \/ /\ Head(stack) # "resumeCb"
          /\ UNCHANGED <<closeVars, reading, history, sched>>
    /\ UNCHANGED <<writeVars, flowVars, eofVars, madeVars, lostCalls>>

-----------------------------------------------------------------------------
(* The other methods of the transport.                                     *)

WriteEof ==
    /\ UserHasTransport /\ ~closed /\ ~eof
    /\ eof' = TRUE
    /\ \/ Drained /\ Shutdown
       \/ ~Drained /\ UNCHANGED shut
    /\ UNCHANGED <<writeVars, flowVars, reading, closeVars, sched, stack,
                   madeVars, lostCalls, history>>

SetLimits(l) ==
    /\ UserHasTransport /\ ~closed
    /\ limits' = l
    /\ MaybePause(Size, l[1], "pause")
    /\ UNCHANGED <<writeVars, reading, closeVars, eofVars, sched, madeVars,
                   lostCalls, history>>

Close ==
    /\ UserHasTransport
    /\ CloseTransport
    /\ UNCHANGED <<writeVars, flowVars, eofVars, stack, madeVars, lostCalls>>

Abort ==
    /\ UserHasTransport
    /\ ForceClose
    /\ UNCHANGED <<writeVars, flowVars, eofVars, stack, madeVars, lostCalls>>

\* _start_reading, and the conditions of resume_reading and pause_reading.
MayRead == ~closing /\ ~closed

ResumeReading ==
    /\ UserHasTransport /\ MayRead
    /\ reading' = TRUE
    /\ UNCHANGED <<writeVars, flowVars, closeVars, eofVars, sched, stack,
                   madeVars, lostCalls, history>>

PauseReading ==
    /\ UserHasTransport /\ ~closing
    /\ reading' = FALSE
    /\ UNCHANGED <<writeVars, flowVars, closeVars, eofVars, sched, stack,
                   madeVars, lostCalls, history>>

User ==
    \/ Write \/ WriteEof \/ Close \/ Abort \/ ResumeReading \/ PauseReading
    \/ \E l \in Limits : SetLimits(l)

-----------------------------------------------------------------------------
(* The read callback of libuv.                                             *)

\* A read error, or a data_received() that raises.
ReadError ==
    /\ LoopRuns /\ reading
    /\ ForceClose
    /\ UNCHANGED <<writeVars, flowVars, eofVars, stack, madeVars, lostCalls>>

\* The peer's end of file: reading stops, then _on_eof.
ReadEof ==
    /\ LoopRuns /\ reading
    /\ reading' = FALSE
    /\ Enter("eof")
    /\ UNCHANGED <<writeVars, flowVars, closeVars, eofVars, sched, madeVars,
                   lostCalls, history>>

\* eof_received() returns a true value: the transport stays open.
EofKeepsOpen ==
    /\ InCallback({"eof"}) /\ Leave
    /\ reading' = FALSE
    /\ UNCHANGED <<writeVars, flowVars, closeVars, eofVars, sched, madeVars,
                   lostCalls, history>>

\* It returns a false value, or raises.
EofCloses ==
    /\ InCallback({"eof"}) /\ Leave
    /\ CloseTransport \/ ForceClose
    /\ UNCHANGED <<writeVars, flowVars, eofVars, madeVars, lostCalls>>

-----------------------------------------------------------------------------
(* The scheduled handles of the transport, and the waiter.                 *)

RunHandle(call) ==
    /\ LoopRuns /\ sched # <<>> /\ Head(sched) = call
    /\ sched' = Tail(sched)

\* _call_connection_made and _call_connection_lost do nothing on a closed
\* handle.
RunIgnored ==
    /\ \E call \in {"made", "lost"} : RunHandle(call)
    /\ HandleClosed
    /\ UNCHANGED <<writeVars, flowVars, reading, closeVars, eofVars, stack,
                   madeVars, lostCalls, history>>

\* _protocol_connected is set before connection_made() is called.
ConnectedBefore_No == FALSE
ConnectedBefore == TRUE

RunMade ==
    /\ RunHandle("made") /\ ~HandleClosed
    /\ connected' = ConnectedBefore
    /\ made' = TRUE
    /\ Enter("made")
    /\ UNCHANGED <<writeVars, flowVars, reading, closeVars, eofVars, awaited,
                   lostCalls, history>>

\* connection_made() returns: reading starts, unless the transport closes.
MadeReturns ==
    /\ InCallback({"made"}) /\ Leave
    /\ connected' = TRUE
    /\ \/ MayRead /\ reading' = TRUE
       \/ ~MayRead /\ UNCHANGED reading
    /\ UNCHANGED <<writeVars, flowVars, closeVars, eofVars, sched, made,
                   awaited, lostCalls, history>>

\* It raises: the transport is left as it is.
MadeRaises ==
    /\ InCallback({"made"}) /\ Leave
    /\ UNCHANGED <<writeVars, flowVars, reading, closeVars, eofVars, sched,
                   madeVars, lostCalls, history>>

RunLost ==
    /\ RunHandle("lost") /\ ~HandleClosed
    /\ connected
    /\ lostCalls' = lostCalls + 1
    /\ Enter("lost")
    /\ UNCHANGED <<writeVars, flowVars, reading, closeVars, eofVars, madeVars,
                   history>>

\* connection_lost() returns or raises, or was not called: the libuv handle
\* is closed.
CloseHandle == closed' = TRUE /\ reading' = FALSE

LostReturns ==
    /\ InCallback({"lost"}) /\ Leave
    /\ CloseHandle
    /\ UNCHANGED <<writeVars, flowVars, closing, connLost, eofVars, sched,
                   madeVars, lostCalls, history>>

LostUnheard ==
    /\ RunHandle("lost") /\ ~HandleClosed
    /\ ~connected
    /\ CloseHandle
    /\ UNCHANGED <<writeVars, flowVars, closing, connLost, eofVars, stack,
                   madeVars, lostCalls, history>>

\* create_connection's "await waiter" returns after connection_made ...
ConnectReturns ==
    /\ LoopRuns /\ awaited /\ made
    /\ awaited' = FALSE
    /\ UNCHANGED <<writeVars, flowVars, reading, closeVars, eofVars, sched,
                   stack, connected, made, lostCalls, history>>

\* ... or is cancelled, at any time until then: tr._close().
ConnectCancelled ==
    /\ LoopRuns /\ awaited
    /\ awaited' = FALSE
    /\ CloseHandle
    /\ UNCHANGED <<writeVars, flowVars, closing, connLost, eofVars, sched,
                   stack, connected, made, lostCalls, history>>

-----------------------------------------------------------------------------
(* The specification.                                                      *)

KernelProgress == \E k \in Bytes : KernelAccept(k)

Returns ==
    \/ PauseReturn \/ ResumeReturn \/ FlowRaise
    \/ EofKeepsOpen \/ EofCloses
    \/ MadeReturns \/ MadeRaises \/ LostReturns

Scheduled == RunIgnored \/ RunMade \/ RunLost \/ LostUnheard

Next ==
    \/ User
    \/ ExecWrites \/ WriteCallback \/ ShutdownCallback
    \/ KernelProgress \/ KernelFail
    \/ ReadError \/ ReadEof
    \/ Returns \/ Scheduled
    \/ ConnectReturns \/ ConnectCancelled

\* Callbacks return.  Every iteration of uv_run runs the ready handles and
\* the check handle of the queued writes, and polls, which delivers the
\* callbacks of libuv.  The peer reads, or its end of the connection fails.
Fairness ==
    /\ WF_vars(Returns)
    /\ SF_vars(Scheduled)
    /\ SF_vars(ExecWrites)
    /\ SF_vars(WriteCallback)
    /\ SF_vars(KernelProgress \/ KernelFail)

Spec == Init /\ [][Next]_vars
FairSpec == Spec /\ Fairness

-----------------------------------------------------------------------------
(* Properties.                                                             *)

\* What is in the kernel, in libuv and in _buffer is what was written, in
\* order and without a gap, whatever mixture of direct writes, write
\* requests and queued writes the bytes took, and whatever the protocol
\* wrote from inside pause_writing or resume_writing.
InOrder ==
    ~broken => kernel \o uv \o buf = [i \in 1..written |-> i]

\* A graceful close() loses nothing: when connection_lost is called and
\* nobody aborted, every byte accepted before close() is in the kernel.
FlushBeforeLost ==
    lostCalls > 0 /\ ~hard => Len(kernel) >= promised

\* While more than the high-water mark is buffered the protocol is paused.
HighWater == Size > limits[1] => paused

\* connection_lost is called at most once, after connection_made, and no
\* callback of the protocol is entered or active once the handle is closed,
\* though _on_write, close and abort may each schedule a connection_lost and
\* write requests are still to complete.
LostOnce ==
    /\ lostCalls <= 1
    /\ lostCalls = 1 => made
    /\ closed => stack = <<>>

\* A transport that is closing does not read: not after a close() inside
\* connection_made or eof_received either.
NoReadWhileClosing == closing \/ closed => ~reading

\* The socket's write side is shut down only behind the last byte.
EofAfterData == shut # "no" => Size = 0

\* _protocol_connected: "if transport is aborted or closed, connection_lost
\* will still be scheduled".  A transport whose handle is closed after
\* connection_made has called connection_lost.
LostIsReported == closed /\ made => lostCalls = 1

\* Data never rests in _buffer without anybody who will send it.
NoStrandedData ==
    buf # <<>> /\ ~closed =>
        queued \/ \E i \in 1..Len(stack) : stack[i] = "pauseQueue"

\* A transport that is closed or aborted gets rid of its handle.
CloseCompletes == closing ~> closed

\* A paused protocol is resumed, unless the connection ends.
PauseEnds == paused ~> ~paused \/ closed

=============================================================================
