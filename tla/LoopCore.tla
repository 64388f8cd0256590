------------------------------ MODULE LoopCore ------------------------------
(***************************************************************************)
(* The scheduling core of uvloop.Loop (loop.pyx): the _ready deque of      *)
(* Handles, the idle handle that drains it, the async handle with which    *)
(* other threads wake the loop, and run_forever/stop/close around them.    *)
(*                                                                         *)
(* The loop's own thread is a program counter, phase, that follows uv_run  *)
(* and the callbacks uvloop hangs on it.  loop.pyx is compiled with        *)
(* freethreading_compatible=True, so another thread in                     *)
(* call_soon_threadsafe interleaves with it between any two accesses of    *)
(* shared state: the closed test, the append and the async send are three  *)
(* steps.  libuv itself (uv_run, uv_stop, uv_async_send) is external and   *)
(* modelled from how loop.pyx uses it.                                     *)
(***************************************************************************)
EXTENDS Naturals, Sequences, Functions

CONSTANTS
    Handles,        \* callbacks, each submitted at most once (new_Handle)
    StopHandles,    \* the Handles made by Loop.stop(): they call Loop._stop
    Threads,        \* threads other than the loop's
    NoHandle

ASSUME HandlesAssumption ==
    /\ StopHandles \subseteq Handles
    /\ NoHandle \notin Handles

VARIABLES
    ready,          \* Loop._ready
    cancelled,      \* Handles whose _cancelled flag is set
    idle,           \* Loop.handler_idle.running
    async,          \* the pending flag of Loop.handler_async
    stopFlag,       \* uv_loop_t.stop_flag, set by uv_stop
    running,        \* Loop._running
    stopping,       \* Loop._stopping
    lastError,      \* Loop._last_error is not None
    closed,         \* Loop._closed
    phase,          \* where the loop's thread is
    todo,           \* ntodo - i in Loop._on_idle
    current,        \* the Handle whose callback _on_idle is in
    tpc,            \* where each other thread is in call_soon_threadsafe
    targ,           \* the Handle it is submitting
    scheduled,      \* history: Handles in the order of their append to _ready
    ran,            \* history: Handles whose callback was started
    mark            \* history: Len(scheduled) when the batch took ntodo

loopVars   == <<idle, async, stopFlag, running, stopping, lastError, closed>>
threadVars == <<tpc, targ>>
batchVars  == <<todo, current, mark>>
vars == <<ready, cancelled, loopVars, phase, batchVars, threadVars,
          scheduled, ran>>

Phases ==
    { "out",        \* the program, outside uv_run
      "top",        \* the head of uv_run's loop
      "batch",      \* Loop._on_idle: between two handles
      "callback",   \* Loop._on_idle: in a handle's callback
      "flush",      \* Loop._on_idle: in _exec_queued_writes
      "drained",    \* Loop._on_idle: about to read len(_ready) after the batch
      "unidle",     \* Loop._on_idle: read zero, about to stop the idle handle
      "poll",       \* uv__io_poll, where the loop may block
      "io",         \* a callback of a stream, a poll handle or a timer
      "polled",     \* uv__io_poll after that callback
      "wake",       \* the async's pending flag is cleared, _on_wake is next
      "closing",    \* Loop._close: _closed is set
      "clearing",   \* Loop._close: the ready handles are cancelled
      "teardown",   \* Loop._close: _ready is cleared
      "closed" }

FlagsOK ==
    /\ idle \in BOOLEAN /\ async \in BOOLEAN /\ stopFlag \in BOOLEAN
    /\ running \in BOOLEAN /\ stopping \in BOOLEAN
    /\ lastError \in BOOLEAN /\ closed \in BOOLEAN

DataOK ==
    /\ ready \in Seq(Handles)
    /\ cancelled \subseteq Handles
    /\ phase \in Phases
    /\ todo \in Nat /\ mark \in Nat
    /\ current \in Handles \cup {NoHandle}
    /\ tpc \in [Threads -> {"quiet", "checked", "appended"}]
    /\ targ \in [Threads -> Handles \cup {NoHandle}]
    /\ scheduled \in Seq(Handles)
    /\ ran \subseteq Handles

TypeOK == FlagsOK /\ DataOK

Init ==
    /\ ready = <<>> /\ scheduled = <<>>
    /\ cancelled = {} /\ ran = {}
    /\ idle = FALSE /\ async = FALSE /\ stopFlag = FALSE
    /\ running = FALSE /\ stopping = FALSE /\ lastError = FALSE
    /\ closed = FALSE
    /\ phase = "out"
    /\ todo = 0 /\ current = NoHandle /\ mark = 0
    /\ tpc = [t \in Threads |-> "quiet"]
    /\ targ = [t \in Threads |-> NoHandle]

-----------------------------------------------------------------------------
(* Submitting and cancelling handles.                                      *)

\* A Handle nobody has created yet.
Fresh(h) ==
    /\ h \notin Range(scheduled)
    /\ \A t \in Threads : targ[t] # h

\* Loop._ready.append
AppendLeft(h) ==
    /\ ready' = <<h>> \o ready
    /\ scheduled' = Append(scheduled, h)

AppendReady(h) ==
    /\ ready' = Append(ready, h)
    /\ scheduled' = Append(scheduled, h)

\* Where the loop's thread executes user code, which may use the loop.
UserCode == phase \in {"out", "callback", "flush", "io"}

\* call_soon and stop(): _call_soon_handle.
CallSoon(h) ==
    /\ UserCode /\ Fresh(h) /\ ~closed
    /\ AppendReady(h)
    /\ idle' = TRUE
    /\ UNCHANGED <<cancelled, async, stopFlag, running, stopping, lastError,
                   closed, phase, batchVars, threadVars, ran>>

\* Handle.cancel, by user code that holds the handle call_soon returned.
Cancel(h) ==
    /\ UserCode
    /\ h \in Range(scheduled) \ (StopHandles \cup cancelled)
    /\ \A t \in Threads : targ[t] # h
    /\ cancelled' = cancelled \cup {h}
    /\ UNCHANGED <<ready, loopVars, phase, batchVars, threadVars, scheduled,
                   ran>>

\* call_soon_threadsafe: _check_closed passes ...
ThreadCheck(t, h) ==
    /\ tpc[t] = "quiet" /\ Fresh(h)
    /\ ~closed
    /\ tpc' = [tpc EXCEPT ![t] = "checked"]
    /\ targ' = [targ EXCEPT ![t] = h]
    /\ UNCHANGED <<ready, cancelled, loopVars, phase, batchVars, scheduled,
                   ran>>

\* ... the handle is appended ...
ThreadAppend(t) ==
    /\ tpc[t] = "checked"
    /\ AppendReady(targ[t])
    /\ tpc' = [tpc EXCEPT ![t] = "appended"]
    /\ UNCHANGED <<cancelled, loopVars, phase, batchVars, targ, ran>>

\* ... and handler_async.send() sets the pending flag.  Once _close() has
\* closed the async handle send() raises RuntimeError and sets nothing.
AsyncIsAlive == phase # "closed"

ThreadSend(t) ==
    /\ tpc[t] = "appended"
    /\ \/ AsyncIsAlive /\ async' = TRUE
       \/ ~AsyncIsAlive /\ UNCHANGED async
    /\ tpc' = [tpc EXCEPT ![t] = "quiet"]
    /\ targ' = [targ EXCEPT ![t] = NoHandle]
    /\ UNCHANGED <<ready, cancelled, idle, stopFlag, running, stopping,
                   lastError, closed, phase, batchVars, scheduled, ran>>

-----------------------------------------------------------------------------
(* Loop._stop and the callbacks of uv_run.                                 *)

\* _stop(exc): an exception is recorded even when the loop stops already,
\* and the idle handle is started so that _on_idle gets to call uv_stop.
RecordError(exc) ==
    \/ exc /\ lastError' = TRUE
    \/ ~exc /\ UNCHANGED lastError

Stop_LeaveIdle(exc) ==
    /\ RecordError(exc)
    /\ stopping' = TRUE
    /\ UNCHANGED idle

Stop(exc) ==
    /\ RecordError(exc)
    /\ \/ ~stopping /\ idle' = TRUE
       \/ stopping /\ UNCHANGED idle
    /\ stopping' = TRUE

\* run_forever up to uv_run.
RunForever ==
    /\ UserCode /\ ~closed /\ ~running
    /\ running' = TRUE
    /\ lastError' = FALSE
    /\ idle' = TRUE
    /\ phase' = "top"
    /\ UNCHANGED <<ready, cancelled, async, stopFlag, stopping, closed,
                   batchVars, threadVars, scheduled, ran>>

\* uv_run enters its loop body; _on_idle takes ntodo if the idle handle runs.
Iterate ==
    /\ phase = "top" /\ ~stopFlag
    /\ IF idle
       THEN /\ todo' = Len(ready) /\ mark' = Len(scheduled)
            /\ phase' = "batch"
       ELSE /\ phase' = "poll"
            /\ UNCHANGED <<todo, mark>>
    /\ UNCHANGED <<ready, cancelled, loopVars, current, threadVars, scheduled,
                   ran>>

\* The for loop of _on_idle pops one handle.
BatchHasNext_UntilStop == todo > 0 /\ ~stopping    \* mutant: leaves at stop()
BatchHasNext == todo > 0

PopLeft ==
    /\ phase = "batch" /\ BatchHasNext
    /\ ready' = Tail(ready)
    /\ todo' = todo - 1

\* It is cancelled: it is dropped.
PopCancelled ==
    /\ PopLeft /\ Head(ready) \in cancelled
    /\ UNCHANGED <<cancelled, loopVars, phase, current, mark, threadVars,
                   scheduled, ran>>

\* It is the handle of stop(): _stop(None) runs to its end.
PopStop ==
    /\ PopLeft /\ Head(ready) \in StopHandles \ cancelled
    /\ Stop(FALSE)
    /\ ran' = ran \cup {Head(ready)}
    /\ UNCHANGED <<cancelled, async, stopFlag, running, closed, phase, current,
                   mark, threadVars, scheduled>>

\* It is a user's callback: it starts.
PopCallback ==
    /\ PopLeft /\ Head(ready) \notin StopHandles \cup cancelled
    /\ current' = Head(ready)
    /\ ran' = ran \cup {Head(ready)}
    /\ phase' = "callback"
    /\ UNCHANGED <<cancelled, loopVars, mark, threadVars, scheduled>>

\* The callback returns, or raises an Exception, which Handle._run hands to
\* the exception handler.
CallbackReturn ==
    /\ phase = "callback"
    /\ current' = NoHandle
    /\ phase' = "batch"
    /\ UNCHANGED <<ready, cancelled, loopVars, todo, mark, threadVars,
                   scheduled, ran>>

\* The callback raises KeyboardInterrupt or SystemExit: _on_idle calls
\* _stop(ex) and returns, leaving the rest of the batch in _ready.
CallbackRaise ==
    /\ phase = "callback"
    /\ Stop(TRUE)
    /\ current' = NoHandle /\ todo' = 0
    /\ phase' = "poll"
    /\ UNCHANGED <<ready, cancelled, async, stopFlag, running, closed, mark,
                   threadVars, scheduled, ran>>

\* The batch is over.
BatchEnd ==
    /\ phase = "batch" /\ ~BatchHasNext
    /\ phase' = "drained"
    /\ UNCHANGED <<ready, cancelled, loopVars, batchVars, threadVars,
                   scheduled, ran>>

\* If streams have queued writes they are flushed first, which may call the
\* protocols' resume_writing().
BatchFlush ==
    /\ phase = "batch" /\ ~BatchHasNext
    /\ phase' = "flush"
    /\ UNCHANGED <<ready, cancelled, loopVars, batchVars, threadVars,
                   scheduled, ran>>

FlushReturn ==
    /\ phase = "flush"
    /\ phase' = "drained"
    /\ UNCHANGED <<ready, cancelled, loopVars, batchVars, threadVars,
                   scheduled, ran>>

\* resume_writing() raises KeyboardInterrupt: the rest of _on_idle is skipped
\* and Loop._handle_exception sets _last_error and calls _stop(None).
FlushRaise ==
    /\ phase = "flush"
    /\ Stop(TRUE)
    /\ phase' = "poll"
    /\ UNCHANGED <<ready, cancelled, async, stopFlag, running, closed,
                   batchVars, threadVars, scheduled, ran>>

\* _on_idle reads len(_ready), and returns if it is not zero, asking libuv to
\* stop if the loop is stopping: "if self._stopping: uv_stop(...)".
UvStop ==
    \/ stopping /\ stopFlag' = TRUE
    \/ ~stopping /\ UNCHANGED stopFlag

StaysIdle_Never == FALSE
StaysIdle == ready # <<>>

IdleKept ==
    /\ phase = "drained"
    /\ StaysIdle
    /\ UvStop
    /\ phase' = "poll"
    /\ UNCHANGED <<ready, cancelled, idle, async, running, stopping, lastError,
                   closed, batchVars, threadVars, scheduled, ran>>

IdleUnneeded ==
    /\ phase = "drained"
    /\ ~StaysIdle
    /\ phase' = "unidle"
    /\ UNCHANGED <<ready, cancelled, loopVars, batchVars, threadVars,
                   scheduled, ran>>

\* Another thread may have appended since.
IdleStop ==
    /\ phase = "unidle"
    /\ idle' = FALSE
    /\ UvStop
    /\ phase' = "poll"
    /\ UNCHANGED <<ready, cancelled, async, running, stopping, lastError,
                   closed, batchVars, threadVars, scheduled, ran>>

\* uv__io_poll returns at once: its timeout is zero when an idle handle runs
\* or uv_stop was called.  With neither it blocks until an event.
PollTimeout ==
    /\ \/ phase = "poll" /\ (idle \/ stopFlag)
       \/ phase = "polled"
    /\ phase' = "top"
    /\ UNCHANGED <<ready, cancelled, loopVars, batchVars, threadVars,
                   scheduled, ran>>

\* uv__io_poll runs the callback of some other handle, once per poll.
PollIO ==
    /\ phase = "poll"
    /\ phase' = "io"
    /\ UNCHANGED <<ready, cancelled, loopVars, batchVars, threadVars,
                   scheduled, ran>>

\* It returns, or it is the callback of a stream, whose _fatal_error() logs any
\* exception, KeyboardInterrupt too, and closes the transport.
IOReturn ==
    /\ phase = "io"
    /\ phase' = "polled"
    /\ UNCHANGED <<ready, cancelled, loopVars, batchVars, threadVars,
                   scheduled, ran>>

\* A timer, a poll handle, a datagram or the check handle lets a BaseException
\* out: Loop._handle_exception sets _last_error and calls _stop(None).
IORaise ==
    /\ phase = "io"
    /\ Stop(TRUE)
    /\ phase' = "polled"
    /\ UNCHANGED <<ready, cancelled, async, stopFlag, running, closed,
                   batchVars, threadVars, scheduled, ran>>

\* uv__async_io clears the pending flag before it calls _on_wake.
PollWake ==
    /\ phase \in {"poll", "polled"} /\ async
    /\ async' = FALSE
    /\ phase' = "wake"
    /\ UNCHANGED <<ready, cancelled, idle, stopFlag, running, stopping,
                   lastError, closed, batchVars, threadVars, scheduled, ran>>

\* Loop._on_wake
HasWork_StoppingOnly == stopping
HasWork == ready # <<>> \/ stopping

OnWake ==
    /\ phase = "wake"
    /\ \/ HasWork /\ idle' = TRUE
       \/ ~HasWork /\ UNCHANGED idle
    /\ phase' = "top"
    /\ UNCHANGED <<ready, cancelled, async, stopFlag, running, stopping,
                   lastError, closed, batchVars, threadVars, scheduled, ran>>

\* uv_run returns and Loop._run's finally block resets the loop's state;
\* run_forever then raises _last_error if there is one.
StoppingAfterRun == FALSE

RunReturns ==
    /\ phase = "top" /\ stopFlag
    /\ stopFlag' = FALSE
    /\ idle' = FALSE
    /\ running' = FALSE
    /\ stopping' = StoppingAfterRun
    /\ phase' = "out"
    /\ UNCHANGED <<ready, cancelled, async, lastError, closed, batchVars,
                   threadVars, scheduled, ran>>

-----------------------------------------------------------------------------
(* Loop._close, which raises when the loop runs.                           *)

CloseAllowed == ~running

CloseBegin ==
    /\ UserCode /\ ~closed
    /\ CloseAllowed
    /\ closed' = TRUE
    /\ phase' = "closing"
    /\ UNCHANGED <<ready, cancelled, idle, async, stopFlag, running, stopping,
                   lastError, batchVars, threadVars, scheduled, ran>>

CloseCancel ==
    /\ phase = "closing"
    /\ cancelled' = cancelled \cup Range(ready)
    /\ phase' = "clearing"
    /\ UNCHANGED <<ready, loopVars, batchVars, threadVars, scheduled, ran>>

CloseClear ==
    /\ phase = "clearing"
    /\ ready' = <<>>
    /\ phase' = "teardown"
    /\ UNCHANGED <<cancelled, loopVars, batchVars, threadVars, scheduled, ran>>

\* The handles are closed.  _close() raises RuntimeError if _ready has been
\* filled again meanwhile; the loop is closed all the same.
CloseHandles ==
    /\ phase = "teardown"
    /\ idle' = FALSE /\ async' = FALSE
    /\ phase' = "closed"
    /\ UNCHANGED <<ready, cancelled, stopFlag, running, stopping, lastError,
                   closed, batchVars, threadVars, scheduled, ran>>

-----------------------------------------------------------------------------
(* The specification.                                                      *)

Batch ==
    \/ PopCancelled \/ PopStop \/ PopCallback \/ BatchEnd \/ BatchFlush

LoopThread ==
    \/ Iterate \/ Batch
    \/ CallbackReturn \/ CallbackRaise \/ FlushReturn \/ FlushRaise
    \/ IdleKept \/ IdleUnneeded \/ IdleStop
    \/ PollTimeout \/ PollWake \/ IOReturn \/ IORaise
    \/ OnWake \/ RunReturns

Closing == CloseCancel \/ CloseClear \/ CloseHandles

User ==
    \/ \E h \in Handles : CallSoon(h) \/ Cancel(h)
    \/ RunForever
    \/ CloseBegin

OtherThread(t) ==
    \/ \E h \in Handles : ThreadCheck(t, h)
    \/ ThreadAppend(t)
    \/ ThreadSend(t)

Next ==
    \/ LoopThread
    \/ PollIO
    \/ Closing
    \/ User
    \/ \E t \in Threads : OtherThread(t)

\* The loop's thread keeps running, callbacks return, resume_writing() does
\* not raise every time, a thread inside call_soon_threadsafe gets to its
\* end, and a poll that begins with the async handle's descriptor readable
\* sooner or later reports it.
Fairness ==
    /\ WF_vars(LoopThread)
    /\ SF_vars(FlushReturn)
    /\ SF_vars(PollWake)
    /\ \A t \in Threads : WF_vars(ThreadAppend(t) \/ ThreadSend(t))

Spec == Init /\ [][Next]_vars
FairSpec == Spec /\ Fairness

-----------------------------------------------------------------------------
(* Properties.                                                             *)

\* A thread is between its append and its send.
SendComing == \E t \in Threads : tpc[t] = "appended"

\* The poll would sleep until an event.
Blocking == phase = "poll" /\ ~idle /\ ~stopFlag

\* The loop never sleeps on work: when the poll blocks while _ready holds a
\* handle, the async handle is pending or the thread that appended is about
\* to send.  (The comment of call_soon_threadsafe, and the race of
\* _on_idle's len(_ready) == 0 test with another thread's append.)
NoLostWakeup == Blocking /\ ready # <<>> => async \/ SendComing

\* A loop that has been told to stop never blocks in the poll: _stop() starts
\* the idle handle, and whoever stops that one has called uv_stop.
StopNeverBlocks == Blocking => ~stopping

\* popleft() never finds _ready empty: nothing but the batch itself takes
\* handles out of _ready while it counts down ntodo, because close() is
\* refused while the loop runs, in a callback too.
PopLeftSafe == todo <= Len(ready)

\* A batch runs only handles appended before it began, so callbacks that
\* reschedule themselves cannot keep the loop from polling for I/O.
NoStarvation ==
    phase = "callback" => \E i \in 1..mark : scheduled[i] = current

\* stop() lets the iteration complete: when run_forever is about to return
\* without an error, every handle appended before the last batch began has
\* run or was cancelled ("Every callback already scheduled will still run").
StopCompletesIteration ==
    phase = "top" /\ stopFlag /\ ~lastError =>
        \A i \in 1..mark : scheduled[i] \in ran \cup cancelled

\* Nothing of a run leaks into the next: outside uv_run neither the loop nor
\* libuv is told to stop.  (So the UV_RUN_NOWAIT mode of run_forever, chosen
\* when _stopping is set on entry, is never chosen.)
CleanBetweenRuns == phase = "out" => ~running /\ ~stopping /\ ~stopFlag

\* Every handle in _ready of a running loop runs, is cancelled, or the loop
\* returns: also one that another thread appended while the loop was about
\* to stop its idle handle and sleep.
HandleRuns ==
    \A h \in Handles :
        running /\ h \in Range(ready) ~> h \in ran \cup cancelled \/ ~running

\* A loop told to stop returns from run_forever.
StopReturns == stopping ~> ~running

\* What callers are promised: see CallSoonQueue.
QueueStatus ==
    [h \in Handles |->
        IF h \notin Range(scheduled) THEN "new"
        ELSE IF h = current THEN "active"
        ELSE IF h \in ran THEN "done"
        ELSE IF h \in Range(ready) \ cancelled THEN "pending"
        ELSE "dropped"]

Queue == INSTANCE CallSoonQueue WITH order <- scheduled, status <- QueueStatus

\* The loop implements the queue that call_soon's docstring promises: in
\* order of registration, each callback at most once, one at a time.
ImplementsQueue == Queue!Spec
=============================================================================
