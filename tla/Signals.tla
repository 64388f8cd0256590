------------------------------ MODULE Signals ------------------------------
(***************************************************************************)
(* Signals of a Loop in the main thread (loop.pyx): the self-pipe that      *)
(* signal.set_wakeup_fd() writes to, the set _signals that __sighandler     *)
(* fills, the handlers added and removed while signals arrive, and what     *)
(* becomes of them from one run of the loop to the next.                    *)
(*                                                                          *)
(* CPython's part is external: its C handler marks a signal as tripped and  *)
(* writes its number to the wakeup descriptor; the Python handler runs      *)
(* later, wherever Python code runs or signals are checked for.             *)
(***************************************************************************)
EXTENDS Naturals, FiniteSets

CONSTANTS
    Sigs,           \* the signals
    SigInt,         \* SIGINT: its default handler raises KeyboardInterrupt
    PipeMax,        \* bytes of a signal that fill the self-pipe
    MaxArrivals     \* bound: times each signal arrives

ASSUME SignalsAssumption ==
    SigInt \in Sigs /\ PipeMax \in Nat \ {0} /\ MaxArrivals \in Nat

VARIABLES
    pc,         \* where the loop is
    wakeup,     \* set_wakeup_fd() names the self-pipe
    pipe,       \* bytes in the self-pipe, by signal
    tripped,    \* signals whose Python handler has yet to run
    signals,    \* _signals
    data, sigs, \* _invoke_signals: bytes it has yet to handle, and its sigs
    handlers,   \* _signal_handlers
    queued,     \* callbacks of each signal in Loop._ready
    owed,       \* history: arrived in this run, and not handled since
    late,       \* history: the same, in earlier runs and between runs
    abandoned,  \* history: what an exception took from data and sigs
    arrivals,   \* history: times each signal arrived for a handler
    calls       \* history: callbacks queued for each signal

local == <<data, sigs>>
history == <<owed, late, abandoned, arrivals, calls>>
signalVars == <<pc, wakeup, pipe, tripped, signals, local, handlers, queued,
                history>>

None == [s \in Sigs |-> 0]
Present(f) == {s \in Sigs : f[s] > 0}

\* Loop._listening_signals
Listening == pc # "out" /\ pc # "closed"

-----------------------------------------------------------------------------
(* CPython *)

\* A signal without a handler of the loop has none at all, but for SIGINT.
Full == \E s \in Sigs : pipe[s] >= PipeMax

Arrive(s) ==
    /\ pc # "closed" /\ arrivals[s] < MaxArrivals
    /\ s \in handlers \union {SigInt}
    /\ tripped' = tripped \union {s}
    /\ pipe' = IF wakeup /\ ~Full THEN [pipe EXCEPT ![s] = @ + 1] ELSE pipe
    /\ arrivals' = [arrivals EXCEPT ![s] = @ + 1]
    /\ owed' = IF Listening THEN owed \union {s} ELSE owed
    /\ late' = IF Listening THEN late ELSE late \union {s}
    /\ UNCHANGED <<pc, wakeup, signals, local, handlers, queued, abandoned,
                   calls>>

Raises == SigInt \in tripped /\ SigInt \notin handlers

\* Nothing is owed to these signals any more.
Settle(done) ==
    owed' = owed \ done /\ late' = late \ done /\ abandoned' = abandoned \ done

\* PyErr_CheckSignals(): the handlers of ran run, __sighandler for those
\* that have one; all run, unless one raises KeyboardInterrupt.
Checked(ran) ==
    /\ IF Raises THEN SigInt \in ran /\ ran \subseteq tripped ELSE ran = tripped
    /\ tripped' = tripped \ ran
    /\ owed' = IF Raises THEN owed \ {SigInt} ELSE owed
    /\ late' = IF Raises THEN late \ {SigInt} ELSE late

\* Python code runs in a callback of the loop or outside of the loop.  A
\* KeyboardInterrupt stops the loop, unless the program catches it.
PythonRuns ==
    /\ pc \in {"poll", "out"} /\ tripped # {}
    /\ \E ran \in SUBSET Sigs :
        /\ Checked(ran)
        /\ signals' = signals \union (ran \intersect handlers)
    /\ \/ pc' = pc
       \/ Raises /\ pc = "poll" /\ pc' = "stopping"
    /\ UNCHANGED <<wakeup, pipe, local, handlers, queued, abandoned, arrivals,
                   calls>>

-----------------------------------------------------------------------------
(* A run of the loop *)

\* _setup_or_resume_signals: a new self-pipe; _signals is what it was.
SetupSignals ==
    /\ pc = "out"
    /\ pc' = "poll" /\ wakeup' = TRUE
    /\ UNCHANGED <<pipe, tripped, signals, local, handlers, queued, history>>

\* _pause_signals: what is in the self-pipe goes with it.
PauseSignals ==
    /\ pc \in {"poll", "stopping"}
    /\ pc' = "out" /\ wakeup' = FALSE
    /\ pipe' = None
    /\ late' = late \union owed /\ owed' = {}
    /\ UNCHANGED <<tripped, signals, local, handlers, queued, abandoned,
                   arrivals, calls>>

\* _read_from_self: recv() until BlockingIOError.
ReadFromSelf ==
    /\ pc \in {"poll", "read"} /\ Present(pipe) # {}
    /\ pc' = "read"
    /\ data' = [s \in Sigs |-> data[s] + pipe[s]]
    /\ pipe' = None
    /\ UNCHANGED <<wakeup, tripped, signals, sigs, handlers, queued, history>>

\* What has been read when KeyboardInterrupt leaves _invoke_signals.
Interrupted ==
    /\ pc' = "stopping"
    /\ data' = None /\ sigs' = {}

\* Mutants of InvokeSignals: _signals is copied before the handlers run and
\* cleared after; it is not cleared.
InvokeSignals_CopyFirst ==
    /\ pc = "read" /\ Present(pipe) = {}
    /\ \E ran \in SUBSET Sigs :
        /\ Checked(ran)
        /\ IF Raises
           THEN signals' = signals \union (ran \intersect handlers) /\ Interrupted
           ELSE /\ signals' = {} /\ sigs' = signals
                /\ pc' = "handle" /\ UNCHANGED data
    /\ UNCHANGED <<wakeup, pipe, handlers, queued, abandoned, arrivals, calls>>
InvokeSignals_NoClear ==
    /\ pc = "read" /\ Present(pipe) = {}
    /\ \E ran \in SUBSET Sigs :
        /\ Checked(ran)
        /\ signals' = signals \union (ran \intersect handlers)
        /\ IF Raises THEN Interrupted
           ELSE sigs' = signals' /\ pc' = "handle" /\ UNCHANGED data
    /\ UNCHANGED <<wakeup, pipe, handlers, queued, abandoned, arrivals, calls>>

\* _invoke_signals: the Python handlers run, and the set is taken over.
InvokeSignals ==
    /\ pc = "read" /\ Present(pipe) = {}
    /\ \E ran \in SUBSET Sigs :
        /\ Checked(ran)
        /\ LET all == signals \union (ran \intersect handlers)
           IN  IF Raises THEN signals' = all /\ Interrupted
               ELSE /\ signals' = {} /\ sigs' = all
                    /\ pc' = "handle" /\ UNCHANGED data
    /\ UNCHANGED <<wakeup, pipe, handlers, queued, abandoned, arrivals, calls>>

\* _handle_signal with a handler of the loop: its callback is queued.
QueueCallback(s) ==
    /\ queued' = [queued EXCEPT ![s] = @ + 1]
    /\ calls' = [calls EXCEPT ![s] = @ + 1]
    /\ Settle({s})
    /\ UNCHANGED <<pc, tripped, signals>>

\* _handle_signal without one: signals are checked for again; what an
\* exception then leaves of the loops of _invoke_signals is gone.
CheckAgain(bytes, rest) ==
    /\ \E ran \in SUBSET Sigs :
        /\ Checked(ran)
        /\ signals' = signals \union (ran \intersect handlers)
    /\ IF Raises
       THEN /\ Interrupted
            /\ abandoned' = abandoned \union Present(bytes) \union rest
       ELSE /\ data' = bytes /\ sigs' = rest
            /\ UNCHANGED <<pc, abandoned>>
    /\ UNCHANGED <<queued, calls>>

HandleSignal(s, bytes, rest) ==
    /\ \/ s \in handlers /\ QueueCallback(s) /\ data' = bytes /\ sigs' = rest
       \/ s \notin handlers /\ CheckAgain(bytes, rest)
    /\ UNCHANGED <<wakeup, pipe, handlers, arrivals>>

\* A byte, in any order; the signal need not be taken from the set as well.
HandleByte(s) ==
    /\ pc = "handle" /\ data[s] > 0
    /\ HandleSignal(s, [data EXCEPT ![s] = @ - 1], sigs \ {s})

\* The signals whose byte could not be written.
HandleRest(s) ==
    /\ pc = "handle" /\ Present(data) = {} /\ s \in sigs
    /\ HandleSignal(s, data, sigs \ {s})

\* Mutant of InvokeEnds: only the bytes of the self-pipe are handled.
InvokeEnds_BytesOnly ==
    /\ pc = "handle" /\ Present(data) = {}
    /\ pc' = "poll" /\ sigs' = {}
    /\ UNCHANGED <<wakeup, pipe, tripped, signals, data, handlers, queued,
                   history>>

InvokeEnds ==
    /\ pc = "handle" /\ Present(data) = {} /\ sigs = {}
    /\ pc' = "poll"
    /\ UNCHANGED <<wakeup, pipe, tripped, signals, local, handlers, queued,
                   history>>

\* An iteration of the loop runs a callback.
RunCallback(s) ==
    /\ pc = "poll" /\ queued[s] > 0
    /\ queued' = [queued EXCEPT ![s] = @ - 1]
    /\ UNCHANGED <<pc, wakeup, pipe, tripped, signals, local, handlers, history>>

-----------------------------------------------------------------------------
(* The program, in callbacks and between runs *)

InProgram == pc \in {"poll", "out"}

AddSignalHandler(s) ==
    /\ InProgram /\ s \notin handlers
    /\ handlers' = handlers \union {s}
    /\ UNCHANGED <<pc, wakeup, pipe, tripped, signals, local, queued, history>>

\* A signal that cannot be caught: EINVAL, and without another handler the
\* wakeup descriptor is reset too.
AddUncatchable ==
    /\ InProgram
    /\ wakeup' = (wakeup /\ handlers # {})
    /\ UNCHANGED <<pc, pipe, tripped, signals, local, handlers, queued, history>>

\* Outside of a run nothing is removed.  Nothing is owed to a removed handler.
RemoveSignalHandler(s) ==
    /\ InProgram /\ s \in handlers
    /\ IF Listening
       THEN handlers' = handlers \ {s} /\ Settle({s})
       ELSE UNCHANGED <<handlers, owed, late, abandoned>>
    /\ UNCHANGED <<pc, wakeup, pipe, tripped, signals, local, queued, arrivals,
                   calls>>

\* Loop.close(): _shutdown_signals removes the handlers, which have to be
\* listened to for that, so they stay.
Close ==
    /\ pc = "out"
    /\ pc' = "closed"
    /\ queued' = None
    /\ UNCHANGED <<wakeup, pipe, tripped, signals, local, handlers, history>>

SignalsInit ==
    /\ pc = "out" /\ wakeup = FALSE
    /\ pipe = None /\ tripped = {} /\ signals = {}
    /\ data = None /\ sigs = {}
    /\ handlers = {} /\ queued = None
    /\ owed = {} /\ late = {} /\ abandoned = {}
    /\ arrivals = None /\ calls = None

SignalsNext ==
    \/ \E s \in Sigs :
        \/ Arrive(s) \/ HandleByte(s) \/ HandleRest(s) \/ RunCallback(s)
        \/ AddSignalHandler(s) \/ RemoveSignalHandler(s)
    \/ PythonRuns
    \/ SetupSignals \/ PauseSignals
    \/ ReadFromSelf \/ InvokeSignals \/ InvokeEnds
    \/ AddUncatchable \/ Close

SignalsSpec == SignalsInit /\ [][SignalsNext]_signalVars

-----------------------------------------------------------------------------
(* Properties *)

\* "This is needed so that libuv knows that it needs to wakeup on ^C": the
\* loop does not block while a signal that arrived in this run waits for its
\* callback to be queued or for its KeyboardInterrupt.  Whether Python has
\* seen it or not, it has a byte in the self-pipe, or others fill the pipe;
\* but for a run in which an add_signal_handler() that failed has reset the
\* wakeup descriptor: the loop is deaf for the rest of it, to ^C as well.
NothingMissed ==
    pc = "poll" /\ wakeup /\ owed # {} => Present(pipe) # {}

\* "this ensures that signals shouldn't be lost even if set_wakeup_fd()
\* couldn't write to the self-pipe" (_invoke_signals): a signal that arrived
\* in any run, or between runs, is remembered until its callback is queued,
\* unless a KeyboardInterrupt took it from _invoke_signals.
NothingLost ==
    owed \union late \subseteq
        tripped \union signals \union sigs \union Present(data)
            \union abandoned

\* A callback is queued for nothing but arrivals of its signal, at most
\* twice for each: for the byte, and for the set if the signal comes between
\* the last recv() and the copy of _signals.
NoPhantom ==
    \A s \in Sigs : calls[s] <= 2 * arrivals[s]

=============================================================================
