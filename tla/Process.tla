------------------------------ MODULE Process ------------------------------
(***************************************************************************)
(* A subprocess: UVProcessTransport (handles/process.pyx), the protocols    *)
(* of its pipes, and __subprocess_run (loop.pyx) that awaits it.            *)
(*                                                                          *)
(* The callbacks of the user's protocol are queued in Loop._ready; those    *)
(* that come before connection_made wait in _pending_calls and are          *)
(* replayed after it.  The transport of a pipe is reduced to what the       *)
(* process sees of it: Stream models it in full.                            *)
(***************************************************************************)
EXTENDS Naturals, Sequences, SequencesExt, FiniteSets

CONSTANTS
    MaxData,        \* chunks the child writes into one pipe
    Written,        \* the pipes it writes into
    Redirections    \* the choices of descriptors that are subprocess.PIPE

Fds == 0..2
NoFd == 3
Stdin == 0

ASSUME ProcessAssumption ==
    /\ MaxData \in Nat /\ Redirections \subseteq SUBSET Fds
    /\ Written \subseteq Fds \ {Stdin}

VARIABLES
    pipes,          \* the descriptors that are subprocess.PIPE
    start,          \* how UVProcessTransport.new() ended
    alive,          \* the child has not exited
    ends,           \* pipes whose other end is open somewhere
    sent,           \* chunks written into each pipe
    received,       \* chunks read from each pipe
    pipe,           \* state of each pipe's transport
    disconnected,   \* pipes whose protocol has .disconnected set
    gathered,       \* pipes whose waiter was seen by gather()
    stdioReady,     \* _stdio_ready
    pending,        \* _pending_calls
    finished,       \* _finished
    returncode,     \* _returncode is not None
    exitWaiters,    \* _exit_waiters is not empty
    create,         \* the waiter of __subprocess_run
    made,           \* _call_connection_made
    ready,          \* the handles of this process in Loop._ready
    todo,           \* how many of them the running batch has yet to run
    calls,          \* history: the calls of the user's protocol
    lateExit,       \* history: the exit was seen with _stdio_ready set
    closed          \* history: close() was called

childVars == <<alive, ends, sent>>
pipeVars == <<received, pipe, disconnected>>
finishVars == <<stdioReady, pending, finished>>
initVars == <<gathered, create, made>>
exitVars == <<returncode, exitWaiters, lateExit>>
vars == <<pipes, start, childVars, pipeVars, finishVars, initVars,
          exitVars, ready, todo, calls, closed>>

-----------------------------------------------------------------------------
(* Handles and calls *)

Handle(what, fd, n) == [what |-> what, fd |-> fd, n |-> n]

\* Handles of the loop that are not calls of the user's protocol.
PipeMade(f)  == Handle("PipeMade", f, 0)    \* pipe._call_connection_made
PipeEnds(f)  == Handle("PipeEnds", f, 0)    \* pipe._call_connection_lost
Gathers(f)   == Handle("Gathers", f, 0)     \* gather()'s callback
StdioInited  == Handle("StdioInited", NoFd, 0)
CallMade     == Handle("CallMade", NoFd, 0) \* _call_connection_made
CreateWakes  == Handle("CreateWakes", NoFd, 0)

\* Calls of the user's protocol.
ConnectionMade == Handle("connection_made", NoFd, 0)
Data(f, n)     == Handle("pipe_data_received", f, n)
PipeLost(f)    == Handle("pipe_connection_lost", f, 0)
Exited         == Handle("process_exited", NoFd, 0)
ConnectionLost == Handle("connection_lost", NoFd, 0)

ProtocolCalls ==
    {Exited, ConnectionLost} \union {PipeLost(f) : f \in Fds}
        \union {Data(f, n) : f \in Fds, n \in 1..MaxData}

Handles ==
    ProtocolCalls \union {StdioInited, CallMade, CreateWakes}
        \union {PipeMade(f) : f \in Fds} \union {PipeEnds(f) : f \in Fds}
        \union {Gathers(f) : f \in Fds}

\* A handle for each pipe of S, in the order stdin, stdout, stderr.
ForPipes(S, what) ==
    LET One(f) == IF f \in S THEN <<Handle(what, f, 0)>> ELSE <<>>
    IN  One(0) \o One(1) \o One(2)

Called(c) == \E i \in 1..Len(calls) : calls[i] = c

-----------------------------------------------------------------------------
(* Starting: UVProcessTransport.new() *)

\* new() raises if something fails with pipes open before uv_spawn() is tried
\* ("early": another descriptor, or the race with another loop), if uv_spawn()
\* fails, and if preexec_fn raised in the child, which was forked.
Starts == {"spawned", "early", "refused", "preexec"}
Spawned == start = "spawned"
Forked == start \in {"spawned", "preexec"}

\* The child's ends of the pipes: this process closes its copies once uv_spawn()
\* was tried (_fds_to_close), and if it was not they stay open.
ChildsEnds == IF start = "refused" THEN {} ELSE pipes

\* The pipes are opened before uv_spawn() and live on if new() raises; the
\* handle of the process does not.
Init ==
    /\ pipes \in Redirections
    /\ start \in Starts
    /\ alive = Forked
    /\ ends = ChildsEnds
    /\ sent = [f \in pipes |-> 0]
    /\ received = [f \in pipes |-> 0]
    /\ pipe = [f \in pipes |-> "init"]
    /\ disconnected = {}
    /\ gathered = {}
    /\ stdioReady = (Spawned /\ pipes = {})
    /\ pending = <<>>
    /\ finished = FALSE
    /\ returncode = FALSE
    /\ exitWaiters = FALSE
    /\ create = IF Spawned THEN "waiting" ELSE "failed"
    /\ made = "no"
    /\ ready = IF Spawned /\ pipes = {} THEN <<CallMade>>
               ELSE ForPipes(pipes, "PipeMade")
    /\ todo = 0
    /\ calls = <<>>
    /\ lateExit = FALSE
    /\ closed = FALSE

-----------------------------------------------------------------------------
(* The child, and whoever inherited its pipes *)

ChildWrites(f) ==
    /\ Forked /\ f \in ends \intersect Written /\ sent[f] < MaxData
    /\ sent' = [sent EXCEPT ![f] = @ + 1]
    /\ UNCHANGED <<pipes, start, alive, ends, pipeVars, finishVars,
                   initVars, exitVars, ready, todo, calls, closed>>

ChildCloses(f) ==
    /\ Forked /\ f \in ends
    /\ ends' = ends \ {f}
    /\ UNCHANGED <<pipes, start, alive, sent, pipeVars, finishVars,
                   initVars, exitVars, ready, todo, calls, closed>>

ChildExits ==
    /\ alive
    /\ alive' = FALSE
    /\ UNCHANGED <<pipes, start, ends, sent, pipeVars, finishVars,
                   initVars, exitVars, ready, todo, calls, closed>>

-----------------------------------------------------------------------------
(* Finishing *)

\* The test of _try_finish() with the return code rc and the pipes in dis
\* disconnected.
TryFinish_Again(rc, dis) == rc /\ pipes \subseteq dis    \* mutant: no _finished
TryFinish_AnyPipe(rc, dis) ==      \* mutant: one pipe is enough
    rc /\ ~finished /\ (pipes = {} \/ pipes \cap dis # {})
TryFinish(rc, dis) == rc /\ ~finished /\ pipes \subseteq dis

\* The calls are scheduled, or wait for connection_made.
Deliver(s) ==
    IF stdioReady
    THEN ready' = ready \o s /\ UNCHANGED pending
    ELSE pending' = pending \o s /\ UNCHANGED ready

\* c, and connection_lost if _try_finish() finds that the process is finished.
AndFinish(c, rc, dis) ==
    /\ Deliver(IF TryFinish(rc, dis) THEN <<c, ConnectionLost>> ELSE <<c>>)
    /\ finished' = (finished \/ TryFinish(rc, dis))

\* The replay of _pending_calls: every pipe_connection_lost in it calls
\* _try_finish(), so connection_lost is scheduled behind the first of them.
IsPipeLost(c) == \E f \in Fds : c = PipeLost(f)
FirstLost == SelectInSeq(pending, IsPipeLost)
FinishesInReplay_No == FALSE       \* mutant: the replay only schedules
FinishesInReplay == FirstLost # 0 /\ TryFinish(returncode, disconnected)
Replayed ==
    IF FinishesInReplay
    THEN SubSeq(pending, 1, FirstLost) \o <<ConnectionLost>>
            \o SubSeq(pending, FirstLost + 1, Len(pending))
    ELSE pending

-----------------------------------------------------------------------------
(* Callbacks of libuv: between two batches of handles *)

Polling == todo = 0 /\ made # "in"

\* ReadSubprocessPipeProto.data_received, _pipe_data_received
ReadData(f) ==
    /\ Polling
    /\ f \in pipes
    /\ pipe[f] = "open" /\ received[f] < sent[f]
    /\ received' = [received EXCEPT ![f] = @ + 1]
    /\ Deliver(<<Data(f, received[f] + 1)>>)
    /\ UNCHANGED <<pipes, start, childVars, pipe, disconnected, stdioReady,
                   finished, initVars, exitVars, todo, calls, closed>>

\* The end of a pipe, or a write that fails because there is no reader: the
\* pipe's transport is closed or aborted.
ReadEof(f) ==
    /\ Polling
    /\ f \in pipes \ ends
    /\ pipe[f] = "open" /\ received[f] = sent[f]
    /\ pipe' = [pipe EXCEPT ![f] = "closing"]
    /\ ready' = Append(ready, PipeEnds(f))
    /\ UNCHANGED <<pipes, start, childVars, received, disconnected,
                   finishVars, initVars, exitVars, todo, calls, closed>>

\* What was written to stdin before its close() is sent, or cannot be.
Flushed ==
    /\ Polling
    /\ Stdin \in pipes /\ pipe[Stdin] = "flushing"
    /\ pipe' = [pipe EXCEPT ![Stdin] = "closing"]
    /\ ready' = Append(ready, PipeEnds(Stdin))
    /\ UNCHANGED <<pipes, start, childVars, received, disconnected,
                   finishVars, initVars, exitVars, todo, calls, closed>>

\* UVProcessTransport._on_exit
OnExit ==
    /\ Polling
    /\ Spawned /\ ~alive /\ ~returncode
    /\ returncode' = TRUE
    /\ AndFinish(Exited, TRUE, disconnected)
    /\ exitWaiters' = FALSE
    /\ lateExit' = stdioReady
    /\ UNCHANGED <<pipes, start, childVars, pipeVars, stdioReady, initVars,
                   todo, calls, closed>>

-----------------------------------------------------------------------------
(* Handles of the loop *)

BatchStarts ==
    /\ todo = 0 /\ ready # <<>>
    /\ todo' = Len(ready)
    /\ UNCHANGED <<pipes, start, childVars, pipeVars, finishVars, initVars,
                   exitVars, ready, calls, closed>>

\* The first handle of the batch; more is what it appends to _ready.
Runs(h, more) ==
    /\ todo > 0 /\ made # "in"
    /\ ready # <<>> /\ Head(ready) = h
    /\ todo' = todo - 1
    /\ ready' = Tail(ready) \o more

\* UVBaseTransport._call_connection_made of a pipe: reading starts unless the
\* pipe is closing; its waiter is done in any case.
RunPipeMade(f) ==
    /\ Runs(PipeMade(f), IF Spawned THEN <<Gathers(f)>> ELSE <<>>)
    /\ pipe' = [pipe EXCEPT ![f] = IF @ = "init" THEN "open" ELSE @]
    /\ UNCHANGED <<pipes, start, childVars, received, disconnected,
                   finishVars, initVars, exitVars, calls, closed>>

\* gather()'s callback on one waiter; the last one completes the future.
RunGathers(f) ==
    /\ gathered' = gathered \union {f}
    /\ Runs(Gathers(f), IF gathered' = pipes THEN <<StdioInited>> ELSE <<>>)
    /\ UNCHANGED <<pipes, start, childVars, pipeVars, finishVars, create,
                   made, exitVars, calls, closed>>

\* __stdio_inited
RunStdioInited ==
    /\ Runs(StdioInited, <<CallMade>>)
    /\ UNCHANGED <<pipes, start, childVars, pipeVars, finishVars, initVars,
                   exitVars, calls, closed>>

\* _call_connection_made up to the call of the protocol.
RunCallMade ==
    /\ Runs(CallMade, <<>>)
    /\ made' = "in"
    /\ calls' = Append(calls, ConnectionMade)
    /\ UNCHANGED <<pipes, start, childVars, pipeVars, finishVars, gathered,
                   create, exitVars, closed>>

\* The rest of it: the waiter, _stdio_ready and the replay.
StdioIsReady(more) ==
    /\ stdioReady' = TRUE
    /\ pending' = <<>>
    /\ ready' = ready \o more \o Replayed
    /\ finished' = (finished \/ FinishesInReplay)

MadeReturns ==
    /\ made = "in"
    /\ made' = "returned"
    /\ create' = IF create = "waiting" THEN "done" ELSE create
    /\ StdioIsReady(<<>>)
    /\ UNCHANGED <<pipes, start, childVars, pipeVars, gathered, exitVars,
                   todo, calls, closed>>

\* connection_made raised an Exception.  If nobody waits any more it is raised
\* again, and neither _stdio_ready nor the replay is reached.
MadeRaises ==
    /\ made = "in"
    /\ IF create = "waiting"
       THEN /\ made' = "raised" /\ create' = "failed"
            /\ StdioIsReady(<<CreateWakes>>)
       ELSE /\ made' = "escaped"
            /\ UNCHANGED <<create, ready, finishVars>>
    /\ UNCHANGED <<pipes, start, childVars, pipeVars, gathered, exitVars,
                   todo, calls, closed>>

\* connection_made raised KeyboardInterrupt or SystemExit.
MadeInterrupted ==
    /\ made = "in"
    /\ made' = "escaped"
    /\ UNCHANGED <<pipes, start, childVars, pipeVars, finishVars, gathered,
                   create, exitVars, ready, todo, calls, closed>>

LostIsScheduled_Always == TRUE     \* mutant: without the test of _stdio_ready
LostIsScheduled == stdioReady

\* connection_lost of a pipe's protocol, and _pipe_connection_lost, which
\* tries to finish only if it schedules the call.
RunPipeEnds(f) ==
    LET lost == <<PipeLost(f)>>
        done == LostIsScheduled /\ TryFinish(returncode, disconnected \union {f})
    IN  /\ Runs(PipeEnds(f),
                IF ~LostIsScheduled THEN <<>>
                ELSE IF done THEN lost \o <<ConnectionLost>> ELSE lost)
        /\ pending' = IF LostIsScheduled THEN pending ELSE pending \o lost
        /\ finished' = (finished \/ done)
        /\ pipe' = [pipe EXCEPT ![f] = "lost"]
        /\ disconnected' = disconnected \union {f}
        /\ UNCHANGED <<pipes, start, childVars, received, stdioReady,
                       initVars, exitVars, calls, closed>>

\* A call of the user's protocol.
RunCall(c) ==
    /\ Runs(c, <<>>)
    /\ calls' = Append(calls, c)
    /\ UNCHANGED <<pipes, start, childVars, pipeVars, finishVars, initVars,
                   exitVars, closed>>

-----------------------------------------------------------------------------
(* User code, and __subprocess_run *)

\* What close() leaves of the child, and the pipes that it closes.
AfterKill_Spared == alive          \* mutant: the child is not killed
AfterKill == alive /\ returncode
Stops_NotStdin ==                  \* mutant: stdin is forgotten
    {f \in pipes \ {Stdin} : pipe[f] \in {"init", "open"}}
Stops == {f \in pipes : pipe[f] \in {"init", "open"}}

\* close(): a child that has not been seen to exit is killed, every pipe is
\* closed; data written to stdin is sent first.
Closing(buffered, more) ==
    /\ alive' = AfterKill
    /\ pipe' = [f \in pipes |->
                   IF f \notin Stops THEN pipe[f]
                   ELSE IF f \in buffered THEN "flushing" ELSE "closing"]
    /\ ready' = more \o ForPipes(Stops \ buffered, "PipeEnds")
    /\ closed' = TRUE

Buffered == {f \in pipes \cap {Stdin} : made # "no" /\ pipe[f] = "open"}

Close ==
    /\ made # "no"
    /\ \E buffered \in SUBSET Buffered : Closing(buffered, ready)
    /\ UNCHANGED <<pipes, start, ends, sent, received, disconnected,
                   finishVars, initVars, exitVars, todo, calls>>

\* get_pipe_transport(f).close()
ClosePipe(f) ==
    /\ made # "no"
    /\ f \in pipes /\ pipe[f] = "open"
    /\ \/ /\ pipe' = [pipe EXCEPT ![f] = "closing"]
          /\ ready' = Append(ready, PipeEnds(f))
       \/ /\ f \in Buffered
          /\ pipe' = [pipe EXCEPT ![f] = "flushing"]
          /\ UNCHANGED ready
    /\ UNCHANGED <<pipes, start, childVars, received, disconnected,
                   finishVars, initVars, exitVars, todo, calls, closed>>

\* _wait()
Wait ==
    /\ made # "no" /\ ~returncode
    /\ exitWaiters' = TRUE
    /\ UNCHANGED <<pipes, start, childVars, pipeVars, finishVars, initVars,
                   returncode, lateExit, ready, todo, calls, closed>>

\* The task in __subprocess_run is cancelled at its `await waiter`.
CancelCreate ==
    /\ create = "waiting"
    /\ create' = "cancelled"
    /\ ready' = Append(ready, CreateWakes)
    /\ UNCHANGED <<pipes, start, childVars, pipeVars, finishVars, gathered,
                   made, exitVars, todo, calls, closed>>

\* The task resumes with an exception and calls proc.close().
RunCreateWakes ==
    /\ todo > 0 /\ made # "in"
    /\ ready # <<>> /\ Head(ready) = CreateWakes
    /\ todo' = todo - 1
    /\ \E buffered \in SUBSET Buffered : Closing(buffered, Tail(ready))
    /\ UNCHANGED <<pipes, start, ends, sent, received, disconnected,
                   finishVars, initVars, exitVars, calls>>

-----------------------------------------------------------------------------

RunHandle ==
    \/ \E f \in pipes : RunPipeMade(f) \/ RunGathers(f) \/ RunPipeEnds(f)
    \/ RunStdioInited \/ RunCallMade \/ RunCreateWakes
    \/ \E c \in ProtocolCalls : RunCall(c)

Child == ChildExits \/ \E f \in pipes : ChildWrites(f) \/ ChildCloses(f)

User == Close \/ Wait \/ CancelCreate \/ \E f \in pipes : ClosePipe(f)

Next ==
    \/ Child
    \/ OnExit \/ Flushed
    \/ \E f \in pipes : ReadData(f) \/ ReadEof(f)
    \/ BatchStarts \/ RunHandle
    \/ MadeReturns \/ MadeRaises \/ MadeInterrupted
    \/ User

Spec == Init /\ [][Next]_vars

\* Each iteration of the loop runs the batch and polls; callbacks return; what
\* was written to stdin is read or refused.  The child does what it likes.
Fairness ==
    /\ WF_vars(BatchStarts) /\ WF_vars(RunHandle)
    /\ WF_vars(MadeReturns \/ MadeRaises \/ MadeInterrupted)
    /\ WF_vars(OnExit) /\ WF_vars(Flushed)
    /\ \A f \in Fds : WF_vars(f \in pipes /\ (ReadData(f) \/ ReadEof(f)))

FairSpec == Spec /\ Fairness

-----------------------------------------------------------------------------
(* Properties *)

\* Whether stdio is ready or not when things happen (_pipe_data_received,
\* _pipe_connection_lost), the calls about one pipe, made or still to be made,
\* are all its data in order and then its loss: the replay neither loses nor
\* overtakes a call.
CallsAbout(f) == {Data(f, n) : n \in 1..MaxData} \union {PipeLost(f)}
Before(c) ==
    {Data(c.fd, n) : n \in 1..(IF c = PipeLost(c.fd) THEN MaxData ELSE c.n - 1)}
CallsInOrder ==
    LET all == calls \o ready \o pending
    IN  \A f \in pipes :
           /\ {all[i] : i \in 1..Len(all)} \intersect CallsAbout(f) =
                {Data(f, n) : n \in 1..received[f]}
                    \union {PipeLost(g) : g \in disconnected \intersect {f}}
           /\ \A i, j \in 1..Len(all) :
                i < j /\ {all[i], all[j]} \subseteq CallsAbout(f) =>
                    all[i] \in Before(all[j])

\* The protocol is told everything once, and nothing before connection_made:
\* events during start-up wait in _pending_calls.
ToldOnce ==
    /\ IsInjective(calls)
    /\ calls # <<>> => Head(calls) = ConnectionMade

\* connection_lost comes after process_exited and the loss of every pipe ...
LostIsLast ==
    Called(ConnectionLost) =>
        Called(Exited) /\ \A f \in pipes : Called(PipeLost(f))

\* ... if the exit was seen after connection_made, or there is at most one pipe.
LostIsLastOnceReady == lateExit \/ Cardinality(pipes) < 2 => LostIsLast

Started == made \in {"returned", "raised"}

\* When the child is gone and its pipes are closed, connection_lost is called,
\* whatever was seen before connection_made.
LossIsReported ==
    (Spawned /\ ~alive /\ ends = {} /\ Started) ~> Called(ConnectionLost)

\* close() ends in connection_lost, with the return code known and nobody left
\* in _wait(), even if the pipes are inherited by processes that live on.
CloseEnds ==
    (closed /\ Started) ~> Called(ConnectionLost) /\ returncode /\ ~exitWaiters

\* A create_subprocess that is cancelled, or fails after new(), leaves nothing
\* behind: the child is reaped, and once the child's ends are closed the
\* transports of the pipes come to an end; that they do after a failed
\* uv_spawn() and a failed preexec_fn as well.  What new() does leave behind
\* is left out here: the child whose preexec_fn raised, which nobody reaps,
\* and the pipes of a start that failed early, with both their ends.
NothingLeftBehind ==
    /\ (Spawned /\ create \in {"cancelled", "failed"}) ~> returncode
    /\ (start # "early" /\ ends = {}) ~> disconnected = pipes
=============================================================================
