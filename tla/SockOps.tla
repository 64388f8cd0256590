------------------------------ MODULE SockOps ------------------------------
(***************************************************************************)
(* The operations of Loop on a socket that no transport owns: add_reader,   *)
(* remove_reader, sock_recv, sock_recv_into, sock_accept, sock_sendall and  *)
(* sock_connect (loop.pyx), over the UVPoll of the socket's descriptor      *)
(* (handles/poll.pyx).                                                      *)
(*                                                                          *)
(* An operation is named by its handle: a Recv is any of the three that     *)
(* read, a Callback is what add_reader() was given.  Reading and writing    *)
(* are the directions "in" and "out" of the same definitions.               *)
(***************************************************************************)
EXTENDS Naturals, FiniteSets

CONSTANTS
    Recvs, Sends, Connects, Callbacks,  \* the handles, by operation
    NoOp,
    Length,         \* bytes of a sock_sendall
    MaxIn,          \* what the peer may have sent and nobody has read
    MaxRoom,        \* size of the socket's send buffer
    ErrorsPersist   \* an error the socket reported leaves it unusable (TCP)

Ops == Recvs \union Sends \union Connects \union Callbacks
Dirs == {"in", "out"}
Dir(o) == IF o \in Sends \union Connects THEN "out" ELSE "in"

ASSUME SockOpsAssumption ==
    /\ NoOp \notin Ops
    /\ Sends \intersect Connects = {}
    /\ (Sends \union Connects) \intersect (Recvs \union Callbacks) = {}
    /\ Recvs \intersect Callbacks = {}
    /\ Length \in Nat \ {0} /\ MaxIn \in Nat /\ MaxRoom \in Nat \ {0}
    /\ ErrorsPersist \in BOOLEAN

VARIABLES
    io,         \* the descriptor in the loop, see NoPoll
    event,      \* the __on_uvpoll_event() that runs, if one does
    task,       \* the coroutine of each operation
    fut,        \* its _SyncSocketReaderFuture or _SyncSocketWriterFuture
    left,       \* bytes each sock_sendall has yet to send
    closed,     \* the program called sock.close()
    loopClosed, \* Loop._closed
    inbox, room, err,   \* the kernel's socket: data, free space, SO_ERROR
    disciplined \* the program uses a direction for one operation at a time

kernel == <<inbox, room, err>>
vars == <<io, event, task, fut, left, closed, loopClosed, kernel, disciplined>>

-----------------------------------------------------------------------------
(* The UVPoll of the descriptor *)

\* there, alive: _polls[fd] exists and is not closed; handle: reading_handle
\* and writing_handle; mask: what libuv polls for; ref: the directions of
\* _fd_to_reader_fileobj and _fd_to_writer_fileobj that hold the socket;
\* own: the poll of the running event is still this one.
NoPoll == [there |-> FALSE, alive |-> FALSE, own |-> FALSE, mask |-> {},
           handle |-> [d \in Dirs |-> NoOp], ref |-> {}]

Watched(i) == {d \in Dirs : i.handle[d] # NoOp}

\* start_reading() and start_writing() raise on a poll that is closed.
CanAdd(i) == i.there => i.alive

NewPoll(i) ==
    IF i.there THEN i ELSE [i EXCEPT !.there = TRUE, !.alive = TRUE]

\* Mutants of Add: no socket_inc_io_ref(); only a new poll is started.
Add_NoRef(i, o) ==
    LET p == NewPoll(i)
        d == Dir(o)
    IN  [p EXCEPT !.handle[d] = o, !.mask = Watched(p) \union {d}]
Add_StartOnce(i, o) ==
    LET p == NewPoll(i)
        d == Dir(o)
    IN  [p EXCEPT !.handle[d] = o, !.mask = IF i.there THEN @ ELSE {d},
                  !.ref = @ \union {d}]

\* _add_reader, _add_writer
Add(i, o) ==
    LET p == NewPoll(i)
        d == Dir(o)
    IN  [p EXCEPT !.handle[d] = o,
                  !.mask = IF p.handle[d] = NoOp THEN Watched(p) \union {d}
                           ELSE @,
                  !.ref = @ \union {d}]

\* Mutant of StopDir: uv_poll_stop() whatever the other direction does.
StopDir_StopBoth(i, d) ==
    IF i.handle[d] = NoOp THEN i
    ELSE [i EXCEPT !.handle[d] = NoOp, !.mask = {}]

\* stop_reading, stop_writing
StopDir(i, d) ==
    IF i.handle[d] = NoOp THEN i
    ELSE [i EXCEPT !.handle[d] = NoOp, !.mask = Watched(i) \ {d}]

Discard(i) ==
    IF Watched(i) # {} THEN i ELSE [NoPoll EXCEPT !.ref = i.ref]

\* _remove_reader, _remove_writer
Remove(i, d) ==
    LET j == [i EXCEPT !.ref = @ \ {d}]
    IN  IF loopClosed \/ ~i.there THEN j ELSE Discard(StopDir(j, d))

\* socket._io_refs: registrations, and the coroutines that wrap themselves
\* in socket_inc_io_ref() and socket_dec_io_ref().
InFlight(o) == task[o] \in {"waiting", "cancelling"}
Held == io.ref # {} \/ \E o \in Sends \union Connects : InFlight(o)

\* sock.fileno() # -1: socket.close() waits for the io references.
Open == ~closed \/ Held

-----------------------------------------------------------------------------
(* Starting an operation *)

Idle == event.phase = "none" /\ ~loopClosed
\* Where code of the program may run.
InUser == event.phase \in {"none", "user"}

\* What a careful program waits for before it uses a direction again.
Allowed(o) ==
    disciplined =>
        \A p \in Ops \ {o} : Dir(p) = Dir(o) => task[p] # "waiting"

Starts(o) == task[o] = "idle" /\ Open /\ Allowed(o)

\* The future of o and its registration; RuntimeError if the poll is dead.
Register(o) ==
    IF CanAdd(io)
    THEN /\ io' = Add(io, o)
         /\ task' = [task EXCEPT ![o] = "waiting"]
         /\ fut' = [fut EXCEPT ![o] = "pending"]
    ELSE /\ task' = [task EXCEPT ![o] = "back"]
         /\ UNCHANGED <<io, fut>>

StartRecv(o) ==
    /\ Idle /\ Starts(o)
    /\ Register(o)
    /\ UNCHANGED <<event, left, closed, loopClosed, kernel, disciplined>>

\* What send() accepts of n bytes.
Accepted(n) == IF n < room THEN n ELSE room

\* An error is raised once; a stream socket then fails in other ways.
Consume == err' = (err /\ ErrorsPersist)

\* sock_sendall: send() at once, and register for the rest.
StartSend(o) ==
    /\ Idle /\ Starts(o)
    /\ \/ /\ err \/ Accepted(Length) = Length
          /\ task' = [task EXCEPT ![o] = "back"]
          /\ room' = IF err THEN room ELSE room - Length
          /\ Consume
          /\ UNCHANGED <<io, fut, left>>
       \/ /\ ~err /\ Accepted(Length) < Length
          /\ left' = [left EXCEPT ![o] = @ - Accepted(Length)]
          /\ room' = room - Accepted(Length)
          /\ Register(o)
          /\ UNCHANGED err
    /\ UNCHANGED <<event, closed, loopClosed, inbox, disciplined>>

\* sock_connect: connect() succeeds or fails at once, or is in progress.
StartConnect(o) ==
    /\ Idle /\ Starts(o)
    /\ \/ task' = [task EXCEPT ![o] = "back"] /\ UNCHANGED <<io, fut>>
       \/ Register(o)
    /\ UNCHANGED <<event, left, closed, loopClosed, kernel, disciplined>>

\* add_reader(); a callback has no future, and is "waiting" until removed.
AddReader(o) ==
    /\ InUser /\ ~loopClosed /\ Starts(o)
    /\ CanAdd(io)
    /\ io' = Add(io, o)
    /\ task' = [task EXCEPT ![o] = "waiting"]
    /\ UNCHANGED <<event, fut, left, closed, loopClosed, kernel, disciplined>>

-----------------------------------------------------------------------------
(* Ending one from the outside *)

\* Mutant of Cancel: the future does not unregister itself.
Cancel_KeepsHandle(o) ==
    /\ InUser /\ task[o] = "waiting"
    /\ task' = [task EXCEPT ![o] = "cancelling"]
    /\ fut' = [fut EXCEPT ![o] = IF @ = "pending" THEN "cancelled" ELSE @]
    /\ UNCHANGED <<io, event, left, closed, loopClosed, kernel, disciplined>>

\* The task that awaits o is cancelled: cancel() of the future unregisters
\* whatever its direction has registered, even when the future is done.
Cancel(o) ==
    /\ InUser /\ task[o] = "waiting"
    /\ task' = [task EXCEPT ![o] = "cancelling"]
    /\ fut' = [fut EXCEPT ![o] = IF @ = "pending" THEN "cancelled" ELSE @]
    /\ io' = IF Open THEN Remove(io, Dir(o)) ELSE io
    /\ UNCHANGED <<event, left, closed, loopClosed, kernel, disciplined>>

\* remove_reader() or remove_writer() by the program.
RemoveByUser(d) ==
    /\ InUser /\ Open
    /\ disciplined =>
        \A o \in Ops \ Callbacks : Dir(o) = d => task[o] # "waiting"
    /\ d \in io.ref \/ d \in Watched(io)
    /\ io' = Remove(io, d)
    /\ task' = [o \in Ops |->
         IF o \in Callbacks /\ task[o] = "waiting" /\ d = "in"
         THEN "back" ELSE task[o]]
    /\ UNCHANGED <<event, fut, left, closed, loopClosed, kernel, disciplined>>

CloseSocket ==
    /\ InUser /\ ~closed
    /\ closed' = TRUE
    /\ UNCHANGED <<io, event, task, fut, left, loopClosed, kernel, disciplined>>

\* Loop.close() closes the polls and releases the sockets.
CloseLoop ==
    /\ Idle
    /\ loopClosed' = TRUE
    /\ io' = NoPoll
    /\ UNCHANGED <<event, task, fut, left, closed, kernel, disciplined>>

\* The task runs again and leaves the coroutine.
Wake(o) ==
    /\ Idle /\ InFlight(o) /\ fut[o] # "pending"
    /\ task' = [task EXCEPT ![o] = "back"]
    /\ UNCHANGED <<io, event, fut, left, closed, loopClosed, kernel,
                   disciplined>>

-----------------------------------------------------------------------------
(* __on_uvpoll_event *)

NoEvent == [phase |-> "none", bits |-> {}, error |-> FALSE]

ReadyBits ==
    (IF inbox > 0 \/ err THEN {"in"} ELSE {})
        \union (IF room > 0 \/ err THEN {"out"} ELSE {})

\* Level-triggered: an event reports all that is ready, and sometimes more.
Event(bits) ==
    /\ Idle /\ bits # {}
    /\ ReadyBits \intersect io.mask \subseteq bits /\ bits \subseteq io.mask
    /\ event' = [phase |-> "in", bits |-> bits, error |-> FALSE]
    /\ io' = [io EXCEPT !.own = TRUE]
    /\ UNCHANGED <<task, fut, left, closed, loopClosed, kernel, disciplined>>

\* EPOLLERR: libuv stops polling and reports UV_EBADF.
ErrorEvent ==
    /\ Idle /\ err /\ io.mask # {}
    /\ event' = [phase |-> "in", bits |-> Dirs, error |-> TRUE]
    /\ io' = [io EXCEPT !.own = TRUE]
    /\ UNCHANGED <<task, fut, left, closed, loopClosed, kernel, disciplined>>

\* The handle of d that the event's poll has to run.
Current(d) ==
    IF event.phase = d /\ d \in event.bits /\ io.own
    THEN io.handle[d] ELSE NoOp

Following(d) == IF d = "in" THEN "out" ELSE "end"

\* _fatal_error() clears the handle it has run.
Forget(i, d) ==
    IF event.error /\ i.own THEN [i EXCEPT !.handle[d] = NoOp] ELSE i

\* The handle of d has run: i is what it made of io.
Ran(d, i) ==
    /\ io' = Forget(i, d)
    /\ event' = [event EXCEPT !.phase = Following(d)]
    /\ UNCHANGED <<closed, loopClosed, disciplined>>

Skip(d) ==
    /\ event.phase = d /\ Current(d) = NoOp
    /\ Ran(d, io)
    /\ UNCHANGED <<task, fut, left, kernel>>

SetResult(o) == fut' = [fut EXCEPT ![o] = "done"]

\* _sock_recv, _sock_recv_into, _sock_accept
RunRecv(o) ==
    /\ Current("in") = o
    /\ \/ /\ inbox > 0 \/ err
          /\ inbox' = IF inbox > 0 THEN inbox - 1 ELSE inbox
          /\ err' = IF inbox > 0 THEN err ELSE err /\ ErrorsPersist
          /\ SetResult(o)
          /\ Ran("in", Remove(io, "in"))
       \/ /\ inbox = 0 /\ ~err      \* BlockingIOError: it will be called again
          /\ Ran("in", io)
          /\ UNCHANGED <<fut, inbox, err>>
    /\ UNCHANGED <<task, left, room>>

\* _sock_sendall: what is left is a new handle, if need be of a new poll.
RunSend(o) ==
    /\ Current("out") = o
    /\ \/ /\ err \/ Accepted(left[o]) = left[o]
          /\ room' = IF err THEN room ELSE room - left[o]
          /\ Consume
          /\ SetResult(o)
          /\ Ran("out", Remove(io, "out"))
          /\ UNCHANGED left
       \/ /\ ~err /\ room = 0       \* BlockingIOError: try next time
          /\ Ran("out", io)
          /\ UNCHANGED <<left, fut, room, err>>
       \/ /\ ~err /\ room > 0 /\ room < left[o]
          /\ left' = [left EXCEPT ![o] = @ - room]
          /\ room' = 0
          /\ Ran("out", Add(Remove(io, "out"), o))
          /\ UNCHANGED <<fut, err>>
    /\ UNCHANGED <<task, inbox>>

\* _sock_connect_cb: SO_ERROR tells whether the connection was made.
RunConnect(o) ==
    /\ Current("out") = o
    /\ Consume
    /\ SetResult(o)
    /\ Ran("out", Remove(io, "out"))
    /\ UNCHANGED <<task, left, inbox, room>>

\* A callback of add_reader() is code of the program, which may read.
RunCallback(o) ==
    /\ Current("in") = o
    /\ event' = [event EXCEPT !.phase = "user"]
    /\ inbox' \in {inbox, 0}
    /\ UNCHANGED <<io, task, fut, left, closed, loopClosed, room, err,
                   disciplined>>

CallbackReturns ==
    /\ event.phase = "user"
    /\ Ran("in", io)
    /\ UNCHANGED <<task, fut, left, kernel>>

\* After _fatal_error() the poll is closed, and still in _polls.
EventEnds ==
    /\ event.phase = "end"
    /\ event' = NoEvent
    /\ io' = LET i == [io EXCEPT !.own = FALSE]
             IN  IF event.error /\ io.own
                 THEN [NoPoll EXCEPT !.there = TRUE, !.ref = i.ref] ELSE i
    /\ UNCHANGED <<task, fut, left, closed, loopClosed, kernel, disciplined>>

-----------------------------------------------------------------------------
(* The peer and the specification *)

PeerSends ==
    /\ inbox < MaxIn /\ ~err
    /\ inbox' = inbox + 1
    /\ UNCHANGED <<io, event, task, fut, left, closed, loopClosed, room, err,
                   disciplined>>

PeerReads ==
    /\ room < MaxRoom
    /\ room' = MaxRoom
    /\ UNCHANGED <<io, event, task, fut, left, closed, loopClosed, inbox, err,
                   disciplined>>

Breaks ==
    /\ ~err
    /\ err' = TRUE
    /\ UNCHANGED <<io, event, task, fut, left, closed, loopClosed, inbox, room,
                   disciplined>>

Init ==
    /\ io = NoPoll /\ event = NoEvent
    /\ task = [o \in Ops |-> "idle"]
    /\ fut = [o \in Ops |-> "none"]
    /\ left = [o \in Sends |-> Length]
    /\ closed = FALSE /\ loopClosed = FALSE
    /\ inbox = 0 /\ room = MaxRoom /\ err = FALSE
    /\ disciplined \in BOOLEAN

Dispatch ==
    \/ \E o \in Recvs : RunRecv(o)
    \/ \E o \in Sends : RunSend(o)
    \/ \E o \in Connects : RunConnect(o)
    \/ \E o \in Callbacks : RunCallback(o)
    \/ \E d \in Dirs : Skip(d)
    \/ CallbackReturns
    \/ EventEnds

Program ==
    \/ \E o \in Recvs : StartRecv(o)
    \/ \E o \in Sends : StartSend(o)
    \/ \E o \in Connects : StartConnect(o)
    \/ \E o \in Callbacks : AddReader(o)
    \/ \E o \in Ops \ Callbacks : Cancel(o) \/ Wake(o)
    \/ \E d \in Dirs : RemoveByUser(d)
    \/ CloseSocket
    \/ CloseLoop

Polled == \E bits \in SUBSET Dirs : Event(bits)

Next ==
    \/ Program \/ Dispatch \/ Polled \/ ErrorEvent
    \/ PeerSends \/ PeerReads \/ Breaks

Spec == Init /\ [][Next]_vars

\* The loop polls again and runs what it has fetched; the peer reads.  An
\* iteration of the loop runs what was queued before it (HandleRuns of
\* LoopCore), so a task steps however many events come between.
FairSpec ==
    /\ Spec
    /\ WF_vars(Dispatch) /\ WF_vars(Polled \/ ErrorEvent) /\ WF_vars(PeerReads)
    /\ \A o \in Ops \ Callbacks : SF_vars(Wake(o))

-----------------------------------------------------------------------------
(* Properties *)

\* A future that is awaited is watched over: "No need to re-add the reader,
\* let's just wait until the poll handler calls this callback again" (the
\* BlockingIOError path of _sock_recv).  Its handle is the one of an open
\* poll that libuv polls in its direction, as long as the program uses a
\* direction for one operation at a time.  Cancelling one operation and
\* starting the next at once is such a use (test_sock_cancel_add_reader_race).
StillWaiting ==
    disciplined /\ ~loopClosed =>
        \A o \in Ops \ Callbacks : fut[o] = "pending" =>
            /\ io.alive /\ io.handle[Dir(o)] = o
            /\ event.error \/ Dir(o) \in io.mask

\* The poll never calls an operation that is over: the checks of debug
\* builds in _sock_recv, _sock_sendall and _sock_connect_cb ("Shouldn't
\* happen with _SyncSocketReaderFuture"), whatever the program does.
NoStaleHandle ==
    \A d \in Dirs : LET o == io.handle[d] IN
        o \in Ops \ Callbacks => fut[o] = "pending" /\ InFlight(o)

\* libuv polls a descriptor only while its socket is open: close() by the
\* program waits for every registration ...
PolledIsOpen == io.alive /\ io.mask # {} => Open

\* ... and nothing else keeps the socket: once every operation has returned
\* and the callbacks are removed, a closed socket is really closed.
ReleasedWhenUnused ==
    closed /\ (\A o \in Ops : ~InFlight(o)) => ~Open

SocketLifetime == PolledIsOpen /\ ReleasedWhenUnused

\* A sock_sendall or sock_connect of a disciplined program ends if the peer
\* reads: partial sends, replaced handles and new polls lose no wakeup.
WriterEnds ==
    \A o \in Sends \union Connects :
        disciplined /\ InFlight(o) ~> task[o] = "back" \/ loopClosed

=============================================================================
