------------------------------- MODULE Server -------------------------------
(***************************************************************************)
(* Server (server.pyx), the handles it listens with (UVStreamServer) and     *)
(* the connections it counts.  close() ends the listening; the connections   *)
(* stay, and wait_closed() waits for the last of them.  A connection is      *)
(* reduced to what the server sees of its transport: Stream models it in     *)
(* full.                                                                     *)
(***************************************************************************)
EXTENDS Naturals, FiniteSets

CONSTANTS
    Sockets,        \* the listening handles
    Conns,          \* the connections clients make
    Waiters,        \* the calls of wait_closed()
    NoConn

ASSUME ServerAssumption ==
    IsFiniteSet(Conns) /\ NoConn \notin Conns

VARIABLES
    closed,         \* _servers is None
    serving,        \* _serving
    handle,         \* the state of each listening handle
    holding,        \* handles with a connection uv_accept() has not taken
    active,         \* _active_count
    woken,          \* _waiters is None
    future,         \* the future of each wait_closed()
    forever,        \* _serving_forever_fut is not None
    conn,           \* the state of each connection
    via,            \* the handle it came by
    inFactory,      \* the connection protocol_factory() runs for, or NoConn
    inLost          \* the connection connection_lost() runs for, or NoConn

serverVars == <<closed, serving, handle, active, woken, future, forever>>
connVars == <<holding, conn, via, inFactory, inLost>>
vars == <<serverVars, connVars>>

Attached == {c \in Conns : conn[c] \in {"open", "ending"}}

-----------------------------------------------------------------------------

\* create_server(): the handles are bound, and not listening yet.
Init ==
    /\ closed = FALSE /\ serving = FALSE
    /\ handle = [s \in Sockets |-> "bound"]
    /\ holding = {}
    /\ active = 0
    /\ woken = FALSE
    /\ future = [w \in Waiters |-> "none"]
    /\ forever = FALSE
    /\ conn = [c \in Conns |-> "none"]
    /\ via \in [Conns -> Sockets]
    /\ inFactory = NoConn /\ inLost = NoConn

\* User code runs between callbacks and in protocol_factory() and
\* connection_lost().  Callbacks do not nest.
Idle == inFactory = NoConn /\ inLost = NoConn

-----------------------------------------------------------------------------
(* Serving *)

\* _start_serving(): a handle that cannot listen is closed, and its OSError is
\* dropped by UVStreamServer._fatal_error.  On a closed server the loop over
\* None raises, with _serving already set.
Serve ==
    /\ serving' = TRUE
    /\ IF serving \/ closed
       THEN UNCHANGED handle
       ELSE \E bad \in SUBSET Sockets :
                handle' = [s \in Sockets |->
                              IF s \in bad THEN "closed" ELSE "listening"]

StartServing ==
    /\ Serve
    /\ UNCHANGED <<closed, active, woken, future, forever, connVars>>

\* serve_forever(), which raises on a closed server or when it runs already.
ServeForever ==
    /\ ~forever /\ ~closed
    /\ Serve
    /\ forever' = TRUE
    /\ UNCHANGED <<closed, active, woken, future, connVars>>

\* A fatal error in the listen callback.
ListenError(s) ==
    /\ Idle
    /\ handle[s] = "listening"
    /\ handle' = [handle EXCEPT ![s] = "closed"]
    /\ conn' = [c \in Conns |->
                   IF conn[c] \in {"backlog", "stuck"} /\ via[c] = s THEN "refused"
                   ELSE conn[c]]
    /\ UNCHANGED <<closed, serving, active, woken, future, forever,
                   holding, via, inFactory, inLost>>

-----------------------------------------------------------------------------
(* Closing *)

\* _wakeup()
Wakeup ==
    /\ woken' = TRUE
    /\ future' = [w \in Waiters |->
                     IF future[w] = "waiting" THEN "woken" ELSE future[w]]

\* Whether the waiters can be woken, with count connections left.
LastIsGone_One(count) == count <= 1    \* mutant: off by one
LastIsGone(count) == count = 0

\* Whether close() wakes them.
NobodyToWaitFor_Later == FALSE         \* mutant: only _detach() wakes
NobodyToWaitFor == LastIsGone(active)

WakeupIf(cond) == IF cond THEN Wakeup ELSE UNCHANGED <<woken, future>>

\* close(): what has connected and was not accepted yet is refused.
DoClose ==
    IF closed
    THEN UNCHANGED <<closed, serving, handle, conn, woken, future>>
    ELSE /\ closed' = TRUE /\ serving' = FALSE
         /\ handle' = [s \in Sockets |-> "closed"]
         /\ conn' = [c \in Conns |->
                        IF conn[c] \in {"backlog", "stuck"} THEN "refused"
                        ELSE conn[c]]
         /\ WakeupIf(NobodyToWaitFor)

Close ==
    /\ DoClose
    /\ UNCHANGED <<active, forever, holding, via, inFactory, inLost>>

\* The task in serve_forever() is cancelled: close(), and wait_closed(), which
\* returns at once because _servers is None.
CancelForever ==
    /\ forever /\ Idle
    /\ forever' = FALSE
    /\ DoClose
    /\ UNCHANGED <<active, holding, via, inFactory, inLost>>

\* wait_closed()
MustWait == ~closed /\ ~woken
WaitClosed(w) ==
    /\ future[w] = "none"
    /\ future' = [future EXCEPT ![w] = IF MustWait THEN "waiting" ELSE "returned"]
    /\ UNCHANGED <<closed, serving, handle, active, woken, forever, connVars>>

CancelWait(w) ==
    /\ future[w] = "waiting"
    /\ future' = [future EXCEPT ![w] = "cancelled"]
    /\ UNCHANGED <<closed, serving, handle, active, woken, forever, connVars>>

-----------------------------------------------------------------------------
(* Connections *)

Connect(c) ==
    /\ conn[c] = "none"
    /\ handle[via[c]] = "listening"
    /\ conn' = [conn EXCEPT ![c] = "backlog"]
    /\ UNCHANGED <<serverVars, holding, via, inFactory, inLost>>

\* The listen callback: _on_listen() calls protocol_factory().  libuv has
\* accepted the connection and waits for uv_accept(); until then the handle
\* accepts no other.
OnListen(c) ==
    /\ Idle
    /\ conn[c] = "backlog"
    /\ handle[via[c]] = "listening" /\ via[c] \notin holding
    /\ conn' = [conn EXCEPT ![c] = "accepting"]
    /\ holding' = holding \union {via[c]}
    /\ inFactory' = c
    /\ UNCHANGED <<serverVars, via, inLost>>

\* _attach(), called when the transport is made: the assertion and the count.
MayAttach == ~closed
CountAttached == active + 1

\* What uv_accept() lets the handle do again.
Released_None == {}                    \* mutant: client._accept() is not called
Released == {via[inFactory]}

\* _on_listen() goes on: the transport attaches to the server and is accepted.
\* If uv_accept() fails the transport is aborted.
FactoryReturns ==
    LET c == inFactory
    IN  /\ c # NoConn
        /\ MayAttach
        /\ inFactory' = NoConn
        /\ active' = CountAttached
        /\ holding' = holding \ Released
        /\ \E state \in {"open", "ending"} :
               conn' = [conn EXCEPT ![c] = state]
        /\ UNCHANGED <<closed, serving, handle, woken, future, forever, via,
                       inLost>>

\* ... or the server was closed by protocol_factory(), and the assertion fails.
AttachFails ==
    /\ inFactory # NoConn
    /\ ~MayAttach
    /\ inFactory' = NoConn
    /\ conn' = [conn EXCEPT ![inFactory] = "refused"]
    /\ UNCHANGED <<serverVars, holding, via, inLost>>

\* protocol_factory() raises: the error is logged and uv_accept() not called, so
\* the connection hangs and the handle accepts no other.
FactoryRaises ==
    /\ inFactory # NoConn
    /\ inFactory' = NoConn
    /\ conn' = [conn EXCEPT ![inFactory] = IF closed THEN "refused" ELSE "stuck"]
    /\ UNCHANGED <<serverVars, holding, via, inLost>>

\* _detach()
CountDetached == active - 1

\* The transport schedules its connection_lost, for whatever reason.
ConnEnds(c) ==
    /\ conn[c] = "open"
    /\ conn' = [conn EXCEPT ![c] = "ending"]
    /\ UNCHANGED <<serverVars, holding, via, inFactory, inLost>>

\* _call_connection_lost() calls the protocol ...
RunLost(c) ==
    /\ Idle
    /\ conn[c] = "ending"
    /\ inLost' = c
    /\ UNCHANGED <<serverVars, holding, conn, via, inFactory>>

\* ... and detaches, whether connection_lost() returned or raised.
LostReturns ==
    /\ inLost # NoConn
    /\ inLost' = NoConn
    /\ conn' = [conn EXCEPT ![inLost] = "gone"]
    /\ active' = CountDetached
    /\ WakeupIf(closed /\ LastIsGone(CountDetached))
    /\ UNCHANGED <<closed, serving, handle, forever, holding, via, inFactory>>

-----------------------------------------------------------------------------

Next ==
    \/ StartServing \/ ServeForever \/ Close \/ CancelForever
    \/ \E w \in Waiters : WaitClosed(w) \/ CancelWait(w)
    \/ \E s \in Sockets : ListenError(s)
    \/ \E c \in Conns : Connect(c) \/ OnListen(c) \/ ConnEnds(c) \/ RunLost(c)
    \/ FactoryReturns \/ AttachFails \/ FactoryRaises \/ LostReturns

Spec == Init /\ [][Next]_vars

\* The loop polls the handles and runs what is scheduled; callbacks return.
Fairness ==
    /\ \A c \in Conns : WF_vars(OnListen(c)) /\ WF_vars(RunLost(c))
    /\ WF_vars(FactoryReturns \/ AttachFails \/ FactoryRaises)
    /\ WF_vars(LostReturns)

FairSpec == Spec /\ Fairness

-----------------------------------------------------------------------------
(* Properties *)

\* Every variable keeps to its values, and the count to the number of
\* connections.
TypeOK ==
    /\ closed \in BOOLEAN /\ serving \in BOOLEAN
    /\ handle \in [Sockets -> {"bound", "listening", "closed"}]
    /\ holding \subseteq Sockets
    /\ active \in 0..Cardinality(Conns)
    /\ woken \in BOOLEAN /\ forever \in BOOLEAN
    /\ future \in [Waiters ->
                     {"none", "waiting", "woken", "returned", "cancelled"}]
    /\ conn \in [Conns -> {"none", "backlog", "accepting", "open", "ending",
                            "gone", "refused", "stuck"}]
    /\ via \in [Conns -> Sockets]
    /\ inFactory \in Conns \union {NoConn} /\ inLost \in Conns \union {NoConn}

\* _active_count is the number of the connections that have attached and not
\* detached, those included whose uv_accept() failed: the assertion in
\* _detach() holds.
CountIsOpen == active = Cardinality(Attached)

\* Nobody waits in wait_closed() for a closed server without connections,
\* whether close() or the last connection came last.
NobodyLeftWaiting ==
    closed /\ active = 0 => \A w \in Waiters : future[w] # "waiting"

\* _wakeup() comes when the server is closed and the last connection gone, and
\* no connection comes after it.
WokenWhenIdle ==
    \A w \in Waiters : future[w] = "woken" => closed /\ Attached = {}

\* A connection is accepted or refused, as long as protocol_factory() has not
\* raised for another one of the same handle.
Blocked(c) == \E d \in Conns : conn[d] = "stuck" /\ via[d] = via[c]
KeepsAccepting ==
    \A c \in Conns : conn[c] = "backlog" ~> conn[c] # "backlog" \/ Blocked(c)
=============================================================================
