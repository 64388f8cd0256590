------------------------------ MODULE Connect ------------------------------
(***************************************************************************)
(* The coroutines that open a stream transport (loop.pyx): the address loop *)
(* of create_connection, create_connection and create_unix_connection with  *)
(* a socket, and connect_accepted_socket; the connect requests of tcp.pyx   *)
(* and pipe.pyx; and the cancellation of the task at any time.  What the    *)
(* transport does after connection_made is the module Stream, and the wait  *)
(* for a TLS handshake is SSLProto.                                         *)
(*                                                                          *)
(* Handles of Loop._ready run in the order they were queued, which decides  *)
(* whether connection_lost() comes before the coroutine resumes.            *)
(***************************************************************************)
EXTENDS Naturals, Sequences

CONSTANTS
    N,          \* addresses of the host
    Modes       \* the ways to open a transport

ASSUME ConnectAssumption ==
    N \in Nat \ {0} /\ Modes \subseteq {"host", "sock", "accepted"}

Attempts == 1..N

VARIABLES
    mode,       \* how this transport is opened
    co,         \* the coroutine
    attempt,    \* the address it is at
    cancelled,  \* task.cancel() was called
    tr,         \* the transport of each attempt
    request,    \* its connect request, until the callback
    waiter,     \* its waiter
    fileobj,    \* the program's socket: "own", "attached" or "detached"
    fd,         \* its descriptor: "open" and not libuv's, "libuv" or "closed"
    ready,      \* handles of Loop._ready, in order
    made        \* history: transports that reported connection_made

vars == <<mode, co, attempt, cancelled, tr, request, waiter, fileobj, fd,
          ready, made>>

-----------------------------------------------------------------------------
(* Pieces of the handlers *)

Entry(what, k) == [what |-> what, k |-> k]
CallSoon(what, k) == Append(ready, Entry(what, k))

AtLoop == co \in {"waiting", "returned", "raised"}

\* Mutant of Alive: a closed transport is not told from an open one.
Alive_Always(k) == TRUE
Alive(k) == tr[k] # "closed"

\* UVSocketHandle._close: libuv closes the descriptor it has and cancels the
\* request; an attached socket is detached from the descriptor.
CloseTransport(k) ==
    /\ tr' = [tr EXCEPT ![k] = "closed"]
    /\ fd' = IF fd = "libuv" THEN "closed" ELSE fd
    /\ request' = [request EXCEPT ![k] = IF @ = "sent" THEN "cancelled" ELSE @]

Detached == IF fileobj = "attached" THEN "detached" ELSE fileobj

\* A future that is done schedules the task that awaits it.
Resolve(k, how) ==
    IF waiter[k] = "pending"
    THEN /\ waiter' = [waiter EXCEPT ![k] = how]
         /\ ready' = CallSoon("wake", k)
    ELSE UNCHANGED <<waiter, ready>>

-----------------------------------------------------------------------------
(* The coroutine *)

Open(k, state) ==
    /\ tr' = [tr EXCEPT ![k] = state]
    /\ waiter' = [waiter EXCEPT ![k] = "pending"]
    /\ co' = "waiting"

\* With a socket: an accepted one is attached at once, another one only
\* after the wait.  If _open fails, for a descriptor that is polled, say,
\* libuv never has it and _close() has nothing to close; but a socket that
\* is not an accepted one is detached all the same.
StartSock ==
    /\ co = "start" /\ mode # "host"
    /\ \/ /\ Open(1, "open")
          /\ fd' = "libuv"
          /\ ready' = CallSoon("made", 1)
          /\ fileobj' = IF mode = "accepted" THEN "attached" ELSE "own"
       \/ /\ co' = "raised" /\ UNCHANGED fd
          /\ IF mode = "sock"
             THEN tr' = [tr EXCEPT ![1] = "closed"] /\ fileobj' = "detached"
             ELSE tr' = [tr EXCEPT ![1] = "unopened"] /\ UNCHANGED fileobj
          /\ UNCHANGED <<waiter, ready>>
    /\ UNCHANGED <<mode, attempt, cancelled, request, made>>

\* The next address: no local address to bind to, or connect() fails at
\* once, or it is in progress.
NextAddress ==
    /\ co = "start" /\ mode = "host" /\ attempt <= N
    /\ \/ /\ Open(attempt, "open")
          /\ request' = [request EXCEPT ![attempt] = "sent"]
          /\ UNCHANGED <<attempt, fd>>
       \/ /\ CloseTransport(attempt)
          /\ attempt' = attempt + 1
          /\ UNCHANGED <<waiter, co>>
    /\ UNCHANGED <<mode, cancelled, fileobj, ready, made>>

\* Every address has failed: OSError.
NoAddress ==
    /\ co = "start" /\ attempt > N
    /\ co' = "raised"
    /\ UNCHANGED <<mode, attempt, cancelled, tr, request, waiter, fileobj, fd,
                   ready, made>>

\* Mutant of Raise: the socket is not detached.
Raise_KeepsSocket(k) ==
    /\ co' = "raised"
    /\ CloseTransport(k)
    /\ fileobj' = Detached
    /\ UNCHANGED attempt

\* The transport is closed, and with it the descriptor of the program's
\* socket, which therefore gives it up.
Raise(k) ==
    /\ co' = "raised"
    /\ CloseTransport(k)
    /\ fileobj' = IF mode = "sock" THEN "detached" ELSE Detached
    /\ UNCHANGED attempt

\* An address that failed: on to the next one.
TryNext(k) ==
    /\ co' = "start" /\ attempt' = attempt + 1
    /\ CloseTransport(k)
    /\ UNCHANGED fileobj

\* The socket is attached to the transport, whatever became of it.
Return ==
    /\ co' = "returned"
    /\ fileobj' = IF mode = "sock" THEN "attached" ELSE fileobj
    /\ UNCHANGED <<attempt, tr, request, fd>>

\* The task resumes: cancelled, even if the waiter was done before, or with
\* what the waiter has.
Wake ==
    /\ co = "waiting" /\ ready # <<>> /\ Head(ready).what = "wake"
    /\ ready' = Tail(ready)
    /\ LET k == Head(ready).k IN
        \/ cancelled /\ Raise(k)
        \/ /\ ~cancelled /\ waiter[k] = "error"
           /\ IF mode = "host" THEN TryNext(k) ELSE Raise(k)
        \/ ~cancelled /\ waiter[k] = "result" /\ Return
    /\ UNCHANGED <<mode, cancelled, waiter, made>>

\* task.cancel() while the coroutine awaits its waiter.
Cancel ==
    /\ co = "waiting" /\ ~cancelled
    /\ cancelled' = TRUE
    /\ Resolve(attempt, "cancelled")
    /\ UNCHANGED <<mode, co, attempt, tr, request, fileobj, fd, made>>

-----------------------------------------------------------------------------
(* Callbacks of the loop *)

\* __tcp_connect_callback and _on_connect without an error.
Connected(k) ==
    /\ AtLoop /\ request[k] = "sent"
    /\ request' = [request EXCEPT ![k] = "none"]
    /\ ready' = CallSoon("made", k)
    /\ UNCHANGED <<mode, co, attempt, cancelled, tr, waiter, fileobj, fd, made>>

\* Mutant of ConnectFails: the waiter is not told.
ConnectFails_Unheard(k) ==
    /\ AtLoop /\ request[k] \in {"sent", "cancelled"}
    /\ request' = [request EXCEPT ![k] = "none"]
    /\ tr' = [tr EXCEPT ![k] = "closed"]
    /\ UNCHANGED <<mode, co, attempt, cancelled, waiter, fileobj, fd, ready,
                   made>>

\* ... and with one: the request failed, or _close() cancelled it, and then
\* nobody waits any more.
ConnectFails(k) ==
    /\ AtLoop /\ request[k] \in {"sent", "cancelled"}
    /\ request' = [request EXCEPT ![k] = "none"]
    /\ tr' = [tr EXCEPT ![k] = "closed"]
    /\ Resolve(k, "error")
    /\ UNCHANGED <<mode, co, attempt, cancelled, fileobj, fd, made>>

Due(what) == AtLoop /\ ready # <<>> /\ Head(ready).what = what

\* _call_connection_made: the protocol may abort, or fail to write, in
\* connection_made(); then connection_lost() is queued before the task.
CallMade ==
    /\ Due("made")
    /\ LET k == Head(ready).k
           woken == IF waiter[k] = "pending" THEN <<Entry("wake", k)>> ELSE <<>>
       IN  IF ~Alive(k)
           THEN /\ ready' = Tail(ready) \o woken
                /\ waiter' = [waiter EXCEPT ![k] =
                     IF @ = "pending" THEN "error" ELSE @]
                /\ UNCHANGED made
           ELSE /\ \E lost \in {<<>>, <<Entry("lost", k)>>} :
                     ready' = Tail(ready) \o lost \o woken
                /\ waiter' = [waiter EXCEPT ![k] =
                     IF @ = "pending" THEN "result" ELSE @]
                /\ made' = Append(made, k)
    /\ UNCHANGED <<mode, co, attempt, cancelled, tr, request, fileobj, fd>>

\* _call_connection_lost
CallLost ==
    /\ Due("lost")
    /\ ready' = Tail(ready)
    /\ IF ~Alive(Head(ready).k) THEN UNCHANGED <<tr, request, fileobj, fd>>
       ELSE CloseTransport(Head(ready).k) /\ fileobj' = Detached
    /\ UNCHANGED <<mode, co, attempt, cancelled, waiter, made>>

\* The peer, or the program, ends a transport that reported connection_made.
Ends(k) ==
    /\ AtLoop /\ tr[k] = "open" /\ k \in {made[i] : i \in DOMAIN made}
    /\ Entry("lost", k) \notin {ready[i] : i \in DOMAIN ready}
    /\ ready' = CallSoon("lost", k)
    /\ UNCHANGED <<mode, co, attempt, cancelled, tr, request, waiter, fileobj,
                   fd, made>>

Init ==
    /\ mode \in Modes
    /\ co = "start" /\ attempt = 1 /\ cancelled = FALSE
    /\ tr = [k \in Attempts |-> "none"]
    /\ request = [k \in Attempts |-> "none"]
    /\ waiter = [k \in Attempts |-> "none"]
    /\ fileobj = "own" /\ ready = <<>>
    /\ fd = IF mode = "host" THEN "none" ELSE "open"
    /\ made = <<>>

Coroutine == StartSock \/ NextAddress \/ NoAddress \/ Wake
Callbacks ==
    \/ CallMade \/ CallLost
    \/ \E k \in Attempts : Connected(k) \/ ConnectFails(k)

Next == Coroutine \/ Callbacks \/ Cancel \/ \E k \in Attempts : Ends(k)

Spec == Init /\ [][Next]_vars

\* The loop runs what is ready, and the kernel answers every connect().
FairSpec == Spec /\ WF_vars(Coroutine) /\ WF_vars(Callbacks)

-----------------------------------------------------------------------------
(* Properties *)

\* _open failed: the coroutine raised before it came to wait.
OpenFailed == co = "raised" /\ mode # "host" /\ waiter[1] = "none"

\* create_connection() and its kin clean up when they raise: every transport
\* they opened is closed, whatever the last event was when the task was
\* cancelled, each address is given up before the next one is tried, and the
\* program's socket is detached.  Its descriptor is closed, unless _open
\* failed: then it is open, so an accepted socket still has it, but one given
\* as sock= has been detached from it, and it leaks.
FailureCleansUp ==
    /\ \A k \in Attempts :
         k < attempt \/ co = "raised" => tr[k] # "open" /\ request[k] # "sent"
    /\ co = "raised" /\ mode = "sock" => fileobj = "detached"
    /\ co = "raised" /\ mode # "host" =>
         fd = IF OpenFailed THEN "open" ELSE "closed"

\* One protocol gets one connection: connection_made() is called for one
\* transport at most, before the coroutine returns that very transport, and
\* never once it has raised, although the call may be in Loop._ready then.
OneConnection ==
    [][/\ Len(made') <= 1
       /\ co = "raised" => made' = made
       /\ co' = "returned" => made' = <<attempt'>>]_vars

\* The coroutine comes to an end: each connect request, succeeded, failed
\* or cancelled, resolves the waiter the coroutine is at.
CoroutineEnds == <>(co \in {"returned", "raised"})

\* "The owner of `sock` must not get a chance to double-close the same FD":
\* when the descriptor is closed, the program's socket has let go of it.
NoDoubleClose ==
    co \in {"returned", "raised"} /\ fd = "closed" => fileobj = "detached"

=============================================================================
