------------------------------ MODULE SSLProto ------------------------------
(***************************************************************************)
(* SSLProtocol (sslproto.pyx): between a transport, reduced to the contract  *)
(* that Stream models in full, and the protocol of the application.          *)
(*                                                                          *)
(* A method that calls the application goes on when the callback returns,    *)
(* and the callback may have called any method of the transport.  `todo` is  *)
(* the Python stack: the callbacks the thread is in and, below each of them, *)
(* what the methods that called it still have to do.                         *)
(***************************************************************************)
EXTENDS Naturals, Sequences, SequencesExt, FiniteSets

CONSTANTS
    Kinds,          \* of connections: "server", "client", "upgrade" (start_tls())
    MaxOut,         \* bytes the application writes
    MaxIn,          \* records of data the peer sends
    MaxReads,       \* how many calls of _do_read may be scheduled at a time
    ReadLimits,     \* pairs <<high, low>> of set_read_buffer_limits()
    WriteLimits     \* pairs <<high, low>> of set_write_buffer_limits()

ASSUME SSLAssumption ==
    /\ Kinds \subseteq {"server", "client", "upgrade"}
    /\ MaxOut \in Nat /\ MaxIn \in Nat /\ MaxReads \in Nat \ {0}
    /\ ReadLimits \subseteq Nat \X Nat /\ ReadLimits # {}
    /\ WriteLimits \subseteq Nat \X Nat /\ WriteLimits # {}

VARIABLES
    kind,           \* what made the connection
    state,          \* _state
    app,            \* _app_state
    waiter,         \* the waiter of create_connection() or start_tls()
    todo,           \* the Python stack
    paused,         \* _app_writing_paused, _ssl_writing_paused and so on
    readLimits,     \* _incoming_high_water, _incoming_low_water
    writeLimits,    \* _outgoing_high_water, _outgoing_low_water
    reads,          \* calls of _do_read in Loop._ready
    timers,         \* running timeouts
    lostDue,        \* connection_lost of the application is in Loop._ready
    backlog,        \* _write_buffer_size: the bytes in _write_backlog
    outgoing,       \* _outgoing: what the SSL object wrote
    incoming,       \* _incoming: what the SSL object has yet to read
    gotClose,       \* the SSL object has read the peer's close_notify
    sentClose,      \* the SSL object has written its close_notify
    busy,           \* the SSL object negotiates again and takes no data
    tr,             \* the transport: "open", "closing", "ending" or "gone"
    tbuf,           \* it has data that the socket did not take
    peerData,       \* records the peer has sent
    peerClosed,     \* the peer has sent close_notify
    written,        \* history: bytes accepted from the application
    wire,           \* history: what the transport has accepted
    over,           \* history: the application called close() or abort()
    cut,            \* history: the peer's EOF came without its close_notify
    lostCalls       \* history: calls of connection_lost

sslVars == <<gotClose, sentClose, busy>>
flowVars == <<paused, readLimits, writeLimits>>
outVars == <<backlog, outgoing>>
trVars == <<tr, tbuf, wire>>
peerVars == <<peerData, peerClosed>>
loopVars == <<reads, timers, lostDue>>
histVars == <<written, over, cut, lostCalls>>
vars == <<kind, state, app, waiter, todo, flowVars, loopVars, outVars,
          incoming, sslVars, trVars, peerVars, histVars>>

Callbacks ==
    {"connection_made", "data_received", "eof_received", "pause_writing",
     "resume_writing"}

\* The application has the transport: from connection_made(), or from
\* start_tls().
HasTransport == waiter = "ok" \/ (app # "init" /\ kind # "upgrade")

Idle == todo = <<>>
UserRuns == HasTransport /\ (~Idle => Head(todo) \in Callbacks)

Runs(item) == todo # <<>> /\ Head(todo) = item
Then(items) == todo' = items \o Tail(todo)

-----------------------------------------------------------------------------

\* add_flowcontrol_defaults(): here the default is the highest of the limits.
Default(limits) == CHOOSE l \in limits : \A k \in limits : k[1] <= l[1]

\* The transport calls connection_made(), and _start_handshake() starts the
\* timeout and the handshake.
Init ==
    /\ kind \in Kinds
    /\ state = "DO_HANDSHAKE"
    /\ app = IF kind = "upgrade" THEN "made" ELSE "init"
    /\ waiter = "waiting"
    /\ todo = <<"do_handshake", "returns">>
    /\ paused = {}
    /\ readLimits = Default(ReadLimits) /\ writeLimits = Default(WriteLimits)
    /\ reads = 0 /\ timers = {"handshake"} /\ lostDue = FALSE
    /\ backlog = 0 /\ outgoing = <<>> /\ incoming = <<>>
    /\ gotClose = FALSE /\ sentClose = FALSE /\ busy = FALSE
    /\ tr = "open" /\ tbuf = FALSE
    /\ peerData = 0 /\ peerClosed = FALSE
    /\ written = 0 /\ wire = <<>> /\ over = FALSE /\ cut = FALSE /\ lostCalls = 0

-----------------------------------------------------------------------------
(* The transport *)

\* abort() or _force_close() of the transport.
Forced == IF tr = "gone" THEN tr ELSE "ending"

\* close() of the transport, which sends what it has.
Closed == IF tr # "open" THEN tr ELSE IF tbuf THEN "closing" ELSE "ending"

\* _abort(), and _fatal_error() when there is an application transport.
Abort == state' = "UNWRAPPED" /\ tr' = Forced

\* An exception leaves the method whose caller is at the head of rest.  It is
\* caught by the callback that called the method, by _do_read(), which aborts,
\* or by the transport's callback, which closes by force or (_on_write) logs it.
Catchers == Callbacks \union {"end_read", "returns", "written"}
Raise(rest) ==
    \/ /\ \A i \in 1..Len(rest) : rest[i] \notin Catchers
       /\ todo' = <<>>
       /\ UNCHANGED <<state, tr>>
    \/ \E i \in 1..Len(rest) :
          /\ rest[i] \in Catchers
          /\ \A j \in 1..i-1 : rest[j] \notin Catchers
          /\ state' = IF rest[i] = "end_read" THEN "UNWRAPPED" ELSE state
          /\ IF rest[i] \in {"end_read", "returns"}
             THEN tr' = Forced /\ todo' = SubSeq(rest, i + 1, Len(rest))
             ELSE UNCHANGED tr /\ todo' = SubSeq(rest, i, Len(rest))

\* What is in the BIO but the last message of the handshake, which comes first.
Payload(out) ==
    IF out # <<>> /\ Head(out) = "handshake" THEN Tail(out) ELSE out

\* _process_outgoing() with out in the BIO: the transport drops what comes
\* after a failure; it may call pause_writing() of SSLProtocol.
Process(out) ==
    IF "ssl writing" \in paused \/ out = <<>>
    THEN outgoing' = out /\ UNCHANGED <<paused, tbuf, wire>>
    ELSE /\ outgoing' = <<>>
         /\ IF tr \in {"open", "closing"}
            THEN /\ wire' = wire \o Payload(out)
                 /\ tbuf' \in (IF tbuf THEN {TRUE} ELSE BOOLEAN)
                 /\ paused' \in {paused} \union
                        (IF tbuf' THEN {paused \union {"ssl writing"}} ELSE {})
            ELSE UNCHANGED <<paused, tbuf, wire>>

\* _do_write() of n bytes: what the BIO holds then, and what the backlog.
Wrote(n) == IF busy THEN outgoing ELSE outgoing \o [i \in 1..n |-> "app"]
BacklogLeft(n) == IF busy THEN n ELSE 0

WriteSize == Len(outgoing) + backlog

-----------------------------------------------------------------------------
(* Handshake *)

\* do_handshake() wants more, and sends what it wrote.
HandshakeAgain ==
    /\ Runs("do_handshake")
    /\ incoming = <<>>
    /\ \E out \in {outgoing, <<"handshake">>} : Process(out)
    /\ Then(<<>>)
    /\ UNCHANGED <<kind, state, app, waiter, readLimits, writeLimits, loopVars,
                   backlog, incoming, sslVars, tr, peerVars, histVars>>

\* do_handshake() is done; what it wrote last stays in the BIO.
HandshakeDone ==
    /\ Runs("do_handshake")
    /\ outgoing' \in {outgoing, <<"handshake">>}
    /\ Then(<<"on_handshake_complete">>)
    /\ UNCHANGED <<kind, state, app, waiter, flowVars, loopVars, backlog,
                   incoming, sslVars, trVars, peerVars, histVars>>

\* do_handshake() fails.
HandshakeFails ==
    /\ Runs("do_handshake")
    /\ Then(<<"handshake_failed">>)
    /\ UNCHANGED <<kind, state, app, waiter, flowVars, loopVars, outVars,
                   incoming, sslVars, trVars, peerVars, histVars>>

OnHandshakeComplete ==
    /\ Runs("on_handshake_complete")
    /\ timers' = timers \ {"handshake"}
    /\ state' = "WRAPPED"
    /\ IF app = "init"
       THEN app' = "made" /\ Then(<<"connection_made", "wakeup_waiter">>)
       ELSE UNCHANGED app /\ Then(<<"wakeup_waiter">>)
    /\ UNCHANGED <<kind, waiter, flowVars, reads, lostDue, outVars, incoming,
                   sslVars, trVars, peerVars, histVars>>

\* The rest of _on_handshake_complete(): the first data come after the wakeup.
WakeupWaiter ==
    /\ Runs("wakeup_waiter")
    /\ waiter' = IF waiter = "waiting" THEN "ok" ELSE waiter
    /\ reads' = reads + 1
    /\ Then(<<>>)
    /\ UNCHANGED <<kind, state, app, flowVars, timers, lostDue, outVars,
                   incoming, sslVars, trVars, peerVars, histVars>>

\* ... or with an exception.
OnHandshakeFailed ==
    /\ Runs("handshake_failed")
    /\ timers' = timers \ {"handshake"}
    /\ Abort
    /\ waiter' = IF waiter = "waiting" THEN "failed" ELSE waiter
    /\ Then(<<>>)
    /\ UNCHANGED <<kind, app, flowVars, reads, lostDue, outVars, incoming,
                   sslVars, tbuf, wire, peerVars, histVars>>

\* _check_handshake_timeout(); a server has no application transport yet, and
\* keeps the state.
HandshakeTimeout ==
    /\ Idle
    /\ "handshake" \in timers
    /\ timers' = timers \ {"handshake"}
    /\ IF state # "DO_HANDSHAKE" THEN UNCHANGED <<state, tr>>
       ELSE IF kind = "server" THEN tr' = Forced /\ UNCHANGED state
       ELSE Abort
    /\ UNCHANGED <<kind, app, waiter, todo, flowVars, reads, lostDue, outVars,
                   incoming, sslVars, tbuf, wire, peerVars, histVars>>

-----------------------------------------------------------------------------
(* Reading *)

MayRead_Always == TRUE             \* mutant: without the test of the state
MayRead == state = "WRAPPED"

\* _do_read(), when the application has paused reading or the state has changed.
ReadNothing ==
    /\ Runs("do_read")
    /\ IF ~MayRead THEN Then(<<>>)
       ELSE "app reading" \in paused /\ Then(<<"end_read">>)
    /\ UNCHANGED <<kind, state, app, waiter, flowVars, loopVars, outVars,
                   incoming, sslVars, trVars, peerVars, histVars>>

HasData(s) == \E i \in 1..Len(s) : s[i] = "data"
HasClose(s) == \E i \in 1..Len(s) : s[i] = "close"

Reading == Runs("do_read") /\ MayRead /\ "app reading" \notin paused

\* _do_read() reads n records; a buffered protocol may take less than there
\* is, and is called again.
Read(n) ==
    LET some == SubSeq(incoming, 1, n)
        less == n < Len(incoming)
    IN  /\ Reading
        /\ less => n > 0 /\ ~HasClose(some) /\ reads < MaxReads
        /\ incoming' = SubSeq(incoming, n + 1, Len(incoming))
        /\ gotClose' = (gotClose \/ HasClose(some))
        /\ reads' = IF less THEN reads + 1 ELSE reads
        /\ Then((IF HasData(some) THEN <<"data_received">> ELSE <<>>)
                \o (IF HasClose(some)
                    THEN <<"call_eof", "start_shutdown", "after_read", "end_read">>
                    ELSE <<"after_read", "end_read">>))
        /\ UNCHANGED <<kind, state, app, waiter, flowVars, timers, lostDue,
                       outVars, sentClose, busy, trVars, peerVars, histVars>>

\* The SSL object raises an error: _fatal_error().
ReadFails ==
    /\ Reading
    /\ incoming # <<>>
    /\ incoming' = <<>>
    /\ Abort
    /\ Then(<<>>)
    /\ UNCHANGED <<kind, app, waiter, flowVars, loopVars, outVars, sslVars,
                   tbuf, wire, peerVars, histVars>>

\* _do_write() and _process_outgoing() at the end of _do_read() and in
\* _do_flush(): bytes may have waited while the SSL object was busy.
WriteOut ==
    /\ \/ Runs("after_read") /\ Then(<<"control_app_writing">>)
       \/ Runs("flush_write") /\ Then(<<"control_ssl_reading">>)
    /\ Process(Wrote(backlog))
    /\ backlog' = BacklogLeft(backlog)
    /\ UNCHANGED <<kind, state, app, waiter, readLimits, writeLimits, loopVars,
                   incoming, sslVars, tr, peerVars, histVars>>

\* _control_ssl_reading(): the transport's reading is paused or resumed.
SSLReading_Strict(limits) ==       \* mutant: resumes below the low-water mark
    IF Len(incoming) >= limits[1] /\ "ssl reading" \notin paused
    THEN paused \union {"ssl reading"}
    ELSE IF Len(incoming) < limits[2] THEN paused \ {"ssl reading"}
    ELSE paused
SSLReading(limits) ==
    IF Len(incoming) >= limits[1] /\ "ssl reading" \notin paused
    THEN paused \union {"ssl reading"}
    ELSE IF Len(incoming) <= limits[2] THEN paused \ {"ssl reading"}
    ELSE paused

ControlSSLReading ==
    /\ Runs("end_read") \/ Runs("control_ssl_reading")
    /\ paused' = SSLReading(readLimits)
    /\ Then(<<>>)
    /\ UNCHANGED <<kind, state, app, waiter, readLimits, writeLimits, loopVars,
                   outVars, incoming, sslVars, trVars, peerVars, histVars>>

\* _call_eof_received()
CallEof ==
    /\ Runs("call_eof")
    /\ IF app = "made"
       THEN app' = "eof" /\ Then(<<"eof_received">>)
       ELSE UNCHANGED app /\ Then(<<>>)
    /\ UNCHANGED <<kind, state, waiter, flowVars, loopVars, outVars, incoming,
                   sslVars, trVars, peerVars, histVars>>

-----------------------------------------------------------------------------
(* Flow control towards the application *)

\* After connection_lost() of SSLProtocol _app_protocol is None: the call fails
\* and is logged, and the application hears nothing.
CallApp(f) == Then(IF tr = "gone" THEN <<>> ELSE <<f>>)

ControlAppWriting ==
    /\ Runs("control_app_writing")
    /\ IF WriteSize >= writeLimits[1] /\ "app writing" \notin paused
       THEN /\ paused' = paused \union {"app writing"}
            /\ CallApp("pause_writing")
       ELSE IF WriteSize <= writeLimits[2] /\ "app writing" \in paused
       THEN /\ paused' = paused \ {"app writing"}
            /\ CallApp("resume_writing")
       ELSE UNCHANGED paused /\ Then(<<>>)
    /\ UNCHANGED <<kind, state, app, waiter, readLimits, writeLimits, loopVars,
                   outVars, incoming, sslVars, trVars, peerVars, histVars>>

\* resume_writing() of SSLProtocol in WRAPPED.
ResumedWriting ==
    /\ Runs("resumed")
    /\ Process(outgoing)
    /\ Then(<<"control_app_writing">>)
    /\ UNCHANGED <<kind, state, app, waiter, readLimits, writeLimits, loopVars,
                   backlog, incoming, sslVars, tr, peerVars, histVars>>

-----------------------------------------------------------------------------
(* Shutdown *)

ShutdownTimer_None == {}           \* mutant: the timeout is not started
ShutdownTimer == {"shutdown"}

StartShutdown ==
    /\ Runs("start_shutdown")
    /\ \/ /\ state \in {"FLUSHING", "SHUTDOWN", "UNWRAPPED"}
          /\ Then(<<>>)
          /\ UNCHANGED <<state, tr, timers>>
       \/ state = "DO_HANDSHAKE" /\ Abort /\ Then(<<>>) /\ UNCHANGED timers
       \/ /\ state = "WRAPPED"
          /\ state' = "FLUSHING"
          /\ timers' = timers \union ShutdownTimer
          /\ Then(<<"do_flush">>)
          /\ UNCHANGED tr
    /\ UNCHANGED <<kind, app, waiter, flowVars, reads, lostDue, outVars,
                   incoming, sslVars, tbuf, wire, peerVars, histVars>>

\* _do_read_into_void(): what the peer sent is dropped, close_notify seen.
IntoVoid(more) ==
    /\ incoming' = <<>>
    /\ gotClose' = (gotClose \/ HasClose(incoming))
    /\ Then((IF gotClose' THEN <<"call_eof">> ELSE <<>>) \o more)

DoFlush ==
    /\ Runs("do_flush")
    /\ IntoVoid(<<"flush_write", "flushed">>)
    /\ UNCHANGED <<kind, state, app, waiter, flowVars, loopVars, outVars,
                   sentClose, busy, trVars, peerVars, histVars>>

DoShutdown ==
    /\ Runs("do_shutdown")
    /\ IntoVoid(<<"unwrap">>)
    /\ UNCHANGED <<kind, state, app, waiter, flowVars, loopVars, outVars,
                   sentClose, busy, trVars, peerVars, histVars>>

\* The SSL object raises an error in either: _on_shutdown_complete(ex).
VoidFails ==
    /\ Runs("do_flush") \/ Runs("do_shutdown")
    /\ incoming # <<>>
    /\ incoming' = <<>>
    /\ timers' = timers \ {"shutdown"}
    /\ Abort
    /\ Then(<<>>)
    /\ UNCHANGED <<kind, app, waiter, flowVars, reads, lostDue, outVars,
                   sslVars, tbuf, wire, peerVars, histVars>>

\* The end of _do_flush(): when nothing waits, SHUTDOWN.  eof_received() may
\* have aborted, and then _set_state() refuses.
Flushed_Early == TRUE              \* mutant: without the test of the buffers
Flushed == WriteSize = 0
EndFlush ==
    /\ Runs("flushed")
    /\ \/ ~Flushed /\ Then(<<>>) /\ UNCHANGED <<state, tr>>
       \/ /\ Flushed /\ state = "FLUSHING"
          /\ state' = "SHUTDOWN"
          /\ Then(<<"do_shutdown">>)
          /\ UNCHANGED tr
       \/ /\ Flushed /\ state # "FLUSHING"
          /\ Raise(Tail(todo))
    /\ UNCHANGED <<kind, app, waiter, flowVars, loopVars, outVars, incoming,
                   sslVars, tbuf, wire, peerVars, histVars>>

\* unwrap() writes close_notify, and is done when the peer's has been read.
Unwrap ==
    /\ Runs("unwrap")
    /\ sentClose' = TRUE
    /\ Process(IF sentClose THEN outgoing ELSE Append(outgoing, "close"))
    /\ Then(IF gotClose /\ outgoing' = <<>> /\ backlog = 0
            THEN <<"shutdown_complete">> ELSE <<>>)
    /\ UNCHANGED <<kind, state, app, waiter, readLimits, writeLimits, loopVars,
                   backlog, incoming, gotClose, busy, tr, peerVars, histVars>>

\* _on_shutdown_complete(None)
ShutdownComplete ==
    /\ Runs("shutdown_complete")
    /\ timers' = timers \ {"shutdown"}
    /\ tr' = Closed
    /\ Then(<<>>)
    /\ UNCHANGED <<kind, state, app, waiter, flowVars, reads, lostDue, outVars,
                   incoming, sslVars, tbuf, wire, peerVars, histVars>>

\* _check_shutdown_timeout()
ShutdownTimeout ==
    /\ Idle
    /\ "shutdown" \in timers
    /\ timers' = timers \ {"shutdown"}
    /\ tr' = IF state \in {"FLUSHING", "SHUTDOWN"} THEN Forced ELSE tr
    /\ UNCHANGED <<kind, state, app, waiter, todo, flowVars, reads, lostDue,
                   outVars, incoming, sslVars, tbuf, wire, peerVars, histVars>>

-----------------------------------------------------------------------------
(* The application *)

WriteData ==
    /\ UserRuns /\ state = "WRAPPED"
    /\ written < MaxOut
    /\ written' = written + 1
    /\ Process(Wrote(backlog + 1))
    /\ backlog' = BacklogLeft(backlog + 1)
    /\ todo' = <<"control_app_writing">> \o todo
    /\ UNCHANGED <<kind, state, app, waiter, readLimits, writeLimits, loopVars,
                   incoming, sslVars, tr, peerVars, over, cut,
                   lostCalls>>

\* close(), once: _start_shutdown() returns at once when it is called again.
Close ==
    /\ UserRuns
    /\ ~over
    /\ over' = TRUE
    /\ todo' = <<"start_shutdown">> \o todo
    /\ UNCHANGED <<kind, state, app, waiter, flowVars, loopVars, outVars,
                   incoming, sslVars, trVars, peerVars, written, cut,
                   lostCalls>>

\* abort(), which changes nothing in UNWRAPPED.
UserAborts ==
    /\ UserRuns
    /\ state # "UNWRAPPED"
    /\ over' = TRUE
    /\ Abort
    /\ UNCHANGED <<kind, app, waiter, todo, flowVars, loopVars, outVars,
                   incoming, sslVars, tbuf, wire, peerVars, written, cut, lostCalls>>

\* Only _do_read() looks at the flag, and only in WRAPPED.
PauseReading ==
    /\ UserRuns /\ state = "WRAPPED"
    /\ "app reading" \notin paused
    /\ paused' = paused \union {"app reading"}
    /\ UNCHANGED <<kind, state, app, waiter, todo, readLimits, writeLimits,
                   loopVars, outVars, incoming, sslVars, trVars, peerVars,
                   histVars>>

ResumeReading ==
    /\ UserRuns /\ state = "WRAPPED"
    /\ "app reading" \in paused
    /\ paused' = paused \ {"app reading"}
    /\ reads < MaxReads /\ reads' = reads + 1
    /\ UNCHANGED <<kind, state, app, waiter, todo, readLimits, writeLimits,
                   timers, lostDue, outVars, incoming, sslVars, trVars,
                   peerVars, histVars>>

\* The application sets each of the limits once, to one that is not the default.
SetReadLimits(l) ==
    /\ UserRuns
    /\ readLimits = Default(ReadLimits) /\ l # readLimits
    /\ readLimits' = l
    /\ paused' = SSLReading(l)
    /\ UNCHANGED <<kind, state, app, waiter, todo, writeLimits, loopVars,
                   outVars, incoming, sslVars, trVars, peerVars, histVars>>

\* Not from inside pause_writing() or resume_writing(), which could then nest
\* without an end.
SetWriteLimits(l) ==
    /\ UserRuns
    /\ \A i \in 1..Len(todo) : todo[i] \notin {"pause_writing", "resume_writing"}
    /\ writeLimits = Default(WriteLimits) /\ l # writeLimits
    /\ writeLimits' = l
    /\ todo' = <<"control_app_writing">> \o todo
    /\ UNCHANGED <<kind, state, app, waiter, paused, readLimits, loopVars,
                   outVars, incoming, sslVars, trVars, peerVars, histVars>>

UserReturns ==
    /\ ~Idle /\ Head(todo) \in Callbacks
    /\ Then(<<>>)
    /\ UNCHANGED <<kind, state, app, waiter, flowVars, loopVars, outVars,
                   incoming, sslVars, trVars, peerVars, histVars>>

\* A callback raises; what pause_writing() and resume_writing() raise is logged.
\* KeyboardInterrupt and SystemExit, which the code re-raises, are left out.
UserRaises ==
    /\ Runs("data_received") \/ Runs("connection_made") \/ Runs("eof_received")
    /\ IF Runs("eof_received") THEN Abort /\ Then(<<>>) ELSE Raise(Tail(todo))
    /\ UNCHANGED <<kind, app, waiter, flowVars, loopVars, outVars, incoming,
                   sslVars, tbuf, wire, peerVars, histVars>>

\* The task in create_connection() or start_tls() is cancelled, and closes the
\* application's transport when it runs.
CancelWait ==
    /\ waiter = "waiting" /\ kind # "server"
    /\ waiter' = "cancelled"
    /\ UNCHANGED <<kind, state, app, todo, flowVars, loopVars, outVars,
                   incoming, sslVars, trVars, peerVars, histVars>>

CancelledCloses ==
    /\ waiter = "cancelled" /\ Idle
    /\ waiter' = "over"
    /\ over' = TRUE
    /\ todo' = <<"start_shutdown">>
    /\ UNCHANGED <<kind, state, app, flowVars, loopVars, outVars, incoming,
                   sslVars, trVars, peerVars, written, cut, lostCalls>>

-----------------------------------------------------------------------------
(* What the transport and the loop call *)

Chunks == {<<>>, <<"data">>, <<"data", "data">>, <<"close">>, <<"data", "close">>}
DataIn(s) == Len(SelectSeq(s, LAMBDA x : x = "data"))

\* buffer_updated_impl(), with s behind what belongs to a handshake.
BufferUpdated(s) ==
    /\ Idle
    /\ tr = "open" /\ "ssl reading" \notin paused
    /\ peerClosed => s = <<>>
    /\ peerData + DataIn(s) <= MaxIn
    /\ peerData' = peerData + DataIn(s)
    /\ peerClosed' = (peerClosed \/ HasClose(s))
    /\ busy' \in (IF state \in {"WRAPPED", "FLUSHING"} THEN BOOLEAN ELSE {busy})
    /\ peerClosed' => ~busy'
    /\ s = <<>> => busy' # busy \/ state = "DO_HANDSHAKE"
    /\ incoming' = incoming \o s
    /\ todo' = (CASE state = "DO_HANDSHAKE" -> <<"do_handshake">>
                   [] state = "WRAPPED" -> <<"do_read">>
                   [] state = "FLUSHING" -> <<"do_flush">>
                   [] state = "SHUTDOWN" -> <<"do_shutdown">>
                   [] OTHER -> <<>>) \o <<"returns">>
    /\ UNCHANGED <<kind, state, app, waiter, flowVars, loopVars, outVars,
                   gotClose, sentClose, trVars, histVars>>

\* eof_received(), after which the transport closes.
EofReceived ==
    /\ Idle
    /\ tr = "open" /\ "ssl reading" \notin paused
    /\ \/ /\ state = "DO_HANDSHAKE"
          /\ todo' = <<"handshake_failed", "returns">>
          /\ UNCHANGED <<state, tr, timers, cut>>
       \/ /\ state \in {"WRAPPED", "FLUSHING", "SHUTDOWN"}
          /\ state' = "SHUTDOWN"
          /\ timers' = timers \ {"shutdown"}
          /\ tr' = Closed
          /\ cut' = TRUE
          /\ UNCHANGED todo
    /\ UNCHANGED <<kind, app, waiter, flowVars, reads, lostDue, outVars,
                   incoming, sslVars, tbuf, wire, peerVars, written, over, lostCalls>>

Returns ==
    /\ Runs("returns")
    /\ Then(<<>>)
    /\ UNCHANGED <<kind, state, app, waiter, flowVars, loopVars, outVars,
                   incoming, sslVars, trVars, peerVars, histVars>>

\* The socket takes what the transport has, all of it or, below the low-water
\* mark, a part: _on_write() calls resume_writing() of SSLProtocol.
Drain ==
    /\ Idle
    /\ tr \in {"open", "closing"} /\ tbuf
    /\ tbuf' \in (IF "ssl writing" \in paused THEN BOOLEAN ELSE {FALSE})
    /\ paused' = paused \ {"ssl writing"}
    /\ todo' = (IF "ssl writing" \notin paused THEN <<>>
                ELSE CASE state = "WRAPPED" -> <<"resumed">>
                       [] state = "FLUSHING" -> <<"do_flush">>
                       [] state = "SHUTDOWN" -> <<"do_shutdown">>
                       [] OTHER -> <<>>) \o <<"written">>
    /\ UNCHANGED <<kind, state, app, waiter, readLimits, writeLimits, loopVars,
                   outVars, incoming, sslVars, tr, wire, peerVars, histVars>>

\* The rest of _on_write(): a closing transport that is empty is done.
Written ==
    /\ Runs("written")
    /\ tr' = IF tr = "closing" /\ ~tbuf THEN "ending" ELSE tr
    /\ Then(<<>>)
    /\ UNCHANGED <<kind, state, app, waiter, flowVars, loopVars, outVars,
                   incoming, sslVars, tbuf, wire, peerVars, histVars>>

\* The connection fails, in the loop or when a method writes.
TransportFails ==
    /\ Idle \/ Runs("control_app_writing") \/ Runs("control_ssl_reading")
    /\ tr \in {"open", "closing"}
    /\ tr' = "ending"
    /\ UNCHANGED <<kind, state, app, waiter, todo, flowVars, loopVars, outVars,
                   incoming, sslVars, tbuf, wire, peerVars, histVars>>

\* connection_lost() of SSLProtocol clears _write_backlog and not its size, and
\* forgets the application's protocol and both transports ("gone").
MustTell == app \in {"made", "eof"}
ConnectionLost ==
    /\ Idle
    /\ tr = "ending"
    /\ tr' = "gone"
    /\ outgoing' = <<>>
    /\ IF state # "DO_HANDSHAKE" /\ MustTell
       THEN app' = "lost" /\ lostDue' = TRUE
       ELSE UNCHANGED <<app, lostDue>>
    /\ state' = "UNWRAPPED"
    /\ waiter' = IF waiter = "waiting" THEN "over" ELSE waiter
    /\ timers' = {}
    /\ UNCHANGED <<kind, todo, flowVars, reads, backlog, incoming,
                   sslVars, tbuf, wire, peerVars, histVars>>

RunDoRead ==
    /\ Idle /\ reads > 0
    /\ reads' = reads - 1
    /\ todo' = <<"do_read">>
    /\ UNCHANGED <<kind, state, app, waiter, flowVars, timers, lostDue, outVars,
                   incoming, sslVars, trVars, peerVars, histVars>>

\* connection_lost() of the application.
RunLost ==
    /\ Idle /\ lostDue
    /\ lostDue' = FALSE
    /\ lostCalls' = lostCalls + 1
    /\ UNCHANGED <<kind, state, app, waiter, todo, flowVars, reads, timers,
                   outVars, incoming, sslVars, trVars, peerVars, written, over,
                   cut>>

-----------------------------------------------------------------------------

\* What the code does next when no callback of the application runs.
Code ==
    \/ HandshakeAgain \/ HandshakeDone \/ HandshakeFails
    \/ OnHandshakeComplete \/ WakeupWaiter \/ OnHandshakeFailed
    \/ ReadNothing \/ ReadFails \/ \E n \in 0..Len(incoming) : Read(n)
    \/ WriteOut \/ ControlSSLReading \/ CallEof
    \/ ControlAppWriting \/ ResumedWriting
    \/ StartShutdown \/ DoFlush \/ DoShutdown \/ VoidFails
    \/ EndFlush \/ Unwrap \/ ShutdownComplete
    \/ Returns \/ Written

User ==
    \/ WriteData \/ Close \/ UserAborts \/ PauseReading \/ ResumeReading
    \/ \E l \in ReadLimits : SetReadLimits(l)
    \/ \E l \in WriteLimits : SetWriteLimits(l)
    \/ CancelWait

Next ==
    \/ Code \/ User \/ UserReturns \/ UserRaises \/ CancelledCloses
    \/ HandshakeTimeout \/ ShutdownTimeout
    \/ \E s \in Chunks : BufferUpdated(s)
    \/ EofReceived \/ Drain \/ TransportFails \/ ConnectionLost
    \/ RunDoRead \/ RunLost

Spec == Init /\ [][Next]_vars

-----------------------------------------------------------------------------
(* Properties *)

\* _do_flush: "We don't send close_notify in FLUSHING because we still want to
\* send the remaining data".  All bytes that were accepted go in front of
\* close_notify, and none behind it, whatever made the SSL object or the
\* transport hold them back and whichever callback closed.
FlushedFirst ==
    LET sent == wire \o Payload(outgoing)
    IN  HasClose(sent) /\ ~cut =>
            sent = [i \in 1..written |-> "app"] \o <<"close">>

\* The life of the application's protocol (sslproto.pxd): no data before
\* connection_made(), after eof_received(), or after close() and abort(), from
\* inside a callback too; nothing at all once connection_lost() is called or
\* scheduled, though the application may go on to use its transport and calls of
\* _do_read() may be left in Loop._ready; and that call comes once.
Entered(f) == todo' # todo /\ Len(todo') >= Len(todo) /\ Runs(f)'
AppOrder ==
    [][ /\ Entered("data_received") => app = "made" /\ ~over
        /\ \A f \in Callbacks : Entered(f) => ~lostDue /\ lostCalls = 0
        /\ lostCalls' <= 1 ]_vars

\* No peer can make a handshake or a shutdown last for ever: whenever the
\* protocol waits for one, on a transport that nobody has closed, its timeout
\* runs; UNWRAPPED never leaves the transport open; and in the end the
\* application hears of the loss, except in a start_tls() that failed.
PeerCannotHang ==
    /\ tr = "open" =>
          /\ state = "DO_HANDSHAKE" => "handshake" \in timers
          /\ state \in {"FLUSHING", "SHUTDOWN"} => "shutdown" \in timers
    /\ state = "UNWRAPPED" => tr \in {"ending", "gone"}
    /\ tr = "gone" => \/ app = "init" \/ lostDue \/ lostCalls = 1
                      \/ kind = "upgrade" /\ waiter # "ok"

\* Flow control never stops for good.  When the loop is idle and nothing is
\* scheduled, the application may write unless the transport or the SSL object
\* holds its bytes back, and the transport reads unless the application has
\* stopped reading.
FlowResumes ==
    Idle /\ state = "WRAPPED" /\ tr = "open" /\ reads = 0
    /\ "app reading" \notin paused =>
        /\ "app writing" \in paused => "ssl writing" \in paused \/ busy
        /\ "ssl reading" \notin paused
=============================================================================
