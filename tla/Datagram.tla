------------------------------ MODULE Datagram ------------------------------
(***************************************************************************)
(* A UDPTransport (handles/udp.pyx) with what it inherits from              *)
(* UVBaseTransport: sendto() at once or through libuv's queue, flow         *)
(* control, close() with sends outstanding, abort(), and the tail of        *)
(* Loop.create_datagram_endpoint.                                           *)
(*                                                                          *)
(* A call of the protocol is a frame of the Python stack: the program acts  *)
(* inside of it, and what the transport does after it is the frame's        *)
(* return.  Every datagram counts as one towards the water marks.           *)
(***************************************************************************)
EXTENDS Naturals, Sequences, SequencesExt

CONSTANTS
    High, Low,      \* water marks
    MaxSends,       \* bound: calls of sendto()
    MaxReceived,    \* bound: datagrams and errors received
    MaxDepth        \* bound: calls of the protocol inside one another

ASSUME DatagramAssumption ==
    /\ {High, Low, MaxSends, MaxReceived, MaxDepth} \subseteq Nat
    /\ Low <= High

VARIABLES
    made,       \* _call_connection_made is scheduled and has not run
    waiter,     \* of create_datagram_endpoint
    hasProtocol,\* _protocol is not None
    receiving,  \* __receiving
    closing, connLost, closed,  \* _closing, _conn_lost > 0, _closed
    paused,     \* _protocol_paused
    lost,       \* scheduled calls of _call_connection_lost
    stack,      \* calls of the protocol, the innermost last
    queue,      \* libuv's send queue, up to the callbacks that have yet to run
    sends,      \* calls of sendto() that were let through
    received,   \* datagrams and errors received
    unresumed,  \* history: an exception that left _on_sent kept the protocol
                \* paused with nothing in the queue
    unclosed,   \* history: one kept it from scheduling connection_lost()
    promised,   \* history: sends before close(), none after abort()
    lostCalls   \* history: calls of connection_lost()

making == <<made, waiter>>
ending == <<hasProtocol, closing, connLost, closed>>
sending == <<queue, sends>>
history == <<unresumed, unclosed, promised, lostCalls>>
vars == <<making, ending, sending, history, receiving, paused, lost, stack,
          received>>

Frames == {"made", "lost", "received", "sent", "resume", "pause", "failed"}

-----------------------------------------------------------------------------
(* The transport *)

Push(frame) == stack' = Append(stack, frame)
AtLoop == stack = <<>>
\* The innermost call of the protocol.
Top == IF AtLoop THEN "none" ELSE Last(stack)

\* The program has the transport from connection_made() on.
InUser == ~made /\ Len(stack) < MaxDepth

ScheduleLost == lost' = lost + 1

\* The end of _on_sent: q is what the queue is by now.
CloseWhenDrained(q) ==
    IF q = <<>> /\ closing THEN ScheduleLost ELSE UNCHANGED lost

\* Mutant of OnSentTail: resumes below the low-water mark only.
OnSentTail_BelowLow(q, below) ==
    IF paused /\ Len(q) < Low
    THEN paused' = FALSE /\ stack' = Append(below, "resume") /\ UNCHANGED lost
    ELSE stack' = below /\ CloseWhenDrained(q) /\ UNCHANGED paused

\* _on_sent without an error: _maybe_resume_protocol, then the end.  below
\* is the stack; a protocol that is gone raises an exception that is logged.
OnSentTail(q, below) ==
    IF paused /\ Len(q) <= Low
    THEN /\ paused' = FALSE
         /\ IF hasProtocol
            THEN stack' = Append(below, "resume") /\ UNCHANGED lost
            ELSE stack' = below /\ CloseWhenDrained(q)
    ELSE stack' = below /\ CloseWhenDrained(q) /\ UNCHANGED paused

\* error_received() of a protocol that is gone: the AttributeError leaves
\* _on_sent.
OnSentError ==
    /\ IF hasProtocol THEN Push("sent") ELSE UNCHANGED stack
    /\ UNCHANGED <<lost, paused>>

-----------------------------------------------------------------------------
(* sendto *)

Datagram(n, status) == [n |-> n, status |-> status]

SendNow ==
    /\ queue = <<>>
    /\ OnSentTail(<<>>, stack) \/ OnSentError
    /\ UNCHANGED queue

\* uv_udp_send(): refused, or queued, which may pause the protocol.
SendQueued ==
    /\ \/ Push("failed") /\ UNCHANGED <<queue, paused>>
       \/ /\ queue' = Append(queue, Datagram(sends + 1, "queued"))
          /\ IF Len(queue) + 1 > High /\ ~paused
             THEN paused' = TRUE /\ Push("pause")
             ELSE UNCHANGED <<paused, stack>>
    /\ UNCHANGED lost

SendTo ==
    /\ InUser /\ ~connLost /\ ~closed
    /\ sends < MaxSends
    /\ sends' = sends + 1
    /\ SendNow \/ SendQueued
    /\ UNCHANGED <<making, ending, history, receiving, received>>

\* The kernel takes the next datagram of the queue, or reports an error.
Pending == {i \in DOMAIN queue : queue[i].status = "queued"}

KernelSends ==
    /\ ~closed
    /\ \E i \in Pending, status \in {"sent", "error"} :
         /\ \A j \in Pending : i <= j
         /\ queue' = [queue EXCEPT ![i].status = status]
    /\ UNCHANGED <<making, ending, history, receiving, paused, lost, stack,
                   sends, received>>

\* __uv_udp_on_send: a cancelled send is logged as a fatal error.
OnSend ==
    /\ AtLoop /\ queue # <<>> /\ Head(queue).status # "queued"
    /\ queue' = Tail(queue)
    /\ IF Head(queue).status = "error" THEN OnSentError
       ELSE OnSentTail(Tail(queue), stack)
    /\ UNCHANGED <<making, ending, history, receiving, sends, received>>

-----------------------------------------------------------------------------
(* close and abort *)

Abort ==
    /\ InUser /\ ~connLost /\ ~closed
    /\ connLost' = TRUE /\ closing' = TRUE
    /\ receiving' = (receiving /\ closing)
    /\ ScheduleLost
    /\ promised' = 0
    /\ UNCHANGED <<making, hasProtocol, closed, sending, unresumed, unclosed,
                   lostCalls, paused, stack, received>>

\* Mutant of Close: connection_lost() is scheduled at once.
Close_AtOnce ==
    /\ InUser /\ ~closing /\ ~closed
    /\ closing' = TRUE /\ receiving' = FALSE
    /\ connLost' = TRUE /\ ScheduleLost
    /\ promised' = sends
    /\ UNCHANGED <<making, hasProtocol, closed, sending, unresumed, unclosed,
                   lostCalls, paused, stack, received>>

Close ==
    /\ InUser /\ ~closing /\ ~closed
    /\ closing' = TRUE /\ receiving' = FALSE
    /\ IF queue = <<>>
       THEN connLost' = TRUE /\ ScheduleLost
       ELSE UNCHANGED <<connLost, lost>>
    /\ promised' = sends
    /\ UNCHANGED <<making, hasProtocol, closed, sending, unresumed, unclosed,
                   lostCalls, paused, stack, received>>

\* uv_close() cancels the sends that have not completed.
CloseHandle ==
    /\ hasProtocol' = FALSE /\ closed' = TRUE
    /\ queue' = [i \in DOMAIN queue |->
         IF queue[i].status = "queued"
         THEN [queue[i] EXCEPT !.status = "cancelled"] ELSE queue[i]]

CallLost ==
    /\ AtLoop /\ ~made /\ lost > 0
    /\ lost' = lost - 1
    /\ IF closed THEN UNCHANGED <<stack, lostCalls>>
       ELSE Push("lost") /\ lostCalls' = lostCalls + 1
    /\ UNCHANGED <<making, ending, sending, receiving, paused, received,
                   unresumed, unclosed, promised>>

-----------------------------------------------------------------------------
(* Opening and receiving *)

CallMade ==
    /\ AtLoop /\ made
    /\ made' = FALSE
    /\ Push("made")
    /\ UNCHANGED <<waiter, ending, sending, history, receiving, paused, lost,
                   received>>

\* The task that awaits the endpoint is cancelled; nothing closes it.
CancelWaiter ==
    /\ waiter = "pending" /\ AtLoop
    /\ waiter' = "cancelled"
    /\ UNCHANGED <<made, ending, sending, history, receiving, paused,
                   lost, stack, received>>

\* __uv_udp_on_receive: datagram_received() or error_received().
Receive ==
    /\ AtLoop /\ receiving /\ ~closed
    /\ received < MaxReceived
    /\ received' = received + 1
    /\ Push("received")
    /\ UNCHANGED <<making, ending, sending, history, receiving, paused, lost>>

-----------------------------------------------------------------------------
(* The protocol returns, or raises *)

\* _wakeup_waiter
WakeWaiter == waiter' = IF waiter = "pending" THEN "done" ELSE waiter

\* Receiving starts even if connection_made() has called close().
ReturnMade ==
    /\ Top = "made"
    /\ stack' = Front(stack)
    /\ receiving' \in {TRUE, receiving}     \* not if connection_made() raised
    /\ WakeWaiter
    /\ UNCHANGED <<made, ending, sending, history, paused, lost,
                   received>>

ReturnLost ==
    /\ Top = "lost"
    /\ stack' = Front(stack)
    /\ CloseHandle
    /\ UNCHANGED <<making, closing, connLost, sends, history, receiving,
                   paused, lost, received>>

\* An exception leaves _on_sent before its end.
LeaveOnSent ==
    /\ stack' = Front(stack)
    /\ unresumed' = (unresumed \/ (queue = <<>> /\ paused))
    /\ unclosed' = (unclosed \/ (queue = <<>> /\ closing))
    /\ UNCHANGED <<paused, lost>>

\* error_received() in _on_sent.
ReturnSent ==
    /\ Top = "sent"
    /\ \/ OnSentTail(queue, Front(stack)) /\ UNCHANGED <<unresumed, unclosed>>
       \/ LeaveOnSent
    /\ UNCHANGED <<making, ending, sending, promised, lostCalls, receiving,
                   received>>

\* Mutant of ReturnResume: _on_sent ends with resume_writing().
ReturnResume_Last ==
    /\ Top = "resume"
    /\ stack' = Front(stack)
    /\ UNCHANGED <<making, ending, sending, history, receiving, paused, lost,
                   received>>

\* An exception of resume_writing() is logged, but a KeyboardInterrupt or
\* SystemExit leaves _on_sent too.
ReturnResume ==
    /\ Top = "resume"
    /\ \/ /\ stack' = Front(stack) /\ CloseWhenDrained(queue)
          /\ UNCHANGED <<paused, unresumed, unclosed>>
       \/ LeaveOnSent
    /\ UNCHANGED <<making, ending, sending, promised, lostCalls, receiving,
                   received>>

ReturnOther ==
    /\ Top \in {"received", "pause", "failed"}
    /\ stack' = Front(stack)
    /\ UNCHANGED <<making, ending, sending, history, receiving, paused, lost,
                   received>>

Init ==
    /\ made = TRUE /\ waiter = "pending"
    /\ hasProtocol = TRUE /\ receiving = FALSE
    /\ closing = FALSE /\ connLost = FALSE /\ closed = FALSE
    /\ paused = FALSE /\ lost = 0 /\ stack = <<>>
    /\ queue = <<>> /\ sends = 0 /\ received = 0
    /\ unresumed = FALSE /\ unclosed = FALSE
    /\ promised = 0 /\ lostCalls = 0

Returns ==
    ReturnMade \/ ReturnLost \/ ReturnSent \/ ReturnResume \/ ReturnOther

Next ==
    \/ CallMade \/ CallLost \/ Receive \/ OnSend \/ KernelSends
    \/ SendTo \/ Close \/ Abort \/ CancelWaiter
    \/ Returns

Spec == Init /\ [][Next]_vars

\* Calls return, scheduled calls are run, the kernel sends.
FairSpec ==
    /\ Spec
    /\ WF_vars(Returns) /\ WF_vars(CallMade) /\ WF_vars(CallLost)
    /\ WF_vars(KernelSends) /\ WF_vars(OnSend)

-----------------------------------------------------------------------------
(* Properties *)

\* close() flushes: connection_lost() comes after the kernel took, or refused,
\* every datagram sent before close(), unless abort() came later.
Flushed ==
    lostCalls > 0 => \A i \in DOMAIN queue :
        queue[i].n <= promised => queue[i].status \in {"sent", "error"}

\* A paused protocol waits for a completion that has yet to be reported, so
\* it is resumed; but for one that the last completion should have resumed,
\* had its error_received() not raised.
PausedForAReason ==
    paused /\ ~closed /\ ~unresumed => queue # <<>> \/ "sent" \in Range(stack)

\* A transport that is closing gets closed, whatever is queued and whoever
\* sends in the meantime.  The exception is a last completion whose
\* error_received() raised, or whose resume_writing() was left by a
\* KeyboardInterrupt or SystemExit: nothing schedules connection_lost() then.
CloseCompletes == closing ~> closed \/ unclosed

=============================================================================
