--------------------------- MODULE DatagramProofs ---------------------------
(***************************************************************************)
(* A UDP transport flushes before connection_lost, and a paused protocol has *)
(* something to wait for, for any water marks and any number of datagrams,   *)
(* received or sent, and of calls inside one another.                        *)
(***************************************************************************)
EXTENDS Datagram, SequenceTheorems, TLAPS

\* What libuv's queue holds; datagrams are numbered from 1.
Datagrams == [n : Nat \ {0}, status : {"queued", "sent", "error", "cancelled"}]

TypeOK ==
    /\ made \in BOOLEAN /\ waiter \in {"pending", "done", "cancelled"}
    /\ hasProtocol \in BOOLEAN /\ receiving \in BOOLEAN
    /\ closing \in BOOLEAN /\ connLost \in BOOLEAN /\ closed \in BOOLEAN
    /\ paused \in BOOLEAN
    /\ unresumed \in BOOLEAN /\ unclosed \in BOOLEAN
    /\ lost \in Nat /\ lostCalls \in Nat
    /\ sends \in Nat /\ promised \in Nat /\ received \in Nat
    /\ stack \in Seq(Frames)
    /\ queue \in Seq(Datagrams)

\* The kernel has answered every datagram that close() promised to send.
Answered == \A i \in DOMAIN queue :
    queue[i].n <= promised => queue[i].status \in {"sent", "error"}

\* connection_lost() is scheduled, and called, behind what was promised; the
\* datagrams sent after close() are numbered higher.
QueueInv ==
    /\ promised <= sends
    /\ \A i \in DOMAIN queue : queue[i].n <= sends
    /\ lost > 0 \/ lostCalls > 0 => closing /\ Answered

StackInv ==
    /\ "lost" \in Range(stack) => lostCalls > 0
    /\ hasProtocol = ~closed
    /\ PausedForAReason

IInv == TypeOK /\ QueueInv /\ StackInv

-----------------------------------------------------------------------------
(* The stack *)

\* Append pushes one frame.
LEMMA Pushed ==
    ASSUME NEW s \in Seq(Frames), NEW f \in Frames
    PROVE  /\ Append(s, f) \in Seq(Frames)
           /\ Range(Append(s, f)) = Range(s) \union {f}
<1> DEFINE q == Append(s, f)
<1>1. /\ q \in Seq(Frames) /\ Len(s) \in Nat
      /\ DOMAIN s = 1..Len(s) /\ DOMAIN q = 1..(Len(s) + 1)
      /\ \A i \in DOMAIN s : q[i] = s[i]
      /\ q[Len(s) + 1] = f
  OBVIOUS
<1> HIDE DEF q
<1>2. Range(q) = Range(s) \union {f}
  BY <1>1 DEF Range
<1>3. QED
  BY <1>1, <1>2 DEF q

\* Front pops the last one.
LEMMA Popped ==
    ASSUME NEW s \in Seq(Frames), s # <<>>
    PROVE  /\ Front(s) \in Seq(Frames)
           /\ Range(Front(s)) \subseteq Range(s)
           /\ Last(s) \in Range(s)
           /\ \A f \in Range(s) : f = Last(s) \/ f \in Range(Front(s))
<1> DEFINE q == Front(s)
<1>1. Len(s) \in Nat /\ Len(s) >= 1 /\ DOMAIN s = 1..Len(s)
  OBVIOUS
<1>2. /\ q \in Seq(Frames) /\ DOMAIN q = 1..(Len(s) - 1)
      /\ \A i \in DOMAIN q : q[i] = s[i]
  BY <1>1 DEF Front
<1>3. Last(s) = s[Len(s)]
  BY DEF Last
<1> HIDE DEF q
<1>4. \A i \in DOMAIN s : i = Len(s) \/ i \in DOMAIN q
  BY <1>1, <1>2
<1>5. QED
  BY <1>1, <1>2, <1>3, <1>4 DEF Range, q

\* A frame on top is in the stack.
LEMMA OnTop ==
    ASSUME TypeOK, NEW f \in Frames, Top = f
    PROVE  stack # <<>> /\ Last(stack) = f /\ stack \in Seq(Frames)
<1>1. f # "none"
  BY DEF Frames
<1>2. QED
  BY <1>1 DEF Top, AtLoop, TypeOK

\* _on_sent schedules connection_lost() for an empty queue only, and leaves
\* the protocol paused only while there is something in the queue.
LEMMA TailOfOnSent ==
    ASSUME TypeOK, NEW q \in Seq(Datagrams), NEW below \in Seq(Frames),
           OnSentTail(q, below)
    PROVE  /\ stack' \in Seq(Frames) /\ paused' \in BOOLEAN
           /\ Range(stack') \subseteq Range(below) \union {"resume"}
           /\ lost' = lost \/ (lost' = lost + 1 /\ q = <<>> /\ closing)
           /\ paused' => q # <<>>
<1>1. "resume" \in Frames
  BY DEF Frames
<1>2. /\ Append(below, "resume") \in Seq(Frames)
      /\ Range(Append(below, "resume")) = Range(below) \union {"resume"}
  BY <1>1, Pushed
<1>3. stack' = below \/ stack' = Append(below, "resume")
  BY DEF OnSentTail
<1>4. paused' => q # <<>>
  <2>1. Low \in Nat
    BY DatagramAssumption
  <2>2. q = <<>> => Len(q) = 0
    OBVIOUS
  <2>3. CASE paused /\ Len(q) <= Low
    BY <2>3, Zenon DEF OnSentTail
  <2>4. CASE ~(paused /\ Len(q) <= Low)
    <3>1. paused' = paused
      BY <2>4, Zenon DEF OnSentTail
    <3>2. paused => ~(Len(q) <= Low)
      BY <2>4, Zenon
    <3>3. QED
      BY <2>1, <2>2, <3>1, <3>2
  <2>5. QED
    BY <2>3, <2>4, Zenon
<1>5. lost' = lost \/ (lost' = lost + 1 /\ q = <<>> /\ closing)
  BY DEF OnSentTail, CloseWhenDrained, ScheduleLost
<1>6. paused' \in BOOLEAN
  BY DEF OnSentTail, TypeOK
<1>7. QED
  BY <1>2, <1>3, <1>4, <1>5, <1>6

\* error_received() is called for a protocol that is there.
LEMMA ErrorOfOnSent ==
    ASSUME TypeOK, OnSentError
    PROVE  /\ stack' \in Seq(Frames) /\ UNCHANGED <<lost, paused>>
           /\ Range(stack') \subseteq Range(stack) \union {"sent"}
           /\ hasProtocol => "sent" \in Range(stack')
<1>1. "sent" \in Frames
  BY DEF Frames
<1>2. /\ Append(stack, "sent") \in Seq(Frames)
      /\ Range(Append(stack, "sent")) = Range(stack) \union {"sent"}
  BY <1>1, Pushed DEF TypeOK
<1>3. QED
  BY <1>2 DEF OnSentError, Push, TypeOK

-----------------------------------------------------------------------------
(* The queue *)

\* Datagrams keep their numbers and, once they have one, their answers, when
\* the kernel answers, when libuv cancels and when a callback takes one off;
\* and every datagram that is added has the next number.
Numbers(q) == \A i \in DOMAIN q : q[i].n <= sends
Kept(q) == \A i \in DOMAIN q : \E j \in DOMAIN queue :
    /\ q[i].n = queue[j].n
    /\ queue[j].status \in {"sent", "error"} => q[i].status = queue[j].status

\* What leaves _on_sent says so, if it should have done something.
LEMMA Left ==
    ASSUME IInv, LeaveOnSent, queue' = queue
    PROVE  /\ stack' = Front(stack) /\ UNCHANGED <<paused, lost>>
           /\ unresumed' \in BOOLEAN /\ unclosed' \in BOOLEAN
           /\ paused' /\ ~unresumed' => queue' # <<>>
  BY DEF IInv, TypeOK, LeaveOnSent

\* The kernel answers one datagram.
LEMMA KernelAnswers ==
    ASSUME TypeOK, KernelSends
    PROVE  queue' \in Seq(Datagrams) /\ Kept(queue')
<1>1. PICK i \in Pending, status \in {"sent", "error"} :
         queue' = [queue EXCEPT ![i].status = status]
  BY DEF KernelSends
<1>2. i \in DOMAIN queue /\ queue[i].status = "queued"
  BY DEF Pending
<1>3. /\ queue \in Seq(Datagrams) /\ Len(queue) \in Nat
      /\ DOMAIN queue = 1..Len(queue) /\ queue[i] \in Datagrams
  BY <1>2 DEF TypeOK
<1>4. PICK d \in Datagrams : d.n = queue[i].n /\ d.status = status
                             /\ d = [queue[i] EXCEPT !.status = status]
  <2>1. [queue[i] EXCEPT !.status = status] \in Datagrams
    BY <1>3 DEF Datagrams
  <2>2. /\ [queue[i] EXCEPT !.status = status].n = queue[i].n
        /\ [queue[i] EXCEPT !.status = status].status = status
    BY <1>3 DEF Datagrams
  <2>3. QED
    BY <2>1, <2>2
<1>5. queue' = [queue EXCEPT ![i] = d]
  BY <1>1, <1>4
<1>6. queue' \in Seq(Datagrams)
  BY <1>2, <1>3, <1>5, ExceptSeq
<1>7. DOMAIN queue' = DOMAIN queue /\ queue'[i] = d
      /\ \A j \in DOMAIN queue : j # i => queue'[j] = queue[j]
  BY <1>2, <1>3, <1>5
<1>8. QED
  BY <1>2, <1>4, <1>6, <1>7 DEF Kept

\* uv_close() cancels what has no answer.
LEMMA Cancelled ==
    ASSUME TypeOK, CloseHandle
    PROVE  queue' \in Seq(Datagrams) /\ Kept(queue')
<1> DEFINE c(i) == IF queue[i].status = "queued"
                   THEN [queue[i] EXCEPT !.status = "cancelled"] ELSE queue[i]
<1>1. /\ Len(queue) \in Nat /\ DOMAIN queue = 1..Len(queue)
      /\ \A i \in DOMAIN queue : queue[i] \in Datagrams
  BY DEF TypeOK
<1>2. \A i \in DOMAIN queue :
        /\ c(i) \in Datagrams /\ c(i).n = queue[i].n
        /\ queue[i].status \in {"sent", "error"} => c(i) = queue[i]
  BY <1>1 DEF Datagrams
<1>3. queue' = [i \in DOMAIN queue |-> c(i)]
  BY DEF CloseHandle
<1> HIDE DEF c
<1>4. queue' \in Seq(Datagrams)
  BY <1>1, <1>2, <1>3
<1>5. QED
  BY <1>2, <1>3, <1>4 DEF Kept

\* A callback takes the first datagram off the queue.
LEMMA TakenOff ==
    ASSUME TypeOK, queue # <<>>
    PROVE  Tail(queue) \in Seq(Datagrams) /\ Kept(Tail(queue))
<1> DEFINE q == Tail(queue)
<1>1. /\ Len(queue) \in Nat /\ Len(queue) >= 1
      /\ DOMAIN queue = 1..Len(queue) /\ queue \in Seq(Datagrams)
  BY DEF TypeOK
<1>2. /\ q \in Seq(Datagrams) /\ DOMAIN q = 1..(Len(queue) - 1)
      /\ \A i \in DOMAIN q : q[i] = queue[i + 1]
  BY <1>1
<1>3. \A i \in DOMAIN q : i + 1 \in DOMAIN queue
  BY <1>1, <1>2
<1>4. QED
  BY <1>2, <1>3 DEF Kept

\* sendto() adds a datagram with the next number, or nothing.
LEMMA Sent ==
    ASSUME TypeOK, SendTo
    PROVE  /\ queue' \in Seq(Datagrams)
           /\ \A i \in DOMAIN queue' :
                queue'[i].n = sends + 1
                  \/ (i \in DOMAIN queue /\ queue'[i] = queue[i])
<1> DEFINE d == Datagram(sends + 1, "queued")
<1>1. d \in Datagrams /\ d.n = sends + 1
  BY DEF Datagram, Datagrams, TypeOK
<1>2. /\ Len(queue) \in Nat /\ DOMAIN queue = 1..Len(queue)
      /\ queue \in Seq(Datagrams)
  BY DEF TypeOK
<1>3. /\ Append(queue, d) \in Seq(Datagrams)
      /\ DOMAIN Append(queue, d) = 1..(Len(queue) + 1)
      /\ \A i \in DOMAIN queue : Append(queue, d)[i] = queue[i]
      /\ Append(queue, d)[Len(queue) + 1] = d
  BY <1>1, <1>2
<1>4. queue' = queue \/ queue' = Append(queue, d)
  BY DEF SendTo, SendNow, SendQueued
<1> HIDE DEF d
<1>5. QED
  BY <1>1, <1>2, <1>3, <1>4

\* Every action keeps the types.
LEMMA TypeStep == IInv /\ [Next]_vars => TypeOK'
<1> SUFFICES ASSUME IInv, [Next]_vars PROVE TypeOK'
  OBVIOUS
<1> USE DEF IInv, TypeOK
<1>1. CASE SendTo
<2>1. queue' \in Seq(Datagrams)
  BY <1>1, Sent
<2>2. stack' \in Seq(Frames) /\ paused' \in BOOLEAN /\ lost' \in Nat
  <3>1. CASE SendNow
    <4>1. <<>> \in Seq(Datagrams)
      OBVIOUS
    <4>2. CASE OnSentTail(<<>>, stack)
      <5>1. /\ stack' \in Seq(Frames) /\ paused' \in BOOLEAN
            /\ lost' = lost \/ lost' = lost + 1
        <6> HIDE DEF TypeOK
        <6>1. TypeOK /\ stack \in Seq(Frames)
          BY DEF TypeOK
        <6>2. QED
          BY <4>1, <4>2, <6>1, TailOfOnSent, Zenon
      <5>2. QED
        BY <5>1
    <4>3. CASE OnSentError
      BY <4>3, ErrorOfOnSent
    <4>4. QED
      BY <3>1, <4>2, <4>3 DEF SendNow
  <3>2. CASE SendQueued
    <4>1. /\ Append(stack, "failed") \in Seq(Frames)
          /\ Append(stack, "pause") \in Seq(Frames)
      BY Pushed DEF Frames
    <4>2. QED
      BY <3>2, <4>1 DEF SendQueued, Push
  <3>3. QED
    BY <1>1, <3>1, <3>2 DEF SendTo
<2>3. QED
  BY <1>1, <2>1, <2>2 DEF SendTo, making, ending, history
<1>2. CASE KernelSends
<2>1. queue' \in Seq(Datagrams)
  BY <1>2, KernelAnswers
<2>2. QED
  BY <1>2, <2>1 DEF KernelSends, making, ending, history
<1>3. CASE OnSend
<2>1. queue' \in Seq(Datagrams)
  BY <1>3, TakenOff DEF OnSend
<2>2. stack' \in Seq(Frames) /\ paused' \in BOOLEAN /\ lost' \in Nat
  <3>1. CASE OnSentTail(Tail(queue), stack)
    <4>1. Tail(queue) \in Seq(Datagrams)
      BY <1>3, TakenOff DEF OnSend
    <4>2. /\ stack' \in Seq(Frames) /\ paused' \in BOOLEAN
          /\ lost' = lost \/ lost' = lost + 1
      <5> HIDE DEF TypeOK
      <5>1. TypeOK /\ stack \in Seq(Frames)
        BY DEF TypeOK
      <5>2. QED
        BY <3>1, <4>1, <5>1, TailOfOnSent, Zenon
    <4>3. QED
      BY <4>2
  <3>2. CASE OnSentError
    BY <3>2, ErrorOfOnSent
  <3>3. QED
    BY <1>3, <3>1, <3>2 DEF OnSend
<2>3. QED
  BY <1>3, <2>1, <2>2 DEF OnSend, making, ending, history
<1>4. CASE Abort
<2>1. receiving' \in BOOLEAN /\ connLost' \in BOOLEAN /\ closing' \in BOOLEAN
  <3>1. /\ receiving' = (receiving /\ closing)
        /\ connLost' = TRUE /\ closing' = TRUE
    BY <1>4, Zenon DEF Abort
  <3>2. (receiving /\ closing) \in BOOLEAN
    OBVIOUS
  <3>3. QED
    BY <3>1, <3>2, Zenon
<2>2. /\ lost' = lost + 1 /\ promised' = 0
      /\ UNCHANGED <<made, waiter, hasProtocol, closed, queue, sends, unresumed, unclosed,
                     lostCalls, paused, stack, received>>
  BY <1>4, Zenon DEF Abort, ScheduleLost, making, sending
<2>3. QED
  BY <2>1, <2>2
<1>5. CASE Close
<2>1. /\ receiving' = FALSE /\ closing' = TRUE /\ promised' = sends
      /\ UNCHANGED <<made, waiter, hasProtocol, closed, queue, sends, unresumed, unclosed,
                     lostCalls, paused, stack, received>>
  BY <1>5, Zenon DEF Close, making, sending
<2>2. connLost' \in BOOLEAN /\ lost' \in Nat
  <3>1. CASE queue = <<>>
    BY <1>5, <3>1 DEF Close, ScheduleLost
  <3>2. CASE queue # <<>>
    BY <1>5, <3>2 DEF Close
  <3>3. QED
    BY <3>1, <3>2
<2>3. QED
  BY <2>1, <2>2
<1>6. CASE CallLost
<2>1. Append(stack, "lost") \in Seq(Frames)
  BY Pushed DEF Frames
<2>2. stack' \in Seq(Frames)
  BY <1>6, <2>1 DEF CallLost, Push
<2>3. QED
  BY <1>6, <2>2 DEF CallLost, making, ending, sending
<1>7. CASE CallMade
<2>1. Append(stack, "made") \in Seq(Frames)
  BY Pushed DEF Frames
<2>2. stack' \in Seq(Frames)
  BY <1>7, <2>1 DEF CallMade, Push
<2>3. QED
  BY <1>7, <2>2 DEF CallMade, making, ending, sending, history
<1>8. CASE CancelWaiter
  BY <1>8 DEF CancelWaiter, making, ending, sending, history
<1>9. CASE Receive
<2>1. Append(stack, "received") \in Seq(Frames)
  BY Pushed DEF Frames
<2>2. stack' \in Seq(Frames)
  BY <1>9, <2>1 DEF Receive, Push
<2>3. QED
  BY <1>9, <2>2 DEF Receive, making, ending, sending, history
<1>10. CASE ReturnMade
<2>1. stack # <<>> /\ Last(stack) = "made" /\ Front(stack) \in Seq(Frames)
  BY <1>10, OnTop, Popped DEF ReturnMade, Frames
<2>2. QED
  BY <1>10, <2>1 DEF ReturnMade, WakeWaiter, ending, sending, history
<1>11. CASE ReturnLost
<2>1. stack # <<>> /\ Last(stack) = "lost" /\ Front(stack) \in Seq(Frames)
  BY <1>11, OnTop, Popped DEF ReturnLost, Frames
<2>2. queue' \in Seq(Datagrams)
  BY <1>11, Cancelled DEF ReturnLost
<2>3. QED
  BY <1>11, <2>1, <2>2 DEF ReturnLost, CloseHandle, making, history
<1>12. CASE ReturnSent
<2>1. stack # <<>> /\ Last(stack) = "sent" /\ Front(stack) \in Seq(Frames)
  BY <1>12, OnTop, Popped DEF ReturnSent, Frames
<2>2. /\ stack' \in Seq(Frames) /\ paused' \in BOOLEAN /\ lost' \in Nat
      /\ unresumed' \in BOOLEAN /\ unclosed' \in BOOLEAN
  <3>1. CASE OnSentTail(queue, Front(stack)) /\ UNCHANGED <<unresumed, unclosed>>
    BY <2>1, <3>1, TailOfOnSent
  <3>2. CASE LeaveOnSent
    BY <2>1, <3>2 DEF LeaveOnSent
  <3>3. QED
    BY <1>12, <3>1, <3>2 DEF ReturnSent
<2>3. QED
  BY <1>12, <2>2 DEF ReturnSent, making, ending, sending
<1>13. CASE ReturnResume
<2>1. stack # <<>> /\ Last(stack) = "resume" /\ Front(stack) \in Seq(Frames)
  BY <1>13, OnTop, Popped DEF ReturnResume, Frames
<2>2. /\ stack' \in Seq(Frames) /\ paused' \in BOOLEAN /\ lost' \in Nat
      /\ unresumed' \in BOOLEAN /\ unclosed' \in BOOLEAN
  BY <1>13, <2>1 DEF ReturnResume, LeaveOnSent, CloseWhenDrained, ScheduleLost
<2>3. QED
  BY <1>13, <2>2 DEF ReturnResume, making, ending, sending
<1>14. CASE ReturnOther
<2>1. /\ stack # <<>> /\ Last(stack) \in {"received", "pause", "failed"}
      /\ Front(stack) \in Seq(Frames)
  BY <1>14, OnTop, Popped DEF ReturnOther, Frames
<2>2. QED
  BY <1>14, <2>1 DEF ReturnOther, making, ending, sending, history
<1>15. CASE UNCHANGED vars
  BY <1>15 DEF vars, making, ending, sending, history
<1>16. QED
  BY <1>1, <1>2, <1>3, <1>4, <1>5, <1>6, <1>7, <1>8, <1>9, <1>10, <1>11,
     <1>12, <1>13, <1>14, <1>15 DEF Next, Returns

\* What leaves numbers and answers alone keeps QueueInv, if connection_lost()
\* is scheduled for an empty queue only.
LEMMA KeptAnswers ==
    ASSUME IInv, Kept(queue'), sends' = sends, promised' = promised,
           closing' = closing, lostCalls' = lostCalls,
           \/ lost' = lost \/ lost' = lost - 1
           \/ lost' = lost + 1 /\ queue' = <<>> /\ closing
    PROVE  QueueInv'
<1>1. \A i \in DOMAIN queue' : queue'[i].n <= sends'
  BY DEF Kept, IInv, QueueInv
<1>2. ASSUME Answered PROVE Answered'
  BY <1>2 DEF Kept, Answered
<1>3. queue' = <<>> => Answered'
  BY DEF Answered
<1>4. QED
  BY <1>1, <1>2, <1>3 DEF IInv, TypeOK, QueueInv

\* So does what leaves the queue alone.
LEMMA SameQueue == ASSUME queue' = queue PROVE Kept(queue')
  BY DEF Kept

\* Every action keeps the queue, and what is scheduled, in accordance.
LEMMA QueueStep == IInv /\ [Next]_vars => QueueInv'
<1> SUFFICES ASSUME IInv, [Next]_vars PROVE QueueInv'
  OBVIOUS
<1>1. CASE SendTo
<2>1. /\ UNCHANGED <<promised, closing, lostCalls>> /\ sends' = sends + 1
      /\ sends \in Nat /\ promised \in Nat /\ lost \in Nat
      /\ \A i \in DOMAIN queue : queue[i].n \in Nat /\ queue[i].n <= sends
  <3>1. \A i \in DOMAIN queue : queue[i] \in Datagrams
    BY DEF IInv, TypeOK
  <3>2. \A i \in DOMAIN queue : queue[i].n \in Nat
    BY <3>1 DEF Datagrams
  <3>3. UNCHANGED <<promised, closing, lostCalls>> /\ sends' = sends + 1
    BY <1>1 DEF SendTo, ending, history
  <3>4. QED
    BY <3>2, <3>3 DEF IInv, TypeOK, QueueInv
<2>2. \A i \in DOMAIN queue' :
          queue'[i].n = sends + 1
            \/ (i \in DOMAIN queue /\ queue'[i] = queue[i])
  BY <1>1, Sent DEF IInv
<2>3. lost' = lost \/ (lost' = lost + 1 /\ queue = <<>> /\ closing)
  <3>1. CASE SendNow
    <4>1. <<>> \in Seq(Datagrams) /\ stack \in Seq(Frames)
      BY DEF IInv, TypeOK
    <4>2. QED
      BY <3>1, <4>1, TailOfOnSent, ErrorOfOnSent DEF SendNow, IInv
  <3>2. CASE SendQueued
    BY <3>2 DEF SendQueued
  <3>3. QED
    BY <1>1, <3>1, <3>2 DEF SendTo
<2>4. promised <= sends /\ (lost > 0 \/ lostCalls > 0 => closing /\ Answered)
  BY DEF IInv, QueueInv
<2>5. queue = <<>> => Answered
  BY DEF Answered
<2>6. Answered => Answered'
  BY <2>1, <2>2, <2>4 DEF Answered
<2>7. QED
  BY <2>1, <2>2, <2>3, <2>4, <2>5, <2>6 DEF QueueInv
<1>2. CASE KernelSends
<2>1. Kept(queue')
  BY <1>2, KernelAnswers DEF IInv
<2>2. QED
  BY <1>2, <2>1, KeptAnswers DEF KernelSends, ending, history
<1>3. CASE OnSend
<2>1. Kept(queue') /\ queue' \in Seq(Datagrams)
  BY <1>3, TakenOff DEF OnSend, IInv
<2>2. stack \in Seq(Frames) /\ queue' = Tail(queue)
  BY <1>3 DEF OnSend, IInv, TypeOK
<2>3. lost' = lost \/ (lost' = lost + 1 /\ queue' = <<>> /\ closing)
  BY <1>3, <2>1, <2>2, TailOfOnSent, ErrorOfOnSent DEF OnSend, IInv
<2>4. QED
  BY <1>3, <2>1, <2>3, KeptAnswers DEF OnSend, ending, history
<1>4. CASE Abort
<2>1. /\ closing' = TRUE /\ promised' = 0 /\ UNCHANGED <<queue, sends>>
  BY <1>4 DEF Abort, sending
<2>2. \A i \in DOMAIN queue : queue[i] \in Datagrams
  BY DEF IInv, TypeOK
<2>3. Answered'
  BY <2>1, <2>2 DEF Answered, Datagrams
<2>4. QED
  BY <2>1, <2>3 DEF IInv, TypeOK, QueueInv
<1>5. CASE Close
<2>1. /\ closing' = TRUE /\ promised' = sends /\ ~closing
      /\ UNCHANGED <<queue, sends, lostCalls>>
      /\ queue # <<>> => lost' = lost
  BY <1>5 DEF Close, sending
<2>2. lost = 0 /\ lostCalls = 0
  BY <2>1 DEF IInv, QueueInv, TypeOK
<2>3. queue = <<>> => Answered'
  BY <2>1 DEF Answered
<2>4. QED
  BY <2>1, <2>2, <2>3 DEF IInv, TypeOK, QueueInv
<1>6. CASE CallLost
<2>1. /\ lost > 0 /\ lost' = lost - 1
      /\ lostCalls' \in {lostCalls, lostCalls + 1}
      /\ UNCHANGED <<queue, sends, promised, closing>>
  BY <1>6 DEF CallLost, sending, ending
<2>2. QED
  BY <2>1 DEF IInv, TypeOK, QueueInv, Answered
<1>7. CASE CallMade
<2>1. Kept(queue')
  BY <1>7, SameQueue DEF CallMade, sending
<2>2. QED
  BY <1>7, <2>1, KeptAnswers DEF CallMade, ending, sending, history
<1>8. CASE CancelWaiter
<2>1. Kept(queue')
  BY <1>8, SameQueue DEF CancelWaiter, sending
<2>2. QED
  BY <1>8, <2>1, KeptAnswers DEF CancelWaiter, ending, sending, history
<1>9. CASE Receive
<2>1. Kept(queue')
  BY <1>9, SameQueue DEF Receive, sending
<2>2. QED
  BY <1>9, <2>1, KeptAnswers DEF Receive, ending, sending, history
<1>10. CASE ReturnMade
<2>1. Kept(queue')
  BY <1>10, SameQueue DEF ReturnMade, sending
<2>2. QED
  BY <1>10, <2>1, KeptAnswers DEF ReturnMade, ending, sending, history
<1>11. CASE ReturnLost
<2>1. Kept(queue')
  BY <1>11, Cancelled DEF ReturnLost, IInv
<2>2. QED
  BY <1>11, <2>1, KeptAnswers DEF ReturnLost, history
<1>12. CASE ReturnSent
<2>1. Kept(queue')
  BY <1>12, SameQueue DEF ReturnSent, sending
<2>2. Front(stack) \in Seq(Frames) /\ queue \in Seq(Datagrams)
  BY <1>12, OnTop, Popped DEF ReturnSent, Frames, IInv, TypeOK
<2>3. lost' = lost \/ (lost' = lost + 1 /\ queue = <<>> /\ closing)
  BY <1>12, <2>2, TailOfOnSent DEF ReturnSent, LeaveOnSent, IInv
<2>4. QED
  BY <1>12, <2>1, <2>3, KeptAnswers DEF ReturnSent, ending, sending
<1>13. CASE ReturnResume
<2>1. Kept(queue')
  BY <1>13, SameQueue DEF ReturnResume, sending
<2>2. lost' = lost \/ (lost' = lost + 1 /\ queue' = <<>> /\ closing)
  BY <1>13 DEF ReturnResume, LeaveOnSent, CloseWhenDrained, ScheduleLost,
     sending
<2>3. QED
  BY <1>13, <2>1, <2>2, KeptAnswers DEF ReturnResume, ending, sending
<1>14. CASE ReturnOther
<2>1. Kept(queue')
  BY <1>14, SameQueue DEF ReturnOther, sending
<2>2. QED
  BY <1>14, <2>1, KeptAnswers DEF ReturnOther, ending, sending, history
<1>15. CASE UNCHANGED vars
  BY <1>15 DEF vars, making, ending, sending, history, sending, ending,
     QueueInv, Answered, IInv
<1>16. QED
  BY <1>1, <1>2, <1>3, <1>4, <1>5, <1>6, <1>7, <1>8, <1>9, <1>10, <1>11,
     <1>12, <1>13, <1>14, <1>15 DEF Next, Returns

\* Every action keeps a reason for a protocol to be paused.
LEMMA StackStep == IInv /\ [Next]_vars => StackInv'
<1> SUFFICES ASSUME IInv, [Next]_vars PROVE StackInv'
  OBVIOUS
<1>1. CASE SendTo
<2>1. UNCHANGED <<hasProtocol, closed, unresumed, unclosed, lostCalls>>
  BY <1>1 DEF SendTo, ending, history
<2>2. ~closed /\ hasProtocol
  BY <1>1 DEF SendTo, StackInv, IInv
<2>3. TypeOK /\ stack \in Seq(Frames) /\ <<>> \in Seq(Datagrams)
  BY DEF IInv, TypeOK
<2>4. CASE SendNow
  <3>1. CASE OnSentTail(<<>>, stack)
    <4>1. Range(stack') \subseteq Range(stack) \union {"resume"}
      BY <2>3, <3>1, TailOfOnSent
    <4>2. paused' => <<>> # <<>>
      BY <2>3, <3>1, TailOfOnSent
    <4>3. QED
      BY <2>1, <4>1, <4>2 DEF StackInv, PausedForAReason, IInv
  <3>2. CASE OnSentError
    <4>1. /\ Range(stack') \subseteq Range(stack) \union {"sent"}
          /\ "sent" \in Range(stack')
      BY <2>2, <2>3, <3>2, ErrorOfOnSent
    <4>2. QED
      BY <2>1, <4>1 DEF StackInv, PausedForAReason, IInv
  <3>3. QED
    BY <2>4, <3>1, <3>2 DEF SendNow
<2>5. CASE SendQueued
  <3>1. /\ Range(Append(stack, "failed")) = Range(stack) \union {"failed"}
        /\ Range(Append(stack, "pause")) = Range(stack) \union {"pause"}
    BY <2>3, Pushed DEF Frames
  <3>2. CASE Push("failed") /\ UNCHANGED <<queue, paused>>
    BY <2>1, <3>1, <3>2 DEF Push, StackInv, PausedForAReason, IInv
  <3>3. CASE queue' = Append(queue, Datagram(sends + 1, "queued"))
    <4>1. queue' # <<>>
      <5>1. Len(queue') = Len(queue) + 1 /\ Len(queue) \in Nat
        BY <3>3 DEF IInv, TypeOK
      <5>2. QED
        BY <5>1
    <4>2. \/ stack' = stack \/ stack' = Append(stack, "failed")
          \/ stack' = Append(stack, "pause")
      BY <2>5 DEF SendQueued, Push
    <4>3. Range(stack') \subseteq Range(stack) \union {"failed", "pause"}
      <5>1. CASE stack' = stack
        BY <5>1
      <5>2. CASE stack' = Append(stack, "failed")
        BY <3>1, <5>2
      <5>3. CASE stack' = Append(stack, "pause")
        BY <3>1, <5>3
      <5>4. QED
        BY <4>2, <5>1, <5>2, <5>3
    <4>4. QED
      BY <2>1, <4>1, <4>3 DEF StackInv, PausedForAReason, IInv
  <3>4. QED
    BY <2>5, <3>2, <3>3 DEF SendQueued
<2>6. QED
  BY <1>1, <2>4, <2>5 DEF SendTo
<1>2. CASE KernelSends
<2>1. queue' = <<>> => queue = <<>>
  BY <1>2 DEF KernelSends, IInv, TypeOK
<2>2. QED
  BY <1>2, <2>1
     DEF KernelSends, ending, history, StackInv, PausedForAReason, IInv
<1>3. CASE OnSend
<2>1. /\ UNCHANGED <<hasProtocol, closed, unresumed, unclosed, lostCalls>>
      /\ queue' = Tail(queue)
  BY <1>3 DEF OnSend, ending, history
<2>2. TypeOK /\ stack \in Seq(Frames) /\ Tail(queue) \in Seq(Datagrams)
  BY <1>3, TakenOff DEF OnSend, IInv, TypeOK
<2>3. CASE OnSentTail(Tail(queue), stack)
  <3>1. Range(stack') \subseteq Range(stack) \union {"resume"}
    BY <2>2, <2>3, TailOfOnSent
  <3>2. paused' => queue' # <<>>
    BY <2>1, <2>2, <2>3, TailOfOnSent
  <3>3. QED
    BY <2>1, <3>1, <3>2 DEF StackInv, PausedForAReason, IInv
<2>4. CASE OnSentError
  <3>1. /\ Range(stack') \subseteq Range(stack) \union {"sent"}
        /\ hasProtocol => "sent" \in Range(stack')
    BY <2>2, <2>4, ErrorOfOnSent
  <3>2. QED
    BY <2>1, <3>1 DEF StackInv, PausedForAReason, IInv
<2>5. QED
  BY <1>3, <2>3, <2>4 DEF OnSend
<1>4. CASE Abort
  BY <1>4 DEF Abort, sending, StackInv, PausedForAReason, IInv
<1>5. CASE Close
  BY <1>5 DEF Close, sending, StackInv, PausedForAReason, IInv
<1>6. CASE CallLost
<2>1. Range(Append(stack, "lost")) = Range(stack) \union {"lost"}
  BY Pushed DEF IInv, TypeOK, Frames
<2>2. CASE closed
  BY <1>6, <2>2 DEF CallLost, ending, sending, StackInv, PausedForAReason, IInv
<2>3. CASE ~closed
  <3>1. /\ stack' = Append(stack, "lost") /\ lostCalls' = lostCalls + 1
        /\ UNCHANGED <<hasProtocol, closed, queue, paused, unresumed, unclosed>>
    BY <1>6, <2>3 DEF CallLost, Push, ending, sending
  <3>2. QED
    BY <2>1, <3>1 DEF StackInv, PausedForAReason, IInv, TypeOK
<2>4. QED
  BY <2>2, <2>3
<1>7. CASE CallMade
<2>1. stack' = Append(stack, "made") \/ stack' = stack
  BY <1>7 DEF CallMade, Push
<2>2. Range(Append(stack, "made")) = Range(stack) \union {"made"}
  BY Pushed DEF IInv, TypeOK, Frames
<2>3. Range(stack') \subseteq Range(stack) \union {"made"}
  BY <2>1, <2>2
<2>4. "sent" \in Range(stack) => "sent" \in Range(stack')
  BY <2>1, <2>2
<2>5. QED
  BY <1>7, <2>3, <2>4 DEF CallMade, ending, sending, history, StackInv,
     PausedForAReason, IInv
<1>8. CASE CancelWaiter
  BY <1>8 DEF CancelWaiter, ending, sending, history, StackInv,
     PausedForAReason, IInv
<1>9. CASE Receive
<2>1. stack' = Append(stack, "received") \/ stack' = stack
  BY <1>9 DEF Receive, Push
<2>2. Range(Append(stack, "received")) = Range(stack) \union {"received"}
  BY Pushed DEF IInv, TypeOK, Frames
<2>3. Range(stack') \subseteq Range(stack) \union {"received"}
  BY <2>1, <2>2
<2>4. "sent" \in Range(stack) => "sent" \in Range(stack')
  BY <2>1, <2>2
<2>5. QED
  BY <1>9, <2>3, <2>4 DEF Receive, ending, sending, history, StackInv,
     PausedForAReason, IInv
<1>10. CASE ReturnMade
<2>1. /\ stack # <<>> /\ Last(stack) = "made" /\ stack \in Seq(Frames)
      /\ stack' = Front(stack)
  BY <1>10, OnTop DEF ReturnMade, Frames, IInv
<2>2. /\ Range(stack') \subseteq Range(stack)
      /\ "sent" \in Range(stack) => "sent" \in Range(stack')
  BY <2>1, Popped
<2>3. QED
  BY <1>10, <2>2 DEF ReturnMade, ending, sending, history, StackInv,
     PausedForAReason, IInv
<1>11. CASE ReturnLost
<2>1. /\ stack # <<>> /\ Last(stack) = "lost" /\ stack \in Seq(Frames)
      /\ stack' = Front(stack)
  BY <1>11, OnTop DEF ReturnLost, Frames, IInv
<2>2. "lost" \in Range(stack) /\ Range(stack') \subseteq Range(stack)
  BY <2>1, Popped
<2>3. lostCalls' = lostCalls /\ hasProtocol' = FALSE /\ closed' = TRUE
  BY <1>11 DEF ReturnLost, CloseHandle, history
<2>4. QED
  BY <2>2, <2>3 DEF StackInv, PausedForAReason, IInv
<1>12. CASE ReturnSent
<2>1. /\ UNCHANGED <<hasProtocol, closed, lostCalls, queue>>
  BY <1>12 DEF ReturnSent, ending, sending
<2>2. /\ TypeOK /\ queue \in Seq(Datagrams) /\ Front(stack) \in Seq(Frames)
      /\ Range(Front(stack)) \subseteq Range(stack)
  BY <1>12, OnTop, Popped DEF ReturnSent, Frames, IInv, TypeOK
<2>3. CASE OnSentTail(queue, Front(stack))
  <3>1. Range(stack') \subseteq Range(Front(stack)) \union {"resume"}
    BY <2>2, <2>3, TailOfOnSent
  <3>2. paused' => queue' # <<>>
    BY <2>1, <2>2, <2>3, TailOfOnSent
  <3>3. QED
    BY <2>1, <2>2, <3>1, <3>2 DEF StackInv, PausedForAReason, IInv
<2>4. CASE LeaveOnSent
  <3>1. /\ stack' = Front(stack)
        /\ paused' /\ ~unresumed' => queue' # <<>>
    BY <2>1, <2>4, Left
  <3>2. QED
    BY <2>1, <2>2, <3>1 DEF StackInv, PausedForAReason, IInv
<2>5. QED
  BY <1>12, <2>3, <2>4 DEF ReturnSent
<1>13. CASE ReturnResume
<2>1. /\ stack # <<>> /\ Last(stack) = "resume" /\ stack \in Seq(Frames)
      /\ stack' = Front(stack)
      /\ UNCHANGED <<hasProtocol, closed, queue, lostCalls>>
  BY <1>13, OnTop DEF ReturnResume, LeaveOnSent, Frames, ending, sending, IInv
<2>2. /\ Range(stack') \subseteq Range(stack)
      /\ "sent" \in Range(stack) => "sent" \in Range(stack')
  BY <2>1, Popped
<2>3. CASE LeaveOnSent
  <3>1. paused' /\ ~unresumed' => queue' # <<>>
    BY <2>1, <2>3, Left
  <3>2. QED
    BY <2>1, <2>2, <3>1 DEF StackInv, PausedForAReason, IInv
<2>4. CASE UNCHANGED <<paused, unresumed, unclosed>>
  BY <2>1, <2>2, <2>4 DEF StackInv, PausedForAReason, IInv
<2>5. QED
  BY <1>13, <2>3, <2>4 DEF ReturnResume
<1>14. CASE ReturnOther
<2>1. /\ stack # <<>> /\ Last(stack) \in {"received", "pause", "failed"}
      /\ stack \in Seq(Frames)
      /\ stack' = Front(stack)
  BY <1>14, OnTop DEF ReturnOther, Frames, IInv
<2>2. /\ Range(stack') \subseteq Range(stack)
      /\ "sent" \in Range(stack) => "sent" \in Range(stack')
  BY <2>1, Popped
<2>3. QED
  BY <1>14, <2>2 DEF ReturnOther, ending, sending, history, StackInv,
     PausedForAReason, IInv
<1>15. CASE UNCHANGED vars
  BY <1>15 DEF vars, making, ending, sending, history, ending, sending,
     history, StackInv, PausedForAReason, IInv
<1>16. QED
  BY <1>1, <1>2, <1>3, <1>4, <1>5, <1>6, <1>7, <1>8, <1>9, <1>10, <1>11,
     <1>12, <1>13, <1>14, <1>15 DEF Next, Returns

-----------------------------------------------------------------------------

\* The invariant holds throughout.
THEOREM Invariance == Spec => []IInv
<1>1. Init => IInv
  <2> SUFFICES ASSUME Init PROVE IInv
    OBVIOUS
  <2>1. Range(<<>>) = {}
    BY DEF Range
  <2>2. TypeOK
    <3>1. stack \in Seq(Frames) /\ queue \in Seq(Datagrams)
      BY DEF Init
    <3>2. /\ lost \in Nat /\ lostCalls \in Nat /\ received \in Nat
          /\ sends \in Nat /\ promised \in Nat
      BY DEF Init
    <3>3. QED
      BY <3>1, <3>2, Zenon DEF Init, TypeOK
  <2>3. QueueInv
    BY DEF Init, QueueInv, Answered
  <2>4. StackInv
    BY <2>1 DEF Init, StackInv, PausedForAReason
  <2>5. QED
    BY <2>2, <2>3, <2>4 DEF IInv
<1>2. IInv /\ [Next]_vars => IInv'
  BY TypeStep, QueueStep, StackStep DEF IInv
<1>3. QED
  BY <1>1, <1>2, PTL DEF Spec

\* Every variable of a UDPTransport keeps to its values.
THEOREM TypeCorrect == Spec => []TypeOK
<1>1. IInv => TypeOK
  BY DEF IInv
<1>2. QED
  BY <1>1, Invariance, PTL

\* close() of udp.pyx flushes: connection_lost() comes behind the answers to
\* all that was sent before.
THEOREM CloseFlushes == Spec => []Flushed
<1>1. IInv => Flushed
  BY DEF IInv, TypeOK, QueueInv, Answered, Flushed
<1>2. QED
  BY <1>1, Invariance, PTL

\* A protocol that _on_sent has not resumed waits for a callback to come.
THEOREM PauseHasReason == Spec => []PausedForAReason
<1>1. IInv => PausedForAReason
  BY DEF IInv, StackInv
<1>2. QED
  BY <1>1, Invariance, PTL

=============================================================================
