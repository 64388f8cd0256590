--------------------------- MODULE ConnectProofs ---------------------------
(***************************************************************************)
(* Whatever the number of addresses, the way a transport is opened and the  *)
(* order of cancellation and callbacks, a coroutine of Connect that raises  *)
(* leaves no transport behind, and its protocol gets one connection.        *)
(***************************************************************************)
EXTENDS Connect, TLAPS

\* The handles that call_soon() is given.
Entries == [what : {"wake", "made", "lost"}, k : Attempts]

TypeOK ==
    /\ mode \in Modes
    /\ co \in {"start", "waiting", "returned", "raised"}
    /\ attempt \in Nat /\ attempt >= 1
    /\ cancelled \in BOOLEAN
    /\ tr \in [Attempts -> {"none", "open", "closed", "unopened"}]
    /\ request \in [Attempts -> {"none", "sent", "cancelled"}]
    /\ waiter \in [Attempts ->
                     {"none", "pending", "result", "error", "cancelled"}]
    /\ fileobj \in {"own", "attached", "detached"}
    /\ fd \in {"none", "open", "libuv", "closed"}
    /\ made \in Seq(Attempts)
    /\ ready \in Seq(Entries)

\* The handles of a queue.
Among(q) == {q[i] : i \in DOMAIN q}

\* Only the attempt the coroutine is at has an open transport, and the ones
\* it has not come to are untouched.
AttemptInv ==
    /\ co = "waiting" => attempt \in Attempts
    /\ mode # "host" => attempt = 1
    /\ \A k \in Attempts :
         k > attempt \/ (k = attempt /\ co = "start") =>
           tr[k] = "none" /\ request[k] = "none" /\ waiter[k] = "none"
    /\ \A k \in Attempts :
         tr[k] = "open" => k = attempt /\ co \in {"waiting", "returned"}
    /\ \A k \in Attempts : request[k] = "sent" => tr[k] = "open"
    /\ co = "raised" /\ mode = "sock" => fileobj = "detached"

\* A waiter is pending only while the coroutine is at it and nobody has been
\* told of a connection; what it has then says whether somebody was.
WaiterInv ==
    \A k \in Attempts :
         /\ waiter[k] = "pending" =>
              tr[k] = "open" /\ co = "waiting" /\ made = <<>>
         /\ waiter[k] = "error" => tr[k] = "closed"
         /\ waiter[k] = "error" /\ k = attempt => made = <<>>
         /\ waiter[k] = "result" /\ k = attempt => made = <<attempt>>

\* A handle of Loop._ready that agrees with the transports and waiters.
Fits(e) ==
    /\ tr[e.k] \in {"open", "closed"}
    /\ e.what = "wake" =>
         co = "waiting" /\ e.k = attempt /\ waiter[attempt] # "pending"
    /\ e.what = "lost" => waiter[e.k] # "pending"
    /\ e.what = "made" =>
         request[e.k] # "sent" /\ (tr[e.k] = "open" => made = <<>>)

\* No handle is queued twice, "lost" excepted.
Distinct(q) ==
    \A i, j \in DOMAIN q : q[i] = q[j] /\ q[i].what # "lost" => i = j

QueueInv == Distinct(ready) /\ \A e \in Among(ready) : Fits(e)

\* connection_made() was called for nobody, or for the attempt in hand.
MadeInv ==
    /\ made = <<>> \/ made = <<attempt>>
    /\ co = "start" => made = <<>>
    /\ co = "returned" => made = <<attempt>>
    /\ \A k \in Attempts : request[k] = "sent" => made = <<>>

\* libuv has the descriptor of the program's socket from _open() to the end
\* of the transport.
SocketInv ==
    mode # "host" =>
      /\ \A k \in Attempts : request[k] = "none"
      /\ IF waiter[1] = "none" THEN fd = "open"
         ELSE \/ tr[1] = "open" /\ fd = "libuv"
              \/ tr[1] = "closed" /\ fd = "closed"

\* TypeOK, AttemptInv and SocketInv give FailureCleansUp; the rest makes them
\* inductive.
IInv == TypeOK /\ AttemptInv /\ WaiterInv /\ QueueInv /\ MadeInv /\ SocketInv

-----------------------------------------------------------------------------
(* The queue *)

\* Append adds one handle at the end.
LEMMA Appended ==
    ASSUME NEW s \in Seq(Entries), NEW e \in Entries, Distinct(s),
           e.what = "lost" \/ e \notin Among(s)
    PROVE  /\ Append(s, e) \in Seq(Entries)
           /\ Among(Append(s, e)) = Among(s) \union {e}
           /\ Among(s) \subseteq Entries
           /\ Distinct(Append(s, e))
<1> DEFINE q == Append(s, e)
<1>1. /\ q \in Seq(Entries) /\ Len(s) \in Nat
      /\ DOMAIN s = 1..Len(s) /\ DOMAIN q = 1..(Len(s) + 1)
      /\ \A i \in DOMAIN s : q[i] = s[i]
      /\ q[Len(s) + 1] = e
  OBVIOUS
<1>2. \A i \in DOMAIN s : s[i] \in Entries
  OBVIOUS
<1> HIDE DEF q
<1>3. Among(q) = Among(s) \union {e}
  BY <1>1 DEF Among
<1>4. Distinct(q)
  BY <1>1 DEF Among, Distinct
<1>5. QED
  BY <1>1, <1>2, <1>3, <1>4 DEF Among, q

\* Tail removes the first handle, of which there is one unless it is "lost".
LEMMA Taken ==
    ASSUME NEW s \in Seq(Entries), s # <<>>, Distinct(s)
    PROVE  /\ Tail(s) \in Seq(Entries)
           /\ Head(s) \in Among(s) /\ Head(s) \in Entries
           /\ Head(s).k \in Attempts
           /\ Among(Tail(s)) \subseteq Among(s) /\ Among(s) \subseteq Entries
           /\ Head(s).what # "lost" => Head(s) \notin Among(Tail(s))
           /\ Distinct(Tail(s))
<1> DEFINE q == Tail(s)
<1>1. Len(s) \in Nat /\ Len(s) >= 1 /\ DOMAIN s = 1..Len(s)
  OBVIOUS
<1>2. Head(s) = s[1] /\ \A i \in DOMAIN s : s[i] \in Entries
  BY <1>1
<1>3. /\ q \in Seq(Entries) /\ DOMAIN q = 1..(Len(s) - 1)
      /\ \A i \in DOMAIN q : q[i] = s[i + 1]
  BY <1>1
<1>4. \A i \in DOMAIN q : i + 1 \in DOMAIN s /\ i + 1 # 1
  BY <1>1, <1>3
<1> HIDE DEF q
<1>5. Head(s).what # "lost" => Head(s) \notin Among(q)
  BY <1>1, <1>2, <1>3, <1>4 DEF Among, Distinct
<1>6. Distinct(q)
  BY <1>1, <1>3, <1>4 DEF Distinct
<1>7. QED
  BY <1>1, <1>2, <1>3, <1>4, <1>5, <1>6 DEF Among, Entries, q

\* The members of a queue are handles.
LEMMA AmongEntries ==
    ASSUME NEW s \in Seq(Entries) PROVE Among(s) \subseteq Entries
  BY DEF Among

\* A sequence of at most one handle is appended by concatenation.
LEMMA Concatenated ==
    ASSUME NEW s \in Seq(Entries), NEW e \in Entries
    PROVE  s \o <<>> = s /\ s \o <<e>> = Append(s, e)
  OBVIOUS

\* The history of one connection.
LEMMA OneMade == ASSUME NEW k PROVE Append(<<>>, k) = <<k>>
  OBVIOUS

\* What the invariant says of the handle at the head of the queue.
LEMMA AtHead ==
    ASSUME IInv, ready # <<>>, NEW h, h = Head(ready).k
    PROVE  /\ h \in Attempts /\ tr[h] \in {"open", "closed"}
           /\ Head(ready).what = "wake" =>
                co = "waiting" /\ h = attempt /\ waiter[h] # "pending"
           /\ Head(ready).what = "lost" => waiter[h] # "pending"
           /\ Head(ready).what = "made" =>
                request[h] # "sent" /\ (tr[h] = "open" => made = <<>>)
<1>1. h \in Attempts /\ Fits(Head(ready))
  BY Taken DEF IInv, TypeOK, QueueInv
<1>2. QED
  BY <1>1 DEF Fits

\* Every action keeps one open transport at most, that of the attempt.
LEMMA AttemptStep == IInv /\ [Next]_vars => AttemptInv'
<1> SUFFICES ASSUME IInv, [Next]_vars PROVE AttemptInv'
  OBVIOUS
<1> USE ConnectAssumption DEF IInv, TypeOK, AttemptInv, WaiterInv, Attempts
<1>1. CASE StartSock
  BY <1>1 DEF StartSock, Open, Attempts
<1>2. CASE NextAddress
  BY <1>2 DEF NextAddress, Open, CloseTransport
<1>3. CASE NoAddress
  BY <1>3 DEF NoAddress
<1>4. CASE Wake
<2> DEFINE h == Head(ready).k
<2>1. ready # <<>> /\ Head(ready).what = "wake"
  BY <1>4 DEF Wake
<2>2. h \in Attempts /\ tr[h] \in {"open", "closed"}
  BY <2>1, AtHead
<2>3. co = "waiting" /\ h = attempt /\ waiter[h] # "pending"
  BY <2>1, AtHead
<2> HIDE DEF h
<2>0. UNCHANGED <<mode, cancelled, waiter, made>>
  BY <1>4 DEF Wake
<2>4. CASE Raise(h)
  BY <2>0, <2>2, <2>3, <2>4 DEF Raise, CloseTransport, Detached
<2>5. CASE TryNext(h) /\ waiter[h] = "error" /\ mode = "host"
  BY <2>0, <2>2, <2>3, <2>5 DEF TryNext, CloseTransport
<2>6. CASE Return /\ waiter[h] = "result"
  BY <2>0, <2>2, <2>3, <2>6 DEF Return
<2>7. QED
  BY <1>4, <2>4, <2>5, <2>6 DEF Wake, h
<1>5. CASE CallMade
<2> DEFINE h == Head(ready).k
<2>1. ready # <<>> /\ Head(ready).what = "made"
  BY <1>5 DEF CallMade, Due
<2>2. h \in Attempts /\ tr[h] \in {"open", "closed"}
  BY <2>1, AtHead
<2>3. request[h] # "sent" /\ (tr[h] = "open" => made = <<>>)
  BY <2>1, AtHead
<2>4. CASE ~Alive(h)
  BY <1>5, <2>2, <2>3, <2>4 DEF CallMade, Alive
<2>5. CASE Alive(h)
  <3>1. made = <<>> /\ made' = <<h>>
    BY <1>5, <2>2, <2>3, <2>5, OneMade DEF CallMade, Alive
  <3>2. QED
    BY <1>5, <2>2, <2>3, <2>5, <3>1 DEF CallMade, Alive
<2>6. QED
  BY <2>4, <2>5
<1>6. CASE CallLost
<2> DEFINE h == Head(ready).k
<2>1. ready # <<>> /\ Head(ready).what = "lost"
  BY <1>6 DEF CallLost, Due
<2>2. h \in Attempts /\ tr[h] \in {"open", "closed"}
  BY <2>1, AtHead
<2>3. waiter[h] # "pending"
  BY <2>1, AtHead
<2>4. UNCHANGED <<mode, co, attempt, waiter, made>>
  BY <1>6 DEF CallLost
<2>5. CASE UNCHANGED <<tr, request, fileobj>>
  BY <2>4, <2>5
<2>6. CASE CloseTransport(h) /\ fileobj' = Detached
  BY <2>2, <2>4, <2>6 DEF CloseTransport, Detached
<2>7. QED
  BY <1>6, <2>5, <2>6 DEF CallLost
<1>7. ASSUME NEW k \in Attempts, Connected(k) PROVE  AttemptInv'
  BY <1>7 DEF Connected
<1>8. ASSUME NEW k \in Attempts, ConnectFails(k) PROVE  AttemptInv'
  BY <1>8 DEF ConnectFails, Resolve
<1>9. CASE Cancel
  BY <1>9 DEF Cancel, Resolve
<1>10. ASSUME NEW k \in Attempts, Ends(k) PROVE  AttemptInv'
  BY <1>10 DEF Ends, AtLoop, CallSoon, Entry
<1>11. CASE UNCHANGED vars
  BY <1>11 DEF vars
<1>12. QED
  BY <1>1, <1>2, <1>3, <1>4, <1>5, <1>6, <1>7, <1>8, <1>9, <1>10, <1>11 DEF
     Next, Coroutine, Callbacks

\* Every action keeps what the waiters say of the transports.
LEMMA WaiterStep == IInv /\ [Next]_vars => WaiterInv'
<1> SUFFICES ASSUME IInv, [Next]_vars PROVE WaiterInv'
  OBVIOUS
<1> USE ConnectAssumption DEF IInv, TypeOK, AttemptInv, WaiterInv, MadeInv,
   Attempts
<1>1. CASE StartSock
  BY <1>1 DEF StartSock, Open, Attempts
<1>2. CASE NextAddress
  BY <1>2 DEF NextAddress, Open, CloseTransport
<1>3. CASE NoAddress
  BY <1>3 DEF NoAddress
<1>4. CASE Wake
<2> DEFINE h == Head(ready).k
<2>1. ready # <<>> /\ Head(ready).what = "wake"
  BY <1>4 DEF Wake
<2>2. h \in Attempts /\ tr[h] \in {"open", "closed"}
  BY <2>1, AtHead
<2>3. co = "waiting" /\ h = attempt /\ waiter[h] # "pending"
  BY <2>1, AtHead
<2> HIDE DEF h
<2>0. UNCHANGED <<mode, cancelled, waiter, made>>
  BY <1>4 DEF Wake
<2>4. CASE Raise(h)
  BY <2>0, <2>2, <2>3, <2>4 DEF Raise, CloseTransport, Detached
<2>5. CASE TryNext(h) /\ waiter[h] = "error" /\ mode = "host"
  BY <2>0, <2>2, <2>3, <2>5 DEF TryNext, CloseTransport
<2>6. CASE Return /\ waiter[h] = "result"
  BY <2>0, <2>2, <2>3, <2>6 DEF Return
<2>7. QED
  BY <1>4, <2>4, <2>5, <2>6 DEF Wake, h
<1>5. CASE CallMade
<2> DEFINE h == Head(ready).k
<2>1. ready # <<>> /\ Head(ready).what = "made"
  BY <1>5 DEF CallMade, Due
<2>2. h \in Attempts /\ tr[h] \in {"open", "closed"}
  BY <2>1, AtHead
<2>3. request[h] # "sent" /\ (tr[h] = "open" => made = <<>>)
  BY <2>1, AtHead
<2>4. CASE ~Alive(h)
  BY <1>5, <2>2, <2>3, <2>4 DEF CallMade, Alive
<2>5. CASE Alive(h)
  <3>1. made = <<>> /\ made' = <<h>>
    BY <1>5, <2>2, <2>3, <2>5, OneMade DEF CallMade, Alive
  <3>2. QED
    BY <1>5, <2>2, <2>3, <2>5, <3>1 DEF CallMade, Alive
<2>6. QED
  BY <2>4, <2>5
<1>6. CASE CallLost
<2> DEFINE h == Head(ready).k
<2>1. ready # <<>> /\ Head(ready).what = "lost"
  BY <1>6 DEF CallLost, Due
<2>2. h \in Attempts /\ tr[h] \in {"open", "closed"}
  BY <2>1, AtHead
<2>3. waiter[h] # "pending"
  BY <2>1, AtHead
<2>4. UNCHANGED <<co, attempt, waiter, made>>
  BY <1>6 DEF CallLost
<2>5. tr' = tr \/ tr' = [tr EXCEPT ![h] = "closed"]
  BY <1>6 DEF CallLost, CloseTransport
<2>6. QED
  BY <2>2, <2>3, <2>4, <2>5
<1>7. ASSUME NEW k \in Attempts, Connected(k) PROVE  WaiterInv'
  BY <1>7 DEF Connected
<1>8. ASSUME NEW k \in Attempts, ConnectFails(k) PROVE  WaiterInv'
  BY <1>8 DEF ConnectFails, Resolve
<1>9. CASE Cancel
  BY <1>9 DEF Cancel, Resolve
<1>10. ASSUME NEW k \in Attempts, Ends(k) PROVE  WaiterInv'
  BY <1>10 DEF Ends, AtLoop, CallSoon, Entry
<1>11. CASE UNCHANGED vars
  BY <1>11 DEF vars
<1>12. QED
  BY <1>1, <1>2, <1>3, <1>4, <1>5, <1>6, <1>7, <1>8, <1>9, <1>10, <1>11 DEF
     Next, Coroutine, Callbacks

\* Every action keeps the descriptor in accordance with the transport.
LEMMA SocketStep == IInv /\ [Next]_vars => SocketInv'
<1> SUFFICES ASSUME IInv, [Next]_vars, mode' # "host" PROVE SocketInv'
  BY DEF SocketInv
<1> USE DEF SocketInv
<1>0. /\ mode' = mode /\ mode # "host" /\ 1 \in Attempts /\ TypeOK
      /\ attempt = 1
  <2>1. mode' = mode
    BY DEF Next, Coroutine, Callbacks, StartSock, NextAddress, NoAddress, Wake,
       CallMade, CallLost, Connected, ConnectFails, Cancel, Ends, vars
  <2>2. 1 \in Attempts
    BY ConnectAssumption DEF Attempts
  <2>3. QED
    BY <2>1, <2>2 DEF IInv, AttemptInv
<1>1. CASE StartSock
  <2>1. waiter[1] = "none" /\ request' = request
    BY <1>0, <1>1 DEF StartSock, IInv, AttemptInv
  <2>2. CASE Open(1, "open") /\ fd' = "libuv"
    BY <1>0, <2>1, <2>2 DEF Open, TypeOK, IInv
  <2>3. CASE UNCHANGED <<waiter, fd>>
    BY <1>0, <2>1, <2>3 DEF IInv
  <2>4. QED
    BY <1>1, <2>2, <2>3 DEF StartSock
<1>2. CASE NextAddress
  BY <1>0, <1>2 DEF NextAddress
<1>3. CASE NoAddress
  BY <1>0, <1>3 DEF NoAddress, IInv
<1>4. CASE Wake
  <2>1. /\ ready # <<>> /\ Head(ready).what = "wake" /\ co = "waiting"
        /\ waiter' = waiter
    BY <1>4 DEF Wake
  <2>2. Head(ready).k = 1
    BY <1>0, <2>1, AtHead
  <2>3. CASE CloseTransport(1)
    BY <1>0, <2>1, <2>2, <2>3 DEF CloseTransport, TypeOK, IInv
  <2>4. CASE Return
    BY <1>0, <2>1, <2>4 DEF Return, IInv
  <2>5. QED
    BY <1>0, <1>4, <2>2, <2>3, <2>4 DEF Wake, Raise, TryNext
<1>5. CASE CallMade
  <2>1. UNCHANGED <<tr, request, fd>>
    BY <1>5 DEF CallMade
  <2>2. (waiter'[1] = "none") <=> (waiter[1] = "none")
    BY <1>0, <1>5 DEF CallMade, TypeOK
  <2>3. QED
    BY <1>0, <2>1, <2>2 DEF IInv
<1>6. CASE CallLost
  <2>1. waiter' = waiter /\ ready # <<>>
    BY <1>6 DEF CallLost, Due
  <2>2. Head(ready).k = 1
    <3>1. Head(ready).k \in Attempts /\ tr[Head(ready).k] \in {"open", "closed"}
      BY <2>1, AtHead
    <3>2. \A k \in Attempts : k > 1 => tr[k] = "none"
      BY <1>0 DEF IInv, AttemptInv
    <3>3. QED
      BY <3>1, <3>2, ConnectAssumption DEF Attempts
  <2>3. CASE CloseTransport(1)
    BY <1>0, <2>1, <2>2, <2>3 DEF CloseTransport, TypeOK, IInv
  <2>4. CASE UNCHANGED <<tr, request, fd>>
    BY <1>0, <2>1, <2>4 DEF IInv
  <2>5. QED
    BY <1>6, <2>2, <2>3, <2>4 DEF CallLost
<1>7. ASSUME NEW k \in Attempts, Connected(k) PROVE SocketInv'
  BY <1>0, <1>7 DEF Connected, IInv
<1>8. ASSUME NEW k \in Attempts, ConnectFails(k) PROVE SocketInv'
  BY <1>0, <1>8 DEF ConnectFails, IInv
<1>9. CASE Cancel
  BY <1>0, <1>9 DEF Cancel, Resolve, TypeOK, IInv
<1>10. ASSUME NEW k \in Attempts, Ends(k) PROVE SocketInv'
  BY <1>0, <1>10 DEF Ends, IInv
<1>11. CASE UNCHANGED vars
  BY <1>0, <1>11 DEF vars, IInv
<1>12. QED
  BY <1>1, <1>2, <1>3, <1>4, <1>5, <1>6, <1>7, <1>8, <1>9, <1>10, <1>11 DEF
     Next, Coroutine, Callbacks

\* Every action keeps the history of connection_made().
LEMMA MadeStep == IInv /\ [Next]_vars => MadeInv'
<1> SUFFICES ASSUME IInv, [Next]_vars PROVE MadeInv'
  OBVIOUS
<1> USE ConnectAssumption DEF IInv, TypeOK, AttemptInv, WaiterInv, MadeInv,
   Attempts
<1>1. CASE StartSock
  BY <1>1 DEF StartSock, Open, Attempts
<1>2. CASE NextAddress
  BY <1>2 DEF NextAddress, Open, CloseTransport
<1>3. CASE NoAddress
  BY <1>3 DEF NoAddress
<1>4. CASE Wake
<2> DEFINE h == Head(ready).k
<2>1. ready # <<>> /\ Head(ready).what = "wake"
  BY <1>4 DEF Wake
<2>2. h \in Attempts /\ tr[h] \in {"open", "closed"}
  BY <2>1, AtHead
<2>3. co = "waiting" /\ h = attempt /\ waiter[h] # "pending"
  BY <2>1, AtHead
<2> HIDE DEF h
<2>0. UNCHANGED <<mode, cancelled, waiter, made>>
  BY <1>4 DEF Wake
<2>4. CASE Raise(h)
  BY <2>0, <2>2, <2>3, <2>4 DEF Raise, CloseTransport, Detached
<2>5. CASE TryNext(h) /\ waiter[h] = "error" /\ mode = "host"
  BY <2>0, <2>2, <2>3, <2>5 DEF TryNext, CloseTransport
<2>6. CASE Return /\ waiter[h] = "result"
  BY <2>0, <2>2, <2>3, <2>6 DEF Return
<2>7. QED
  BY <1>4, <2>4, <2>5, <2>6 DEF Wake, h
<1>5. CASE CallMade
<2> DEFINE h == Head(ready).k
<2>1. ready # <<>> /\ Head(ready).what = "made"
  BY <1>5 DEF CallMade, Due
<2>2. h \in Attempts /\ tr[h] \in {"open", "closed"}
  BY <2>1, AtHead
<2>3. request[h] # "sent" /\ (tr[h] = "open" => made = <<>>)
  BY <2>1, AtHead
<2>4. CASE ~Alive(h)
  BY <1>5, <2>2, <2>3, <2>4 DEF CallMade, Alive
<2>5. CASE Alive(h)
  <3>1. made = <<>> /\ made' = <<h>>
    BY <1>5, <2>2, <2>3, <2>5, OneMade DEF CallMade, Alive
  <3>2. QED
    BY <1>5, <2>2, <2>3, <2>5, <3>1 DEF CallMade, Alive
<2>6. QED
  BY <2>4, <2>5
<1>6. CASE CallLost
<2> DEFINE h == Head(ready).k
<2>1. ready # <<>> /\ Head(ready).what = "lost"
  BY <1>6 DEF CallLost, Due
<2>2. h \in Attempts /\ tr[h] \in {"open", "closed"}
  BY <2>1, AtHead
<2>3. waiter[h] # "pending"
  BY <2>1, AtHead
<2>4. QED
  BY <1>6, <2>2, <2>3 DEF CallLost, Alive, CloseTransport, Detached
<1>7. ASSUME NEW k \in Attempts, Connected(k) PROVE  MadeInv'
  BY <1>7 DEF Connected
<1>8. ASSUME NEW k \in Attempts, ConnectFails(k) PROVE  MadeInv'
  BY <1>8 DEF ConnectFails, Resolve
<1>9. CASE Cancel
  BY <1>9 DEF Cancel, Resolve
<1>10. ASSUME NEW k \in Attempts, Ends(k) PROVE  MadeInv'
  BY <1>10 DEF Ends, AtLoop, CallSoon, Entry
<1>11. CASE UNCHANGED vars
  BY <1>11 DEF vars
<1>12. QED
  BY <1>1, <1>2, <1>3, <1>4, <1>5, <1>6, <1>7, <1>8, <1>9, <1>10, <1>11 DEF
     Next, Coroutine, Callbacks

\* Every action keeps the queue: what it appends fits, and what it changes
\* fits what is there.
LEMMA QueueStep == IInv /\ [Next]_vars => ready' \in Seq(Entries) /\ QueueInv'
<1> SUFFICES ASSUME IInv, [Next]_vars PROVE ready' \in Seq(Entries) /\ QueueInv'
  OBVIOUS
<1>1. CASE StartSock
<2>1. 1 \in Attempts /\ attempt = 1
  BY <1>1, ConnectAssumption DEF StartSock, Attempts, IInv, AttemptInv
<2>2. Among(ready) = {} /\ Distinct(ready) /\ ready \in Seq(Entries)
  <3>1. \A k \in Attempts : tr[k] = "none"
    BY <1>1, <2>1 DEF StartSock, IInv, AttemptInv, Attempts
  <3>2. ready \in Seq(Entries) /\ \A e \in Among(ready) : e \in Entries
    BY AmongEntries DEF IInv, TypeOK
  <3>3. \A e \in Entries : ~Fits(e)
    BY <3>1 DEF Fits, Entries
  <3>4. QED
    BY <3>2, <3>3 DEF IInv, QueueInv
<2> DEFINE new == Entry("made", 1)
<2>3. new \in Entries /\ new.what = "made" /\ new.k = 1
  BY <2>1 DEF Entry, Entries
<2>4. CASE ready' = Append(ready, new) /\ Open(1, "open")
  <3>1. /\ ready' \in Seq(Entries) /\ Distinct(ready')
        /\ Among(ready') = {new}
    BY <2>2, <2>3, <2>4, Appended
  <3>2. tr'[1] = "open" /\ request'[1] = "none" /\ made' = <<>>
    BY <1>1, <2>1, <2>4 DEF StartSock, Open, IInv, TypeOK, AttemptInv, MadeInv
  <3>3. Fits(new)'
    BY <2>3, <3>2 DEF Fits
  <3>4. QED
    BY <3>1, <3>3 DEF QueueInv
<2>5. CASE ready' = ready
  BY <2>2, <2>5 DEF QueueInv
<2>6. QED
  BY <1>1, <2>4, <2>5 DEF StartSock, CallSoon
<1>2. CASE NextAddress
<2>1. \A e \in Among(ready) : e \in Entries /\ Fits(e)
  BY AmongEntries DEF QueueInv, TypeOK, IInv
<2>2. attempt \in Attempts /\ tr[attempt] = "none"
  BY <1>2 DEF NextAddress, Attempts, IInv, TypeOK, AttemptInv
<2>3. UNCHANGED <<ready, made>> /\ co = "start"
  BY <1>2 DEF NextAddress
<2>4. \A k \in Attempts : k # attempt =>
         tr'[k] = tr[k] /\ request'[k] = request[k] /\ waiter'[k] = waiter[k]
  BY <1>2, <2>2 DEF NextAddress, Open, CloseTransport, IInv, TypeOK
<2>5. \A e \in Among(ready) : Fits(e)'
  BY <2>1, <2>2, <2>3, <2>4 DEF Fits, Entries
<2>6. QED
  BY <2>3, <2>5 DEF IInv, TypeOK, QueueInv
<1>3. CASE NoAddress
<2>1. \A e \in Among(ready) : e \in Entries /\ Fits(e)
  BY AmongEntries DEF QueueInv, TypeOK, IInv
<2>2. UNCHANGED <<ready, attempt, tr, request, waiter, made>> /\ co = "start"
  BY <1>3 DEF NoAddress
<2>3. \A e \in Among(ready) : Fits(e)'
  BY <2>1, <2>2 DEF Fits
<2>4. QED
  BY <2>2, <2>3 DEF IInv, TypeOK, QueueInv
<1>4. CASE Wake
<2> DEFINE h == Head(ready).k
<2>1. ready # <<>> /\ Head(ready).what = "wake"
  BY <1>4 DEF Wake
<2>2. /\ h \in Attempts /\ tr[h] \in {"open", "closed"}
      /\ Tail(ready) \in Seq(Entries) /\ Distinct(Tail(ready))
      /\ Head(ready) \in Entries
      /\ \A e \in Among(Tail(ready)) :
           /\ e \in Entries /\ e \in Among(ready) /\ Fits(e)
           /\ Head(ready).what # "lost" => e # Head(ready)
  BY <2>1, AtHead, Taken DEF QueueInv, TypeOK, IInv
<2>3. co = "waiting" /\ h = attempt /\ waiter[h] # "pending"
  BY <2>1, AtHead
<2>4. ready' = Tail(ready) /\ waiter' = waiter /\ made' = made
  BY <1>4 DEF Wake
<2>5. \A e \in Among(Tail(ready)) : e.what # "wake"
  BY <2>1, <2>2, <2>3 DEF Fits, Entries
<2>6. \A k \in Attempts :
         /\ tr[k] \in {"open", "closed"} => tr'[k] \in {"open", "closed"}
         /\ tr'[k] = "open" => tr[k] = "open"
         /\ request'[k] = "sent" => request[k] = "sent"
  BY <1>4, <2>2 DEF Wake, Raise, TryNext, Return, CloseTransport, IInv, TypeOK
<2> HIDE DEF h
<2>7. \A e \in Among(ready') : Fits(e)'
  BY <2>2, <2>4, <2>5, <2>6 DEF Fits, Entries
<2>8. QED
  BY <2>2, <2>4, <2>7 DEF QueueInv
<1>5. CASE CallMade
<2>1. ready # <<>> /\ Head(ready).what = "made"
  BY <1>5 DEF CallMade, Due
<2>2. PICK h \in Attempts : h = Head(ready).k
  BY <2>1, AtHead
<2>3. tr[h] \in {"open", "closed"} /\ (tr[h] = "open" => made = <<>>)
  BY <2>1, <2>2, AtHead
<2>4. /\ Tail(ready) \in Seq(Entries) /\ Distinct(Tail(ready))
      /\ Head(ready) \in Entries
      /\ \A e \in Among(Tail(ready)) :
           e \in Entries /\ Fits(e) /\ e # Head(ready)
  BY <2>1, Taken DEF QueueInv, TypeOK, IInv
<2>5. UNCHANGED <<co, attempt, tr, request>>
  BY <1>5 DEF CallMade
<2>6. PICK lost \in Entries, wake \in Entries :
           lost = Entry("lost", h) /\ wake = Entry("wake", h)
  BY DEF Entry, Entries
<2>7. /\ lost.what = "lost" /\ lost.k = h
      /\ wake.what = "wake" /\ wake.k = h
  BY <2>6 DEF Entry
<2>8. PICK mid \in {Tail(ready), Append(Tail(ready), lost)} :
           ready' = mid \/ (waiter[h] = "pending" /\ ready' = Append(mid, wake))
  <3>1. PICK woken : /\ \/ waiter[h] = "pending" /\ woken = <<wake>>
                        \/ waiter[h] # "pending" /\ woken = <<>>
                     /\ \/ ready' = Tail(ready) \o woken
                        \/ ready' = (Tail(ready) \o <<>>) \o woken
                        \/ ready' = (Tail(ready) \o <<lost>>) \o woken
    <4>1. CASE waiter[h] = "pending"
      BY <1>5, <2>2, <2>6, <4>1 DEF CallMade
    <4>2. CASE waiter[h] # "pending"
      BY <1>5, <2>2, <2>6, <4>2 DEF CallMade
    <4>3. QED
      BY <4>1, <4>2
  <3>2. /\ Tail(ready) \o <<>> = Tail(ready)
        /\ Tail(ready) \o <<lost>> = Append(Tail(ready), lost)
        /\ Append(Tail(ready), lost) \in Seq(Entries)
    BY <2>4, Concatenated
  <3>3. \A s \in Seq(Entries) : s \o <<>> = s /\ s \o <<wake>> = Append(s, wake)
    BY Concatenated
  <3>4. PICK s \in {Tail(ready), Append(Tail(ready), lost)} :
           ready' = s \o woken
    BY <3>1, <3>2
  <3>5. s \in Seq(Entries)
    BY <2>4, <3>2
  <3>6. s \o <<>> = s /\ s \o <<wake>> = Append(s, wake)
    BY <3>3, <3>5
  <3>7. ready' = s \/ (waiter[h] = "pending" /\ ready' = Append(s, wake))
    BY <3>1, <3>4, <3>6
  <3>8. QED
    BY <3>4, <3>7
<2>9. /\ mid \in Seq(Entries) /\ Distinct(mid)
      /\ Among(mid) \subseteq Among(Tail(ready)) \union {lost}
  BY <2>4, <2>7, <2>8, Appended
<2>10. waiter[h] = "pending" => co = "waiting" /\ h = attempt
  BY DEF IInv, WaiterInv, AttemptInv
<2>11. /\ waiter'[h] # "pending"
       /\ \A k \in Attempts : k # h => waiter'[k] = waiter[k]
       /\ tr[h] = "open" \/ made' = made
  BY <1>5, <2>2, <2>3 DEF CallMade, Alive, IInv, TypeOK
<2>12. \A e \in Among(Tail(ready)) : e.what = "wake" => waiter[h] # "pending"
  BY <2>4, <2>10 DEF Fits
<2>13. waiter[h] = "pending" => wake \notin Among(mid)
  BY <2>7, <2>9, <2>12
<2>14. /\ ready' \in Seq(Entries) /\ Distinct(ready')
       /\ Among(ready') \subseteq Among(Tail(ready)) \union {lost, wake}
       /\ waiter[h] # "pending" =>
            Among(ready') \subseteq Among(Tail(ready)) \union {lost}
  <3>1. CASE ready' = mid
    BY <2>9, <3>1
  <3>2. CASE waiter[h] = "pending" /\ ready' = Append(mid, wake)
    <4>1. /\ ready' \in Seq(Entries) /\ Distinct(ready')
          /\ Among(ready') = Among(mid) \union {wake}
      BY <2>9, <2>13, <3>2, Appended
    <4>2. QED
      BY <2>9, <3>2, <4>1
  <3>3. QED
    BY <2>8, <3>1, <3>2
<2>15. \A e \in Among(Tail(ready)) :
          e.what = "made" /\ tr[h] = "open" => tr[e.k] # "open"
  <3>1. \A k \in Attempts : tr[k] = "open" => k = attempt
    BY DEF IInv, AttemptInv
  <3>2. \A e \in Entries : e.what = "made" /\ e.k = h => e = Head(ready)
    BY <2>1, <2>2, <2>4 DEF Entries
  <3>3. QED
    BY <2>4, <3>1, <3>2 DEF Entries
<2>16. \A e \in Among(Tail(ready)) : Fits(e)'
  <3> SUFFICES ASSUME NEW e \in Among(Tail(ready)) PROVE Fits(e)'
    OBVIOUS
  <3>1. e.k \in Attempts /\ Fits(e)
    BY <2>4 DEF Entries
  <3>2. \A k \in Attempts : waiter[k] # "pending" => waiter'[k] # "pending"
    BY <2>11
  <3>3. co = "waiting" => attempt \in Attempts
    BY DEF IInv, AttemptInv
  <3>4. QED
    BY <2>5, <2>11, <2>15, <3>1, <3>2, <3>3 DEF Fits
<2>17. Fits(lost)' /\ (waiter[h] = "pending" => Fits(wake)')
  BY <2>3, <2>5, <2>7, <2>10, <2>11 DEF Fits
<2>18. QED
  BY <2>14, <2>16, <2>17 DEF QueueInv
<1>6. CASE CallLost
<2> DEFINE h == Head(ready).k
<2>1. ready # <<>> /\ Head(ready).what = "lost"
  BY <1>6 DEF CallLost, Due
<2>2. /\ h \in Attempts /\ tr[h] \in {"open", "closed"}
      /\ Tail(ready) \in Seq(Entries) /\ Distinct(Tail(ready))
      /\ Head(ready) \in Entries
      /\ \A e \in Among(Tail(ready)) :
           /\ e \in Entries /\ e \in Among(ready) /\ Fits(e)
           /\ Head(ready).what # "lost" => e # Head(ready)
  BY <2>1, AtHead, Taken DEF QueueInv, TypeOK, IInv
<2>4. ready' = Tail(ready) /\ UNCHANGED <<waiter, made, co, attempt>>
  BY <1>6 DEF CallLost
<2>6. \A k \in Attempts :
         /\ tr[k] \in {"open", "closed"} => tr'[k] \in {"open", "closed"}
         /\ tr'[k] = "open" => tr[k] = "open"
         /\ request'[k] = "sent" => request[k] = "sent"
  BY <1>6, <2>2 DEF CallLost, CloseTransport, IInv, TypeOK
<2> HIDE DEF h
<2>7. \A e \in Among(ready') : Fits(e)'
  BY <2>2, <2>4, <2>6 DEF Fits, Entries
<2>8. QED
  BY <2>2, <2>4, <2>7 DEF QueueInv
<1>7. ASSUME NEW k \in Attempts, Connected(k)
       PROVE  ready' \in Seq(Entries) /\ QueueInv'
<2>1. \A e \in Among(ready) : e \in Entries /\ Fits(e)
  BY AmongEntries DEF QueueInv, TypeOK, IInv
<2> DEFINE new == Entry("made", k)
<2>2. new \in Entries /\ new.what = "made" /\ new.k = k
  BY DEF Entry, Entries
<2>3. /\ request[k] = "sent" /\ tr[k] = "open" /\ made = <<>>
      /\ new \notin Among(ready)
  BY <1>7, <2>1, <2>2 DEF Connected, IInv, AttemptInv, MadeInv, Fits
<2>4. /\ ready' \in Seq(Entries) /\ Distinct(ready')
      /\ Among(ready') = Among(ready) \union {new}
  BY <1>7, <2>2, <2>3, Appended DEF Connected, CallSoon, IInv, TypeOK, QueueInv
<2>5. /\ UNCHANGED <<co, attempt, tr, waiter, made>>
      /\ request'[k] = "none"
      /\ \A j \in Attempts : j # k => request'[j] = request[j]
  BY <1>7 DEF Connected, IInv, TypeOK
<2> HIDE DEF new
<2>6. Fits(new)' /\ \A e \in Among(ready) : Fits(e)'
  BY <2>1, <2>2, <2>3, <2>5 DEF Fits, Entries
<2>7. QED
  BY <2>4, <2>6 DEF QueueInv
<1>8. ASSUME NEW k \in Attempts, ConnectFails(k)
       PROVE  ready' \in Seq(Entries) /\ QueueInv'
<2>1. \A e \in Among(ready) : e \in Entries /\ Fits(e)
  BY AmongEntries DEF QueueInv, TypeOK, IInv
<2>2. k \in Attempts
  BY <1>8 DEF ConnectFails, IInv, AttemptInv
<2>3. /\ UNCHANGED <<co, attempt, made>>
      /\ \A j \in Attempts :
           /\ tr[j] \in {"open", "closed"} => tr'[j] \in {"open", "closed"}
           /\ tr'[j] = "open" => tr[j] = "open"
           /\ request'[j] = "sent" => request[j] = "sent"
           /\ waiter'[j] = "pending" => waiter[j] = "pending"
  BY <1>8, <2>2 DEF ConnectFails, Resolve, IInv, TypeOK
<2>4. \A e \in Among(ready) : Fits(e)'
  <3>1. co = "waiting" => attempt \in Attempts
    BY DEF IInv, AttemptInv
  <3>2. QED
    BY <2>1, <2>3, <3>1 DEF Fits, Entries
<2>5. CASE waiter[k] = "pending"
  <3>1. PICK new \in Entries : /\ new = Entry("wake", k)
                               /\ new.what = "wake" /\ new.k = k
    <4>1. /\ Entry("wake", k) \in Entries
          /\ Entry("wake", k).what = "wake"
          /\ Entry("wake", k).k = k
      BY <2>2 DEF Entry, Entries
    <4>2. QED
      BY <4>1
  <3>2. co = "waiting" /\ attempt = k /\ tr[k] = "open"
    BY <2>2, <2>5 DEF IInv, WaiterInv, AttemptInv
  <3>3. new \notin Among(ready)
    BY <2>1, <2>5, <3>1, <3>2 DEF Fits
  <3>4. /\ ready' \in Seq(Entries) /\ Distinct(ready')
        /\ Among(ready') = Among(ready) \union {new}
    BY <1>8, <2>5, <3>1, <3>3, Appended
       DEF ConnectFails, Resolve, CallSoon, IInv, TypeOK, QueueInv
  <3>5. waiter'[k] # "pending"
    BY <1>8, <2>2, <2>5 DEF ConnectFails, Resolve, IInv, TypeOK
  <3>6. Fits(new)'
    BY <2>2, <2>3, <3>1, <3>2, <3>5 DEF Fits
  <3>7. QED
    BY <2>4, <3>4, <3>6 DEF QueueInv
<2>6. CASE waiter[k] # "pending"
  BY <1>8, <2>4, <2>6 DEF ConnectFails, Resolve, IInv, TypeOK, QueueInv
<2>7. QED
  BY <2>5, <2>6
<1>9. CASE Cancel
<2>1. \A e \in Among(ready) : e \in Entries /\ Fits(e)
  BY AmongEntries DEF QueueInv, TypeOK, IInv
<2>2. attempt \in Attempts
  BY <1>9 DEF Cancel, IInv, AttemptInv
<2>3. /\ UNCHANGED <<co, attempt, made>>
      /\ \A j \in Attempts :
           /\ tr[j] \in {"open", "closed"} => tr'[j] \in {"open", "closed"}
           /\ tr'[j] = "open" => tr[j] = "open"
           /\ request'[j] = "sent" => request[j] = "sent"
           /\ waiter'[j] = "pending" => waiter[j] = "pending"
  BY <1>9, <2>2 DEF Cancel, Resolve, IInv, TypeOK
<2>4. \A e \in Among(ready) : Fits(e)'
  <3>1. co = "waiting" => attempt \in Attempts
    BY DEF IInv, AttemptInv
  <3>2. QED
    BY <2>1, <2>3, <3>1 DEF Fits, Entries
<2>5. CASE waiter[attempt] = "pending"
  <3>1. PICK new \in Entries : /\ new = Entry("wake", attempt)
                               /\ new.what = "wake" /\ new.k = attempt
    <4>1. /\ Entry("wake", attempt) \in Entries
          /\ Entry("wake", attempt).what = "wake"
          /\ Entry("wake", attempt).k = attempt
      BY <2>2 DEF Entry, Entries
    <4>2. QED
      BY <4>1
  <3>2. co = "waiting" /\ attempt = attempt /\ tr[attempt] = "open"
    BY <2>2, <2>5 DEF IInv, WaiterInv, AttemptInv
  <3>3. new \notin Among(ready)
    BY <2>1, <2>5, <3>1, <3>2 DEF Fits
  <3>4. /\ ready' \in Seq(Entries) /\ Distinct(ready')
        /\ Among(ready') = Among(ready) \union {new}
    BY <1>9, <2>5, <3>1, <3>3, Appended
       DEF Cancel, Resolve, CallSoon, IInv, TypeOK, QueueInv
  <3>5. waiter'[attempt] # "pending"
    BY <1>9, <2>2, <2>5 DEF Cancel, Resolve, IInv, TypeOK
  <3>6. Fits(new)'
    BY <2>2, <2>3, <3>1, <3>2, <3>5 DEF Fits
  <3>7. QED
    BY <2>4, <3>4, <3>6 DEF QueueInv
<2>6. CASE waiter[attempt] # "pending"
  BY <1>9, <2>4, <2>6 DEF Cancel, Resolve, IInv, TypeOK, QueueInv
<2>7. QED
  BY <2>5, <2>6
<1>10. ASSUME NEW k \in Attempts, Ends(k)
       PROVE  ready' \in Seq(Entries) /\ QueueInv'
<2>1. \A e \in Among(ready) : e \in Entries /\ Fits(e)
  BY AmongEntries DEF QueueInv, TypeOK, IInv
<2> DEFINE new == Entry("lost", k)
<2>2. new \in Entries /\ new.what = "lost" /\ new.k = k
  BY DEF Entry, Entries
<2>3. tr[k] = "open" /\ made # <<>> /\ waiter[k] # "pending"
  BY <1>10 DEF Ends, IInv, WaiterInv
<2>4. /\ ready' \in Seq(Entries) /\ Distinct(ready')
      /\ Among(ready') = Among(ready) \union {new}
  BY <1>10, <2>2, Appended DEF Ends, CallSoon, IInv, TypeOK, QueueInv
<2>5. UNCHANGED <<co, attempt, tr, request, waiter, made>>
  BY <1>10 DEF Ends
<2> HIDE DEF new
<2>6. Fits(new)' /\ \A e \in Among(ready) : Fits(e)'
  BY <2>1, <2>2, <2>3, <2>5 DEF Fits
<2>7. QED
  BY <2>4, <2>6 DEF QueueInv
<1>11. CASE UNCHANGED vars
  BY <1>11 DEF vars, IInv, TypeOK, QueueInv, Fits
<1>12. QED
  BY <1>1, <1>2, <1>3, <1>4, <1>5, <1>6, <1>7, <1>8, <1>9, <1>10, <1>11 DEF
     Next, Coroutine, Callbacks

\* Every action keeps the types.
LEMMA TypeStep == IInv /\ [Next]_vars => TypeOK'
<1> SUFFICES ASSUME IInv, [Next]_vars PROVE TypeOK'
  OBVIOUS
<1> USE ConnectAssumption DEF IInv, TypeOK
<1>1. CASE StartSock
<2>1. 1 \in Attempts
  BY DEF Attempts
<2>2. QED
  BY <1>1, <2>1, QueueStep DEF StartSock, Open
<1>2. CASE NextAddress
<2>1. attempt \in Attempts
  BY <1>2 DEF NextAddress, Attempts
<2>2. QED
  BY <1>2, <2>1 DEF NextAddress, Open, CloseTransport
<1>3. CASE NoAddress
  BY <1>3 DEF NoAddress
<1>4. CASE Wake
<2>1. Head(ready).k \in Attempts
  BY <1>4, AtHead DEF Wake
<2>2. CASE Raise(Head(ready).k)
  BY <1>4, <2>1, <2>2, QueueStep DEF Wake, Raise, CloseTransport, Detached
<2>3. CASE TryNext(Head(ready).k)
  BY <1>4, <2>1, <2>3, QueueStep DEF Wake, TryNext, CloseTransport
<2>4. CASE Return
  BY <1>4, <2>1, <2>4, QueueStep DEF Wake, Return
<2>5. QED
  BY <1>4, <2>2, <2>3, <2>4 DEF Wake
<1>5. CASE CallMade
<2>1. Head(ready).k \in Attempts
  BY <1>5, AtHead DEF CallMade, Due
<2>2. made' \in Seq(Attempts)
  <3>1. made' = made \/ made' = Append(made, Head(ready).k)
    BY <1>5 DEF CallMade
  <3>2. QED
    BY <2>1, <3>1
<2>3. waiter' \in [Attempts ->
                  {"none", "pending", "result", "error", "cancelled"}]
  BY <1>5, <2>1 DEF CallMade
<2>4. QED
  BY <1>5, <2>2, <2>3, QueueStep DEF CallMade
<1>6. CASE CallLost
<2>1. Head(ready).k \in Attempts
  BY <1>6, AtHead DEF CallLost, Due
<2>2. QED
  BY <1>6, <2>1, QueueStep DEF CallLost, CloseTransport, Detached
<1>7. ASSUME NEW k \in Attempts, Connected(k) PROVE  TypeOK'
  BY <1>7, QueueStep DEF Connected
<1>8. ASSUME NEW k \in Attempts, ConnectFails(k) PROVE  TypeOK'
  BY <1>8, QueueStep DEF ConnectFails, Resolve
<1>9. CASE Cancel
  BY <1>9, QueueStep DEF Cancel, Resolve
<1>10. ASSUME NEW k \in Attempts, Ends(k) PROVE  TypeOK'
  BY <1>10, QueueStep DEF Ends
<1>11. CASE UNCHANGED vars
  BY <1>11 DEF vars
<1>12. QED
  BY <1>1, <1>2, <1>3, <1>4, <1>5, <1>6, <1>7, <1>8, <1>9, <1>10, <1>11 DEF
     Next, Coroutine, Callbacks

-----------------------------------------------------------------------------

\* The invariant holds throughout.
THEOREM Invariance == Spec => []IInv
<1>1. Init => IInv
  <2> SUFFICES ASSUME Init PROVE IInv
    OBVIOUS
  <2>1. TypeOK
    <3>1. ready \in Seq(Entries) /\ made \in Seq(Attempts)
      BY DEF Init
    <3>2. attempt = 1 /\ cancelled = FALSE
      BY Zenon DEF Init
    <3>4. attempt \in Nat /\ attempt >= 1
      BY <3>2
    <3>5. cancelled \in BOOLEAN
      BY <3>2, Zenon
    <3>3. QED
      BY <3>1, <3>4, <3>5, Zenon DEF Init, TypeOK
  <2>2. QueueInv
    BY DEF Init, QueueInv, Distinct, Among
  <2>3. QED
    BY <2>1, <2>2, ConnectAssumption
       DEF Init, IInv, AttemptInv, WaiterInv, MadeInv, SocketInv, Attempts
<1>2. IInv /\ [Next]_vars => IInv'
  BY TypeStep, AttemptStep, WaiterStep, QueueStep, MadeStep, SocketStep DEF IInv
<1>3. QED
  BY <1>1, <1>2, PTL DEF Spec

\* A coroutine of loop.pyx that raises has closed every transport it opened
\* and detached the program's socket, and it never has two attempts open.
\* The descriptor of the socket is closed if, and only if, _open() had not
\* failed.
THEOREM NothingBehind == Spec => []FailureCleansUp
<1>1. IInv => FailureCleansUp
  <2> SUFFICES ASSUME IInv PROVE FailureCleansUp
    OBVIOUS
  <2>1. 1 \in Attempts
    BY ConnectAssumption DEF Attempts
  <2>2. co = "raised" => \A k \in Attempts : tr[k] # "open" /\ request[k] # "sent"
    BY DEF IInv, AttemptInv
  <2>3. co = "raised" /\ mode # "host" =>
          fd = IF OpenFailed THEN "open" ELSE "closed"
    BY <2>1, <2>2 DEF IInv, SocketInv, OpenFailed
  <2>4. QED
    BY <2>2, <2>3 DEF IInv, AttemptInv, FailureCleansUp
<1>2. QED
  BY <1>1, Invariance, PTL

\* connection_made() is called for one transport at most: the one that the
\* coroutine returns, and for none once it has raised.
THEOREM OneIsMade == Spec => OneConnection
<1>1. IInv /\ IInv' /\ [Next]_vars =>
        [/\ Len(made') <= 1
         /\ co = "raised" => made' = made
         /\ co' = "returned" => made' = <<attempt'>>]_vars
  <2> SUFFICES ASSUME IInv, IInv', [Next]_vars
      PROVE  /\ Len(made') <= 1
             /\ co = "raised" => made' = made
             /\ co' = "returned" => made' = <<attempt'>>
    OBVIOUS
  <2>1. Len(made') <= 1 /\ (co' = "returned" => made' = <<attempt'>>)
    <3>1. Len(<<>>) = 0 /\ Len(<<attempt'>>) = 1
      OBVIOUS
    <3>2. (made' = <<>> \/ made' = <<attempt'>>)
            /\ (co' = "returned" => made' = <<attempt'>>)
      BY Zenon DEF IInv, MadeInv
    <3>3. Len(made') = 0 \/ Len(made') = 1
      BY <3>1, <3>2, Zenon
    <3>4. QED
      BY <3>2, <3>3
  <2>2. ASSUME co = "raised" PROVE made' = made
    <3>1. CASE CallMade
      <4>1. ready # <<>> /\ tr[Head(ready).k] = "closed"
        <5>1. ready # <<>>
          BY <3>1 DEF CallMade, Due
        <5>2. QED
          BY <2>2, <5>1, AtHead DEF IInv, AttemptInv
      <4>2. QED
        BY <3>1, <4>1 DEF CallMade, Alive
    <3>2. CASE ~CallMade
      BY <2>2, <3>2 DEF Next, Coroutine, Callbacks, StartSock, NextAddress,
         NoAddress, Wake, CallLost, Connected, ConnectFails, Cancel, Ends, vars
    <3>3. QED
      BY <3>1, <3>2
  <2>3. QED
    BY <2>1, <2>2
<1>2. QED
  BY <1>1, Invariance, PTL DEF OneConnection, Spec

=============================================================================
