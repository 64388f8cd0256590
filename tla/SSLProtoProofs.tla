--------------------------- MODULE SSLProtoProofs ---------------------------
(***************************************************************************)
(* SSLProtocol for any number of bytes, records and scheduled reads: no peer *)
(* can hang a handshake or a shutdown, the application's protocol has the    *)
(* life that sslproto.pxd draws, close_notify goes behind every byte that    *)
(* was accepted, and flow control never stops for good.                      *)
(***************************************************************************)
EXTENDS SSLProto, SequenceTheorems, TLAPS

HandshakeItems == {"do_handshake", "on_handshake_complete", "handshake_failed"}

Items ==
    Callbacks \union HandshakeItems \union
    {"returns", "wakeup_waiter", "do_read", "after_read", "end_read",
     "call_eof", "start_shutdown", "flush_write", "control_ssl_reading",
     "control_app_writing", "resumed", "do_flush", "do_shutdown", "flushed",
     "unwrap", "shutdown_complete", "written"}

Controls ==
    /\ kind \in {"server", "client", "upgrade"}
    /\ state \in {"DO_HANDSHAKE", "WRAPPED", "FLUSHING", "SHUTDOWN", "UNWRAPPED"}
    /\ app \in {"init", "made", "eof", "lost"}
    /\ waiter \in {"waiting", "ok", "failed", "cancelled", "over"}
    /\ tr \in {"open", "closing", "ending", "gone"}
    /\ todo \in Seq(Items)

Data ==
    /\ paused \subseteq {"app writing", "app reading", "ssl writing", "ssl reading"}
    /\ reads \in Nat /\ timers \subseteq {"handshake", "shutdown"}
    /\ backlog \in Nat /\ outgoing \in Seq({"handshake", "app", "close"})
    /\ incoming \in Seq({"data", "close"})
    /\ written \in Nat /\ lostCalls \in {0, 1}

Flags ==
    /\ gotClose \in BOOLEAN /\ sentClose \in BOOLEAN /\ busy \in BOOLEAN
    /\ lostDue \in BOOLEAN /\ tbuf \in BOOLEAN /\ peerClosed \in BOOLEAN
    /\ over \in BOOLEAN /\ cut \in BOOLEAN

\* peerData and the limits, whose default need not exist in an infinite set,
\* have no part in the proofs; what is in wire is said in SentInv.
TypeOK == Controls /\ Data /\ Flags

\* The stacks there can be before the end of the handshake, when nobody has
\* the transport, and after the transport is gone.
Starting ==
    {<<>>, <<"returns">>, <<"written">>, <<"do_read">>, <<"start_shutdown">>}
    \union {<<x, "returns">> : x \in HandshakeItems}
Afterwards ==
    {<<>>, <<"do_read">>, <<"control_app_writing">>, <<"start_shutdown">>}

\* Nothing of a shutdown runs in WRAPPED; _do_read() begins on an empty stack,
\* and eof_received() is called above the _start_shutdown() that follows it.
Ordered(s) ==
    \A i \in 1..Len(s) :
        /\ s[i] \notin HandshakeItems \union {"do_flush", "do_shutdown", "flushed"}
        /\ s[i] = "do_read" => i = 1 /\ \A j \in 2..Len(s) : s[j] = "returns"
        /\ s[i] = "call_eof" =>
             /\ i < Len(s) /\ s[i + 1] = "start_shutdown"
             /\ \A j \in i+1..Len(s) : s[j] \notin {"data_received", "connection_made"}

\* _start_shutdown() is to come, and no callback that can skip it by raising.
Ending(s) ==
    /\ \E i \in 1..Len(s) : s[i] = "start_shutdown"
    /\ \A i \in 1..Len(s) : s[i] \notin {"data_received", "connection_made"}

HandshakeInv ==
    /\ state = "DO_HANDSHAKE" =>
         /\ todo \in Starting
         /\ waiter # "ok"
         /\ app = IF kind = "upgrade" THEN "made" ELSE "init"
         /\ over => todo = <<"start_shutdown">>
    /\ state # "DO_HANDSHAKE" =>
         \A i \in 1..Len(todo) : todo[i] \notin HandshakeItems

WrappedInv ==
    state = "WRAPPED" =>
        /\ Ordered(todo)
        /\ app # "made" => Ending(todo)
        /\ over => Runs("start_shutdown")

GoneInv ==
    /\ tr = "gone" => todo \in Afterwards /\ waiter # "waiting"
                      /\ state = "UNWRAPPED"
    /\ app = "lost" <=> lostDue \/ lostCalls = 1
    /\ lostDue => lostCalls = 0
    /\ app = "lost" => tr = "gone"

IInv == TypeOK /\ HandshakeInv /\ WrappedInv /\ GoneInv /\ PeerCannotHang

-----------------------------------------------------------------------------
(* Stacks *)

\* What an item may be that methods put on the stack without a thought.
Plain == Items \ (HandshakeItems \union
    {"do_flush", "do_shutdown", "flushed", "do_read", "call_eof"})

\* The stack after a method that has more to do, t, and its caller s.
LEMMA Pushed ==
    ASSUME NEW s \in Seq(Items), s # <<>>, NEW t \in Seq(Items)
    PROVE  /\ Head(s) \in Items /\ Head(s) = s[1] /\ Len(s) \in Nat \ {0}
           /\ Tail(s) \in Seq(Items) /\ Len(Tail(s)) = Len(s) - 1
           /\ \A i \in 1..Len(s) - 1 : Tail(s)[i] = s[i + 1]
           /\ t \o Tail(s) \in Seq(Items)
           /\ Len(t \o Tail(s)) = Len(t) + Len(s) - 1
           /\ \A i \in 1..Len(t) : (t \o Tail(s))[i] = t[i]
           /\ \A i \in Len(t)+1..Len(t) + Len(s) - 1 :
                (t \o Tail(s))[i] = s[i - Len(t) + 1]
           /\ t = <<>> => t \o Tail(s) = Tail(s)
<1>1. Tail(s) \in Seq(Items) /\ Len(Tail(s)) = Len(s) - 1
  OBVIOUS
<1>2. Len(s) \in Nat \ {0} /\ \A i \in 1..Len(s) - 1 : Tail(s)[i] = s[i + 1]
  OBVIOUS
<1>3. t \o Tail(s) \in Seq(Items) /\ Len(t \o Tail(s)) = Len(t) + Len(s) - 1
  BY <1>1
<1>4. \A i \in 1..Len(t) : (t \o Tail(s))[i] = t[i]
  BY <1>1
<1>5. ASSUME NEW i \in Len(t)+1..Len(t) + Len(s) - 1
      PROVE  (t \o Tail(s))[i] = s[i - Len(t) + 1]
  <2>1. (t \o Tail(s))[i] = Tail(s)[i - Len(t)]
    BY <1>1, <1>2
  <2> QED
    BY <2>1, <1>2
<1>6. t = <<>> => t \o Tail(s) = Tail(s)
  BY <1>1
<1> QED
  <2>1. Head(s) = s[1] /\ s[1] \in Items
    OBVIOUS
  <2> QED
    BY <2>1, <1>1, <1>2, <1>3, <1>4, <1>5, <1>6

\* A method that is not _do_read() or _start_shutdown() goes on.
LEMMA Continued ==
    ASSUME NEW s \in Seq(Items), s # <<>>, Ordered(s), Head(s) # "do_read",
           NEW t \in Seq(Plain)
    PROVE  /\ Ordered(t \o Tail(s))
           /\ Ending(s) /\ Head(s) # "start_shutdown"
              /\ (\A i \in 1..Len(t) : t[i] \notin {"data_received", "connection_made"})
                => Ending(t \o Tail(s))
<1> DEFINE n == t \o Tail(s)
<1> t \in Seq(Items)
  BY DEF Plain
<1>1. /\ Len(n) = Len(t) + Len(s) - 1 /\ Len(s) \in Nat \ {0} /\ Len(t) \in Nat
      /\ \A i \in 1..Len(t) : n[i] = t[i] /\ t[i] \in Plain
      /\ \A i \in Len(t)+1..Len(n) : n[i] = s[i - Len(t) + 1]
      /\ Head(s) = s[1]
  BY Pushed
<1> HIDE DEF n
<1>2. ASSUME NEW i \in 1..Len(n), i > Len(t)
      PROVE  /\ i - Len(t) + 1 \in 2..Len(s) /\ n[i] = s[i - Len(t) + 1]
             /\ n[i] # "do_read"
             /\ n[i] \notin HandshakeItems \union {"do_flush", "do_shutdown", "flushed"}
  <2>1. i - Len(t) + 1 \in 2..Len(s) /\ n[i] = s[i - Len(t) + 1]
    BY <1>1, <1>2
  <2> QED
    BY <2>1, <1>1 DEF Ordered
<1>3. ASSUME NEW i \in 1..Len(n), i > Len(t), n[i] = "call_eof"
      PROVE  /\ i < Len(n) /\ n[i + 1] = "start_shutdown"
             /\ \A j \in i+1..Len(n) : n[j] \notin {"data_received", "connection_made"}
  <2>1. PICK k \in 2..Len(s) : k = i - Len(t) + 1 /\ s[k] = "call_eof"
    BY <1>2, <1>3
  <2>2. /\ k < Len(s) /\ s[k + 1] = "start_shutdown"
        /\ \A j \in k+1..Len(s) : s[j] \notin {"data_received", "connection_made"}
    BY <2>1 DEF Ordered
  <2>3. i < Len(n) /\ n[i + 1] = s[k + 1]
    <3>1. i + 1 \in Len(t)+1..Len(n) /\ i + 1 - Len(t) + 1 = k + 1
      BY <2>1, <2>2, <1>1, <1>3
    <3> QED
      BY <3>1, <1>1, <1>3
  <2>4. ASSUME NEW j \in i+1..Len(n)
        PROVE  n[j] \notin {"data_received", "connection_made"}
    <3>1. n[j] = s[j - Len(t) + 1] /\ j - Len(t) + 1 \in k+1..Len(s)
      BY <2>1, <1>1, <1>3
    <3> QED
      BY <3>1, <2>2
  <2> QED
    BY <2>2, <2>3, <2>4
<1>4. Ordered(n)
  <2>1. ASSUME NEW i \in 1..Len(n), i <= Len(t)
        PROVE  n[i] \notin HandshakeItems \union
                 {"do_flush", "do_shutdown", "flushed", "do_read", "call_eof"}
    BY <2>1, <1>1 DEF Plain
  <2> QED
    BY <2>1, <1>1, <1>2, <1>3 DEF Ordered
<1>5. ASSUME Ending(s), Head(s) # "start_shutdown",
             \A i \in 1..Len(t) : t[i] \notin {"data_received", "connection_made"}
      PROVE  Ending(n)
  <2>1. PICK k \in 1..Len(s) : s[k] = "start_shutdown"
    BY <1>5 DEF Ending
  <2>2. k # 1
    BY <2>1, <1>5, <1>1
  <2>3. k + Len(t) - 1 \in Len(t)+1..Len(n) /\ n[k + Len(t) - 1] = s[k]
    BY <2>1, <2>2, <1>1
  <2>4. ASSUME NEW i \in 1..Len(n)
        PROVE  n[i] \notin {"data_received", "connection_made"}
    <3>1. CASE i <= Len(t)
      BY <3>1, <1>1, <1>5
    <3>2. CASE i > Len(t)
      <4>1. i - Len(t) + 1 \in 1..Len(s) /\ n[i] = s[i - Len(t) + 1]
        BY <3>2, <1>1, <1>2
      <4> QED
        BY <4>1, <1>5 DEF Ending
    <3> QED
      BY <3>1, <3>2, <1>1
  <2> QED
    BY <2>1, <2>3, <2>4, <1>1 DEF Ending
<1> QED
  BY <1>4, <1>5 DEF n

\* The stack when the application calls a method from inside a callback, or
\* with none running.
LEMMA Called ==
    ASSUME NEW s \in Seq(Items), NEW x \in Plain,
           \/ s = <<>> \/ Head(s) \in Callbacks
           \/ \A i \in 1..Len(s) : s[i] # "do_read"
    PROVE  /\ <<x>> \o s \in Seq(Items) /\ Head(<<x>> \o s) = x
           /\ <<x>> \o s # <<>>
           /\ \A i \in 1..Len(<<x>> \o s) :
                (<<x>> \o s)[i] = x \/ \E j \in 1..Len(s) : (<<x>> \o s)[i] = s[j]
           /\ Ordered(s) => Ordered(<<x>> \o s)
           /\ Ending(s) /\ x \notin {"data_received", "connection_made"}
                => Ending(<<x>> \o s)
<1>1. x \in Items
  BY DEF Plain
<1>2. /\ <<x>> \o s \in Seq(Items) /\ Len(<<x>> \o s) = Len(s) + 1
      /\ Len(s) \in Nat /\ (<<x>> \o s)[1] = x /\ Head(<<x>> \o s) = x
      /\ <<x>> \o s # <<>>
      /\ \A i \in 1..Len(s) : (<<x>> \o s)[i + 1] = s[i]
  <2>1. <<x>> \o s \in Seq(Items) /\ Len(<<x>> \o s) = Len(s) + 1 /\ Len(s) \in Nat
    BY <1>1
  <2>2. (<<x>> \o s)[1] = x /\ \A i \in 1..Len(s) : (<<x>> \o s)[i + 1] = s[i]
    BY <1>1
  <2> QED
    BY <2>1, <2>2
<1> DEFINE n == <<x>> \o s
<1>3. \A j \in 2..Len(n) : j - 1 \in 1..Len(s) /\ n[j] = s[j - 1]
  <2> TAKE j \in 2..Len(n)
  <2>1. j - 1 \in 1..Len(s) /\ n[(j - 1) + 1] = s[j - 1] /\ (j - 1) + 1 = j
    BY <1>2
  <2> QED
    BY <2>1
<1> HIDE DEF n
<1>4. ASSUME Ordered(s) PROVE Ordered(n)
  <2>1. x \notin HandshakeItems \union
               {"do_flush", "do_shutdown", "flushed", "do_read", "call_eof"}
    BY DEF Plain
  <2>2. \A i \in 1..Len(s) : s[i] # "do_read"
    <3>1. CASE Head(s) \in Callbacks /\ s # <<>>
      <4>1. s[1] \in Callbacks
        BY <3>1
      <4> QED
        BY <4>1, <1>4, <1>2 DEF Ordered, Callbacks
    <3>2. CASE s = <<>>
      BY <3>2
    <3> QED
      BY <3>1, <3>2
  <2>3. ASSUME NEW i \in 2..Len(n), n[i] = "call_eof"
        PROVE  /\ i < Len(n) /\ n[i + 1] = "start_shutdown"
               /\ \A j \in i+1..Len(n) : n[j] \notin {"data_received", "connection_made"}
    <3>1. i - 1 \in 1..Len(s) /\ s[i - 1] = "call_eof"
      BY <2>3, <1>3
    <3>2. /\ i - 1 < Len(s) /\ s[(i - 1) + 1] = "start_shutdown"
          /\ \A j \in i..Len(s) : s[j] \notin {"data_received", "connection_made"}
      BY <3>1, <1>4 DEF Ordered
    <3>3. i + 1 \in 2..Len(n) /\ (i + 1) - 1 = (i - 1) + 1
      BY <3>2, <1>2 DEF n
    <3> QED
      BY <3>2, <3>3, <1>2, <1>3 DEF n
  <2> QED
    <3>1. n[1] = x /\ Len(n) \in Nat
      BY <1>2 DEF n
    <3>2. \A i \in 1..Len(n) : i = 1 \/ i \in 2..Len(n)
      BY <3>1
    <3> QED
      BY <3>1, <3>2, <2>1, <2>2, <2>3, <1>3, <1>4 DEF Ordered
<1>5. ASSUME Ending(s), x \notin {"data_received", "connection_made"}
      PROVE  Ending(n)
  <2>1. PICK k \in 1..Len(s) : s[k] = "start_shutdown"
    BY <1>5 DEF Ending
  <2>2. k + 1 \in 1..Len(n) /\ n[k + 1] = "start_shutdown"
    BY <2>1, <1>2 DEF n
  <2>3. \A i \in 1..Len(n) : i = 1 \/ i \in 2..Len(n)
    BY <1>2 DEF n
  <2>4. n[1] = x
    BY <1>2 DEF n
  <2> QED
    BY <2>2, <2>3, <2>4, <1>3, <1>5 DEF Ending
<1>6. \A i \in 1..Len(n) : n[i] = x \/ \E j \in 1..Len(s) : n[i] = s[j]
  <2>1. \A i \in 1..Len(n) : i = 1 \/ i \in 2..Len(n)
    BY <1>2 DEF n
  <2> QED
    BY <2>1, <1>2, <1>3 DEF n
<1> QED
  BY <1>2, <1>4, <1>5, <1>6 DEF n

\* The stack below an item, when what is above is left by an exception.
LEMMA Left ==
    ASSUME NEW s \in Seq(Items), NEW k \in 2..Len(s) + 1
    PROVE  LET n == SubSeq(s, k, Len(s)) IN
           /\ n \in Seq(Items)
           /\ Len(n) = Len(s) - k + 1
           /\ \A i \in 1..Len(n) : i + k - 1 \in 2..Len(s) /\ n[i] = s[i + k - 1]
           /\ Ordered(s) => Ordered(n)
<1> DEFINE n == SubSeq(s, k, Len(s))
<1>1. n \in Seq(Items) /\ Len(n) = Len(s) - k + 1 /\ Len(s) \in Nat
  OBVIOUS
<1>2. \A i \in 1..Len(n) : i + k - 1 \in 2..Len(s) /\ n[i] = s[i + k - 1]
  BY <1>1
<1> HIDE DEF n
<1>3. ASSUME Ordered(s) PROVE Ordered(n)
  <2>1. \A i \in 2..Len(s) : s[i] # "do_read"
    BY <1>3 DEF Ordered
  <2>2. ASSUME NEW i \in 1..Len(n), n[i] = "call_eof"
        PROVE  /\ i < Len(n) /\ n[i + 1] = "start_shutdown"
               /\ \A j \in i+1..Len(n) : n[j] \notin {"data_received", "connection_made"}
    <3>1. PICK l \in 2..Len(s) : l = i + k - 1 /\ s[l] = "call_eof"
      BY <2>2, <1>2
    <3>2. /\ l < Len(s) /\ s[l + 1] = "start_shutdown"
          /\ \A j \in l+1..Len(s) : s[j] \notin {"data_received", "connection_made"}
      BY <3>1, <1>3 DEF Ordered
    <3>3. i < Len(n) /\ i + 1 \in 1..Len(n) /\ (i + 1) + k - 1 = l + 1
      BY <3>1, <3>2, <1>1
    <3>4. \A j \in i+1..Len(n) : j + k - 1 \in l+1..Len(s)
      BY <3>1, <1>1
    <3>5. \A j \in i+1..Len(n) : j \in 1..Len(n) /\ n[j] = s[j + k - 1]
      BY <3>1, <1>1, <1>2, <2>2
    <3>6. n[i + 1] = s[l + 1]
      BY <3>3, <1>2
    <3> QED
      BY <3>2, <3>3, <3>4, <3>5, <3>6
  <2> QED
    BY <2>1, <2>2, <1>2, <1>3, <1>1 DEF Ordered
<1> QED
  BY <1>1, <1>2, <1>3 DEF n

\* A part of the tail is a part of the stack.
LEMMA PartOfTail ==
    ASSUME NEW s \in Seq(Items), s # <<>>, NEW k \in 1..Len(s)
    PROVE  SubSeq(Tail(s), k, Len(Tail(s))) = SubSeq(s, k + 1, Len(s))
<1> DEFINE t == Tail(s)
           a == SubSeq(t, k, Len(t))
           b == SubSeq(s, k + 1, Len(s))
<1>1. /\ t \in Seq(Items) /\ Len(t) = Len(s) - 1 /\ Len(s) \in Nat \ {0}
      /\ \A i \in 1..Len(s) - 1 : t[i] = s[i + 1]
  BY Pushed
<1>2. b \in Seq(Items) /\ Len(b) = Len(s) - k
      /\ \A i \in 1..Len(b) : b[i] = s[i + k]
  <2>1. k + 1 \in 2..Len(s) + 1
    OBVIOUS
  <2> QED
    BY <2>1, Left
<1> HIDE DEF t, b
<1>3. a \in Seq(Items) /\ Len(a) = Len(s) - k
      /\ \A i \in 1..Len(a) : a[i] = t[i + k - 1]
  BY <1>1
<1> HIDE DEF a
<1>4. \A i \in 1..Len(a) : a[i] = b[i]
  <2> TAKE i \in 1..Len(a)
  <2>1. i + k - 1 \in 1..Len(s) - 1 /\ (i + k - 1) + 1 = i + k
    BY <1>3, <1>1
  <2> QED
    BY <2>1, <1>1, <1>2, <1>3
<1> QED
  BY <1>2, <1>3, <1>4 DEF a, b, t

\* What an exception leaves: a part of the stack, and a transport that is
\* closed when the protocol is.
LEMMA Raised ==
    ASSUME TypeOK, todo # <<>>, Raise(Tail(todo))
    PROVE  /\ todo' = <<>> \/ \E k \in 2..Len(todo) + 1 :
                                todo' = SubSeq(todo, k, Len(todo))
           /\ todo' \in Seq(Items) /\ Len(todo') < Len(todo)
           /\ state' \in {state, "UNWRAPPED"} /\ tr' \in {tr, Forced}
           /\ state' # state => tr' = Forced
<1>1. /\ Tail(todo) \in Seq(Items) /\ Len(Tail(todo)) = Len(todo) - 1
      /\ Len(todo) \in Nat \ {0} /\ todo \in Seq(Items)
  BY Pushed DEF TypeOK, Controls
<1>2. \A k \in 1..Len(todo) :
        SubSeq(Tail(todo), k, Len(Tail(todo))) = SubSeq(todo, k + 1, Len(todo))
  BY <1>1, PartOfTail
<1>3. CASE todo' = <<>> /\ UNCHANGED <<state, tr>>
  BY <1>3, <1>1
<1>4. ASSUME NEW i \in 1..Len(Tail(todo)),
             state' = IF Tail(todo)[i] = "end_read" THEN "UNWRAPPED" ELSE state,
             IF Tail(todo)[i] \in {"end_read", "returns"}
             THEN tr' = Forced
                  /\ todo' = SubSeq(Tail(todo), i + 1, Len(Tail(todo)))
             ELSE UNCHANGED tr
                  /\ todo' = SubSeq(Tail(todo), i, Len(Tail(todo)))
      PROVE  /\ \E k \in 2..Len(todo) + 1 : todo' = SubSeq(todo, k, Len(todo))
             /\ state' \in {state, "UNWRAPPED"} /\ tr' \in {tr, Forced}
             /\ state' # state => tr' = Forced
  <2>1. i + 1 \in 1..Len(todo) /\ i \in 1..Len(todo)
    BY <1>1
  <2>2. todo' \in {SubSeq(todo, i + 2, Len(todo)), SubSeq(todo, i + 1, Len(todo))}
    <3>1. i + 1 + 1 = i + 2
      BY <2>1, <1>1
    <3> QED
      BY <3>1, <1>4, <2>1, <1>2
  <2>3. i + 2 \in 2..Len(todo) + 1 /\ i + 1 \in 2..Len(todo) + 1
    BY <2>1, <1>1
  <2> QED
    BY <1>4, <2>2, <2>3
<1>5. \A k \in 2..Len(todo) + 1 : /\ SubSeq(todo, k, Len(todo)) \in Seq(Items)
                                  /\ Len(SubSeq(todo, k, Len(todo))) < Len(todo)
  BY <1>1
<1>6. Raise(Tail(todo)) =>
        \/ todo' = <<>> /\ UNCHANGED <<state, tr>>
        \/ \E k \in 2..Len(todo) + 1 : todo' = SubSeq(todo, k, Len(todo))
           /\ state' \in {state, "UNWRAPPED"} /\ tr' \in {tr, Forced}
           /\ (state' # state => tr' = Forced)
  BY <1>4 DEF Raise
<1> QED
  BY <1>3, <1>5, <1>6, <1>1

-----------------------------------------------------------------------------
(* What is left of the stack is in order, whichever method goes on *)

\* The stack before the end of the handshake, by its first item.
LEMMA AtStart ==
    ASSUME todo \in Starting, todo # <<>>
    PROVE  \/ /\ Head(todo) \in {"returns", "written", "do_read", "start_shutdown"}
              /\ todo = <<Head(todo)>> /\ Tail(todo) = <<>>
           \/ /\ Head(todo) \in HandshakeItems
              /\ todo = <<Head(todo), "returns">> /\ Tail(todo) = <<"returns">>
<1>1. ASSUME NEW x \in {"returns", "written", "do_read", "start_shutdown"},
             todo = <<x>>
      PROVE  Head(todo) = x /\ Tail(todo) = <<>>
  BY <1>1
<1>2. CASE todo \in {<<x, "returns">> : x \in HandshakeItems}
  <2>1. PICK x \in HandshakeItems : todo = <<x, "returns">>
    BY <1>2
  <2>2. Head(todo) = x /\ Tail(todo) = <<"returns">>
    BY <2>1
  <2> QED
    BY <2>1, <2>2
<1> QED
  BY <1>1, <1>2 DEF Starting

\* ... and after the loss of the connection.
LEMMA AtEnd ==
    ASSUME todo \in Afterwards, todo # <<>>
    PROVE  /\ Tail(todo) = <<>>
           /\ Head(todo) \in {"do_read", "control_app_writing", "start_shutdown"}
<1>1. ASSUME NEW x, todo = <<x>> PROVE Head(todo) = x /\ Tail(todo) = <<>>
  BY <1>1
<1> QED
  BY <1>1 DEF Afterwards

\* What _control_app_writing() calls: nothing after the loss of the connection.
LEMMA Controlled ==
    ASSUME ControlAppWriting
    PROVE  /\ todo # <<>> /\ Head(todo) = "control_app_writing"
           /\ \E t \in {<<"pause_writing">>, <<"resume_writing">>, <<>>} : Then(t)
           /\ tr = "gone" => Then(<<>>)
  BY DEF ControlAppWriting, CallApp, Runs

\* Methods put no item of a handshake on the stack.
LEMMA NoHandshake ==
    ASSUME TypeOK, HandshakeInv, todo # <<>>,
           NEW t \in Seq(Items), \A i \in 1..Len(t) : t[i] \notin HandshakeItems,
           Then(t)
    PROVE  /\ todo' \in Seq(Items)
           /\ \A i \in 1..Len(todo') : todo'[i] \notin HandshakeItems
<1>1. todo \in Seq(Items) /\ todo' = t \o Tail(todo)
  BY DEF TypeOK, Controls, Then
<1>2. /\ todo' \in Seq(Items) /\ Len(todo') = Len(t) + Len(todo) - 1
      /\ \A i \in 1..Len(t) : todo'[i] = t[i]
      /\ \A i \in Len(t)+1..Len(t) + Len(todo) - 1 :
           todo'[i] = todo[i - Len(t) + 1]
      /\ Len(todo) \in Nat \ {0} /\ Len(t) \in Nat
  BY <1>1, Pushed
<1>3. \A i \in 2..Len(todo) : todo[i] \notin HandshakeItems
  <2>1. CASE state = "DO_HANDSHAKE"
    <3>1. PICK x : todo = <<x>> \/ todo = <<x, "returns">>
      BY <2>1, AtStart DEF HandshakeInv
    <3>2. CASE todo = <<x>>
      <4>1. Len(todo) = 1
        BY <3>2
      <4> QED
        BY <4>1
    <3>3. CASE todo = <<x, "returns">>
      <4>1. Len(todo) = 2 /\ todo[2] = "returns"
        BY <3>3
      <4>2. \A i \in 2..Len(todo) : i = 2
        BY <4>1
      <4> QED
        BY <4>1, <4>2 DEF HandshakeItems
    <3> QED
      BY <3>1, <3>2, <3>3
  <2>2. CASE state # "DO_HANDSHAKE"
    BY <2>2, <1>2 DEF HandshakeInv
  <2> QED
    BY <2>1, <2>2
<1>4. ASSUME NEW i \in 1..Len(todo') PROVE todo'[i] \notin HandshakeItems
  <2>1. CASE i <= Len(t)
    BY <2>1, <1>2
  <2>2. CASE i > Len(t)
    <3>1. i - Len(t) + 1 \in 2..Len(todo) /\ todo'[i] = todo[i - Len(t) + 1]
      BY <2>2, <1>2
    <3> QED
      BY <3>1, <1>3
  <2> QED
    BY <2>1, <2>2, <1>2
<1> QED
  BY <1>2, <1>4

\* A method goes on that changes neither the state of the connection nor what
\* the application has been told.
LEMMA Calm ==
    ASSUME TypeOK, HandshakeInv, WrappedInv, todo # <<>>,
           Head(todo) \notin {"do_read", "start_shutdown"},
           NEW t \in Seq(Plain), Then(t),
           \A i \in 1..Len(t) : t[i] \notin {"data_received", "connection_made"},
           state = "DO_HANDSHAKE" => t = <<>> /\ waiter' # "ok",
           UNCHANGED <<kind, state, app, over>>
    PROVE  todo' \in Seq(Items) /\ HandshakeInv' /\ WrappedInv'
<1>1. t \in Seq(Items) /\ \A i \in 1..Len(t) : t[i] \notin HandshakeItems
  BY DEF Plain
<1>2. todo' \in Seq(Items) /\ \A i \in 1..Len(todo') : todo'[i] \notin HandshakeItems
  BY <1>1, NoHandshake
<1>3. HandshakeInv'
  <2>1. CASE state = "DO_HANDSHAKE"
    <3>1. todo' = Tail(todo) /\ ~over
      <4>1. todo' = Tail(todo)
        <5>1. todo \in Seq(Items) /\ t = <<>> /\ todo' = t \o Tail(todo)
          BY <2>1 DEF Then, TypeOK, Controls
        <5> QED
          BY <5>1, Pushed
      <4>2. todo # <<"start_shutdown">>
        OBVIOUS
      <4> QED
        BY <4>1, <4>2, <2>1 DEF HandshakeInv, TypeOK, Controls
    <3>2. todo' \in {<<>>, <<"returns">>}
      BY <3>1, <2>1, AtStart DEF HandshakeInv
    <3> QED
      BY <2>1, <3>1, <3>2 DEF HandshakeInv, Starting
  <2>2. CASE state # "DO_HANDSHAKE"
    BY <2>2, <1>2 DEF HandshakeInv
  <2> QED
    BY <2>1, <2>2
<1>4. WrappedInv'
  <2> SUFFICES ASSUME state = "WRAPPED" PROVE WrappedInv'
    BY DEF WrappedInv
  <2>1. Ordered(todo) /\ (app # "made" => Ending(todo)) /\ ~over
    BY DEF WrappedInv, Runs
  <2>2. Ordered(todo') /\ (Ending(todo) => Ending(todo'))
    BY <2>1, Continued DEF Then, TypeOK, Controls
  <2> QED
    BY <2>1, <2>2 DEF WrappedInv
<1> QED
  BY <1>2, <1>3, <1>4

\* The application calls a method, from a callback or outside of one.
LEMMA CalledInOrder ==
    ASSUME TypeOK, HandshakeInv, WrappedInv, UserRuns,
           NEW x \in {"control_app_writing", "start_shutdown"},
           todo' = <<x>> \o todo,
           x = "control_app_writing" => UNCHANGED over,
           UNCHANGED <<kind, state, app, waiter>>
    PROVE  todo' \in Seq(Items) /\ HandshakeInv' /\ WrappedInv'
<1>1. state # "DO_HANDSHAKE"
  BY DEF UserRuns, HasTransport, HandshakeInv
<1>2. /\ todo \in Seq(Items) /\ (todo = <<>> \/ Head(todo) \in Callbacks)
      /\ x \in Plain \ {"data_received", "connection_made"}
  BY DEF TypeOK, Controls, UserRuns, Idle, Plain, Items, HandshakeItems,
     Callbacks
<1>3. /\ todo' \in Seq(Items) /\ Head(todo') = x /\ todo' # <<>>
      /\ Ordered(todo) => Ordered(todo')
      /\ Ending(todo) => Ending(todo')
  BY <1>2, Called
<1>4. \A i \in 1..Len(todo') : todo'[i] \notin HandshakeItems
  <2>1. /\ Len(todo') = Len(todo) + 1 /\ todo'[1] = x /\ Len(todo) \in Nat
        /\ \A i \in 1..Len(todo) : todo'[i + 1] = todo[i]
    BY <1>2 DEF Plain
  <2>2. \A i \in 1..Len(todo') : i = 1 \/ (i - 1 \in 1..Len(todo) /\ (i - 1) + 1 = i)
    BY <2>1
  <2>3. x \notin HandshakeItems
    BY DEF HandshakeItems
  <2> QED
    BY <1>1, <2>1, <2>2, <2>3 DEF HandshakeInv
<1>5. WrappedInv'
  <2> SUFFICES ASSUME state = "WRAPPED" PROVE WrappedInv'
    BY DEF WrappedInv
  <2>1. ~over
    BY <1>2 DEF WrappedInv, Runs, UserRuns, Idle, Callbacks
  <2> QED
    BY <2>1, <1>3 DEF WrappedInv, Runs
<1> QED
  BY <1>1, <1>3, <1>4, <1>5 DEF HandshakeInv

\* A callback raises.
LEMMA RaisedInOrder ==
    ASSUME TypeOK, HandshakeInv, WrappedInv, todo # <<>>, Raise(Tail(todo)),
           Runs("data_received") \/ Runs("connection_made") \/ state # "WRAPPED",
           state # "DO_HANDSHAKE",
           UNCHANGED <<kind, app, waiter, over>>
    PROVE  todo' \in Seq(Items) /\ HandshakeInv' /\ WrappedInv'
<1>1. /\ todo' = <<>> \/ \E k \in 2..Len(todo) + 1 :
                           todo' = SubSeq(todo, k, Len(todo))
      /\ todo' \in Seq(Items) /\ state' \in {state, "UNWRAPPED"}
  BY Raised
<1>2. \A i \in 1..Len(todo') : todo'[i] \notin HandshakeItems
  <2>1. CASE todo' = <<>>
    BY <2>1
  <2>2. ASSUME NEW k \in 2..Len(todo) + 1, todo' = SubSeq(todo, k, Len(todo))
        PROVE  \A i \in 1..Len(todo') : todo'[i] \notin HandshakeItems
    <3>1. \A i \in 1..Len(todo') :
            i + k - 1 \in 2..Len(todo) /\ todo'[i] = todo[i + k - 1]
      BY <2>2, Left DEF TypeOK, Controls
    <3>2. \A i \in 2..Len(todo) : todo[i] \notin HandshakeItems
      <4>1. todo \in Seq(Items)
        BY DEF TypeOK, Controls
      <4>2. 2..Len(todo) \subseteq 1..Len(todo)
        BY <4>1
      <4> QED
        BY <4>2 DEF HandshakeInv
    <3> QED
      BY <3>1, <3>2
  <2> QED
    BY <2>1, <2>2, <1>1
<1>3. WrappedInv'
  <2> SUFFICES ASSUME state' = "WRAPPED" PROVE WrappedInv'
    BY DEF WrappedInv
  <2>1. state = "WRAPPED" /\ Head(todo) \in {"data_received", "connection_made"}
    BY <1>1 DEF Runs
  <2>2. Head(todo) = todo[1] /\ 1 \in 1..Len(todo)
    <3>1. todo \in Seq(Items)
      BY DEF TypeOK, Controls
    <3> QED
      BY <3>1
  <2>3. Ordered(todo) /\ app = "made" /\ ~over
    BY <2>1, <2>2 DEF WrappedInv, Ending, Runs
  <2>4. Ordered(todo')
    <3>1. CASE todo' = <<>>
      BY <3>1 DEF Ordered
    <3>2. ASSUME NEW k \in 2..Len(todo) + 1, todo' = SubSeq(todo, k, Len(todo))
          PROVE  Ordered(todo')
      BY <3>2, <2>3, Left DEF TypeOK, Controls
    <3> QED
      BY <3>1, <3>2, <1>1
  <2> QED
    BY <2>3, <2>4 DEF WrappedInv
<1>4. HandshakeInv'
  BY <1>1, <1>2 DEF HandshakeInv
<1> QED
  BY <1>1, <1>3, <1>4

\* After the loss of the connection few methods go on.
LEMMA Quiet ==
    ASSUME GoneInv, todo # <<>>,
           Head(todo) \notin {"do_read", "control_app_writing", "start_shutdown"}
    PROVE  tr # "gone"
  BY AtEnd DEF GoneInv

\* _process_outgoing() keeps the types of what it changes.
LEMMA ProcessTypes ==
    ASSUME TypeOK, NEW out \in Seq({"handshake", "app", "close"}), Process(out)
    PROVE  /\ outgoing' \in Seq({"handshake", "app", "close"})
           /\ paused' \subseteq {"app writing", "app reading", "ssl writing",
                                 "ssl reading"}
           /\ tbuf' \in BOOLEAN
<1>1. outgoing' \in {out, <<>>}
  BY DEF Process
<1>2. paused' \subseteq {"app writing", "app reading", "ssl writing",
                         "ssl reading"}
  <2>1. paused' \in {paused, paused \union {"ssl writing"}}
    BY DEF Process
  <2> QED
    BY <2>1 DEF TypeOK, Data, Flags
<1>3. tbuf' \in BOOLEAN
  BY DEF Process, TypeOK, Data, Flags
<1>4. <<>> \in Seq({"handshake", "app", "close"})
  OBVIOUS
<1> QED
  BY <1>1, <1>2, <1>3, <1>4

\* What _do_write() leaves is well typed.
LEMMA WroteTypes ==
    ASSUME TypeOK, NEW n \in Nat
    PROVE  /\ Wrote(n) \in Seq({"handshake", "app", "close"})
           /\ BacklogLeft(n) \in Nat
<1>1. [i \in 1..n |-> "app"] \in Seq({"handshake", "app", "close"})
  OBVIOUS
<1>2. Wrote(n) \in Seq({"handshake", "app", "close"})
  <2>1. outgoing \in Seq({"handshake", "app", "close"})
    BY DEF TypeOK, Data, Flags
  <2> DEFINE f == [i \in 1..n |-> "app"]
  <2> HIDE DEF f
  <2>2. f \in Seq({"handshake", "app", "close"})
    BY <1>1 DEF f
  <2>3. outgoing \o f \in Seq({"handshake", "app", "close"})
    BY <2>1, <2>2
  <2> QED
    BY <2>1, <2>3 DEF Wrote, f
<1> QED
  BY <1>2 DEF BacklogLeft, TypeOK, Data, Flags

\* The stack keeps its type when a method goes on.
LEMMA ThenTypes ==
    ASSUME TypeOK, todo # <<>>, NEW t \in Seq(Items), Then(t)
    PROVE  todo' \in Seq(Items)
  BY Pushed DEF TypeOK, Controls, Then

-----------------------------------------------------------------------------
(* Types *)

\* What the methods put on the stack.
LEMMA Fixed ==
    /\ <<"on_handshake_complete">> \in Seq(Items)
    /\ <<"handshake_failed">> \in Seq(Items)
    /\ <<"connection_made", "wakeup_waiter">> \in Seq(Items)
    /\ <<"wakeup_waiter">> \in Seq(Items)
    /\ <<>> \in Seq(Items)
    /\ <<"end_read">> \in Seq(Items)
    /\ <<"eof_received">> \in Seq(Items)
    /\ <<"pause_writing">> \in Seq(Items)
    /\ <<"resume_writing">> \in Seq(Items)
    /\ <<"do_flush">> \in Seq(Items)
    /\ <<"data_received">> \in Seq(Items)
    /\ <<"call_eof", "start_shutdown", "after_read", "end_read">> \in Seq(Items)
    /\ <<"after_read", "end_read">> \in Seq(Items)
    /\ <<"control_app_writing">> \in Seq(Items)
    /\ <<"control_ssl_reading">> \in Seq(Items)
    /\ <<"call_eof">> \in Seq(Items)
    /\ <<"flush_write", "flushed">> \in Seq(Items)
    /\ <<"unwrap">> \in Seq(Items)
    /\ <<"do_shutdown">> \in Seq(Items)
    /\ <<"shutdown_complete">> \in Seq(Items)
    /\ <<"do_handshake">> \in Seq(Items)
    /\ <<"do_read">> \in Seq(Items)
    /\ <<"returns">> \in Seq(Items)
    /\ <<"resumed">> \in Seq(Items)
    /\ <<"written">> \in Seq(Items)
    /\ <<"start_shutdown">> \in Seq(Items)
    /\ <<"handshake_failed", "returns">> \in Seq(Items)
<1>1. {"after_read", "call_eof", "connection_made",
       "control_app_writing", "control_ssl_reading", "data_received",
       "do_flush", "do_handshake", "do_read", "do_shutdown", "end_read",
       "eof_received", "flush_write", "flushed", "handshake_failed",
       "on_handshake_complete", "pause_writing", "resume_writing",
       "resumed", "returns", "shutdown_complete", "start_shutdown",
       "unwrap", "wakeup_waiter", "written"}
        \subseteq Items
  BY DEF Items, Callbacks, HandshakeItems
<1>2. /\ <<>> \in Seq(Items)
      /\ \A x \in Items : <<x>> \in Seq(Items)
      /\ \A x, y \in Items : <<x, y>> \in Seq(Items)
      /\ \A w, x, y, z \in Items : <<w, x, y, z>> \in Seq(Items)
  OBVIOUS
<1> QED
  BY <1>1, <1>2

\* Methods that put a fixed part of the stack in place of their own.
LEMMA TypesOfMethods ==
    ASSUME TypeOK,
           HandshakeDone \/ HandshakeFails \/ OnHandshakeComplete \/
           WakeupWaiter \/ OnHandshakeFailed \/ ReadNothing \/ ReadFails \/
           ControlSSLReading \/ CallEof \/ ControlAppWriting \/ StartShutdown
           \/ VoidFails \/ ShutdownComplete \/ UserReturns \/ Returns \/
           Written
    PROVE  TypeOK'
<1>1. CASE HandshakeDone
  <2>1. todo # <<>> /\ Then(<<"on_handshake_complete">>)
    BY <1>1 DEF HandshakeDone, Runs
  <2>2. todo' \in Seq(Items)
    BY <2>1, Fixed, ThenTypes
  <2>3. Controls'
    BY <1>1, <2>2 DEF HandshakeDone, TypeOK, Controls, trVars
  <2>4. Data'
    <3>1. outgoing' \in {outgoing, <<"handshake">>}
      BY <1>1 DEF HandshakeDone
    <3>2. outgoing \in Seq({"handshake", "app", "close"})
      BY DEF TypeOK, Data
    <3>3. outgoing' \in Seq({"handshake", "app", "close"})
      <4>1. <<"handshake">> \in Seq({"handshake", "app", "close"})
        OBVIOUS
      <4> QED
        BY <3>1, <3>2, <4>1
    <3> QED
      BY <1>1, <3>3 DEF HandshakeDone, TypeOK, Data, sslVars, flowVars,
         outVars, trVars, peerVars, loopVars, histVars
  <2>5. Flags'
    BY <1>1 DEF HandshakeDone, TypeOK, Flags, sslVars, flowVars, outVars,
       trVars, peerVars, loopVars, histVars
  <2> QED
    BY <2>3, <2>4, <2>5 DEF TypeOK
<1>2. CASE HandshakeFails
  <2>1. todo # <<>> /\ Then(<<"handshake_failed">>)
    BY <1>2 DEF HandshakeFails, Runs
  <2>2. todo' \in Seq(Items)
    BY <2>1, Fixed, ThenTypes
  <2>3. Controls'
    BY <1>2, <2>2 DEF HandshakeFails, TypeOK, Controls, trVars
  <2>4. Data'
    BY <1>2 DEF HandshakeFails, TypeOK, Data, sslVars, flowVars, outVars,
       trVars, peerVars, loopVars, histVars
  <2>5. Flags'
    BY <1>2 DEF HandshakeFails, TypeOK, Flags, sslVars, flowVars, outVars,
       trVars, peerVars, loopVars, histVars
  <2> QED
    BY <2>3, <2>4, <2>5 DEF TypeOK
<1>3. CASE OnHandshakeComplete
  <2>1. todo # <<>> /\ \E t \in {<<"connection_made", "wakeup_waiter">>, <<"wakeup_waiter">>} : Then(t)
    BY <1>3 DEF OnHandshakeComplete, Runs
  <2>2. todo' \in Seq(Items)
    BY <2>1, Fixed, ThenTypes
  <2>3. Controls'
    BY <1>3, <2>2 DEF OnHandshakeComplete, TypeOK, Controls, trVars
  <2>4. Data'
    BY <1>3 DEF OnHandshakeComplete, TypeOK, Data, sslVars, flowVars, outVars,
       trVars, peerVars, loopVars, histVars
  <2>5. Flags'
    BY <1>3 DEF OnHandshakeComplete, TypeOK, Flags, sslVars, flowVars,
       outVars, trVars, peerVars, loopVars, histVars
  <2> QED
    BY <2>3, <2>4, <2>5 DEF TypeOK
<1>4. CASE WakeupWaiter
  <2>1. todo # <<>> /\ Then(<<>>)
    BY <1>4 DEF WakeupWaiter, Runs
  <2>2. todo' \in Seq(Items)
    BY <2>1, Fixed, ThenTypes
  <2>3. Controls'
    BY <1>4, <2>2 DEF WakeupWaiter, TypeOK, Controls, trVars
  <2>4. Data'
    <3>1. reads' = reads + 1
      BY <1>4 DEF WakeupWaiter
    <3>2. reads \in Nat
      BY DEF TypeOK, Data
    <3>3. reads' \in Nat
      BY <3>1, <3>2
    <3> QED
      BY <1>4, <3>3 DEF WakeupWaiter, TypeOK, Data, sslVars, flowVars,
         outVars, trVars, peerVars, loopVars, histVars
  <2>5. Flags'
    BY <1>4 DEF WakeupWaiter, TypeOK, Flags, sslVars, flowVars, outVars,
       trVars, peerVars, loopVars, histVars
  <2> QED
    BY <2>3, <2>4, <2>5 DEF TypeOK
<1>5. CASE OnHandshakeFailed
  <2>1. todo # <<>> /\ Then(<<>>)
    BY <1>5 DEF OnHandshakeFailed, Runs
  <2>2. todo' \in Seq(Items)
    BY <2>1, Fixed, ThenTypes
  <2>3. Controls'
    BY <1>5, <2>2 DEF OnHandshakeFailed, TypeOK, Controls, trVars, Abort, Forced
  <2>4. Data'
    BY <1>5 DEF OnHandshakeFailed, TypeOK, Data, sslVars, flowVars, outVars,
       trVars, peerVars, loopVars, histVars
  <2>5. Flags'
    BY <1>5 DEF OnHandshakeFailed, TypeOK, Flags, sslVars, flowVars, outVars,
       trVars, peerVars, loopVars, histVars
  <2> QED
    BY <2>3, <2>4, <2>5 DEF TypeOK
<1>6. CASE ReadNothing
  <2>1. todo # <<>> /\ \E t \in {<<>>, <<"end_read">>} : Then(t)
    BY <1>6 DEF ReadNothing, Runs
  <2>2. todo' \in Seq(Items)
    BY <2>1, Fixed, ThenTypes
  <2>3. Controls'
    BY <1>6, <2>2 DEF ReadNothing, TypeOK, Controls, trVars
  <2>4. Data'
    BY <1>6 DEF ReadNothing, TypeOK, Data, sslVars, flowVars, outVars, trVars,
       peerVars, loopVars, histVars
  <2>5. Flags'
    BY <1>6 DEF ReadNothing, TypeOK, Flags, sslVars, flowVars, outVars,
       trVars, peerVars, loopVars, histVars
  <2> QED
    BY <2>3, <2>4, <2>5 DEF TypeOK
<1>7. CASE ReadFails
  <2>1. todo # <<>> /\ Then(<<>>)
    BY <1>7 DEF ReadFails, Runs, Reading
  <2>2. todo' \in Seq(Items)
    BY <2>1, Fixed, ThenTypes
  <2>3. Controls'
    BY <1>7, <2>2 DEF ReadFails, TypeOK, Controls, trVars, Reading, Abort,
       Forced
  <2>4. Data'
    <3>1. incoming' = <<>>
      BY <1>7 DEF ReadFails
    <3>2. incoming' \in Seq({"data", "close"})
      BY <3>1
    <3> QED
      BY <1>7, <3>2 DEF ReadFails, TypeOK, Data, sslVars, flowVars, outVars,
         trVars, peerVars, loopVars, histVars
  <2>5. Flags'
    BY <1>7 DEF ReadFails, TypeOK, Flags, sslVars, flowVars, outVars, trVars,
       peerVars, loopVars, histVars
  <2> QED
    BY <2>3, <2>4, <2>5 DEF TypeOK
<1>8. CASE ControlSSLReading
  <2>1. todo # <<>> /\ Then(<<>>)
    BY <1>8 DEF ControlSSLReading, Runs
  <2>2. todo' \in Seq(Items)
    BY <2>1, Fixed, ThenTypes
  <2>3. Controls'
    BY <1>8, <2>2 DEF ControlSSLReading, TypeOK, Controls, trVars, SSLReading
  <2>4. Data'
    BY <1>8 DEF ControlSSLReading, TypeOK, Data, sslVars, flowVars, outVars,
       trVars, peerVars, loopVars, histVars, SSLReading
  <2>5. Flags'
    BY <1>8 DEF ControlSSLReading, TypeOK, Flags, sslVars, flowVars, outVars,
       trVars, peerVars, loopVars, histVars
  <2> QED
    BY <2>3, <2>4, <2>5 DEF TypeOK
<1>9. CASE CallEof
  <2>1. todo # <<>> /\ \E t \in {<<"eof_received">>, <<>>} : Then(t)
    BY <1>9 DEF CallEof, Runs
  <2>2. todo' \in Seq(Items)
    BY <2>1, Fixed, ThenTypes
  <2>3. Controls'
    BY <1>9, <2>2 DEF CallEof, TypeOK, Controls, trVars
  <2>4. Data'
    BY <1>9 DEF CallEof, TypeOK, Data, sslVars, flowVars, outVars, trVars,
       peerVars, loopVars, histVars
  <2>5. Flags'
    BY <1>9 DEF CallEof, TypeOK, Flags, sslVars, flowVars, outVars, trVars,
       peerVars, loopVars, histVars
  <2> QED
    BY <2>3, <2>4, <2>5 DEF TypeOK
<1>10. CASE ControlAppWriting
  <2>1. todo # <<>> /\ \E t \in {<<"pause_writing">>, <<"resume_writing">>, <<>>} : Then(t)
    BY <1>10, Controlled
  <2>2. todo' \in Seq(Items)
    BY <2>1, Fixed, ThenTypes
  <2>3. Controls'
    BY <1>10, <2>2 DEF ControlAppWriting, TypeOK, Controls, trVars
  <2>4. Data'
    BY <1>10 DEF ControlAppWriting, TypeOK, Data, sslVars, flowVars, outVars,
       trVars, peerVars, loopVars, histVars
  <2>5. Flags'
    BY <1>10 DEF ControlAppWriting, TypeOK, Flags, sslVars, flowVars, outVars,
       trVars, peerVars, loopVars, histVars
  <2> QED
    BY <2>3, <2>4, <2>5 DEF TypeOK
<1>11. CASE StartShutdown
  <2>1. todo # <<>> /\ \E t \in {<<>>, <<"do_flush">>} : Then(t)
    BY <1>11 DEF StartShutdown, Runs
  <2>2. todo' \in Seq(Items)
    BY <2>1, Fixed, ThenTypes
  <2>3. Controls'
    BY <1>11, <2>2 DEF StartShutdown, TypeOK, Controls, trVars, Abort, Forced,
       ShutdownTimer
  <2>4. Data'
    BY <1>11 DEF StartShutdown, TypeOK, Data, sslVars, flowVars, outVars,
       trVars, peerVars, loopVars, histVars, ShutdownTimer
  <2>5. Flags'
    BY <1>11 DEF StartShutdown, TypeOK, Flags, sslVars, flowVars, outVars,
       trVars, peerVars, loopVars, histVars
  <2> QED
    BY <2>3, <2>4, <2>5 DEF TypeOK
<1>12. CASE VoidFails
  <2>1. todo # <<>> /\ Then(<<>>)
    BY <1>12 DEF VoidFails, Runs
  <2>2. todo' \in Seq(Items)
    BY <2>1, Fixed, ThenTypes
  <2>3. Controls'
    BY <1>12, <2>2 DEF VoidFails, TypeOK, Controls, trVars, Abort, Forced
  <2>4. Data'
    <3>1. incoming' = <<>>
      BY <1>12 DEF VoidFails
    <3>2. incoming' \in Seq({"data", "close"})
      BY <3>1
    <3> QED
      BY <1>12, <3>2 DEF VoidFails, TypeOK, Data, sslVars, flowVars, outVars,
         trVars, peerVars, loopVars, histVars
  <2>5. Flags'
    BY <1>12 DEF VoidFails, TypeOK, Flags, sslVars, flowVars, outVars, trVars,
       peerVars, loopVars, histVars
  <2> QED
    BY <2>3, <2>4, <2>5 DEF TypeOK
<1>13. CASE ShutdownComplete
  <2>1. todo # <<>> /\ Then(<<>>)
    BY <1>13 DEF ShutdownComplete, Runs
  <2>2. todo' \in Seq(Items)
    BY <2>1, Fixed, ThenTypes
  <2>3. Controls'
    BY <1>13, <2>2 DEF ShutdownComplete, TypeOK, Controls, trVars, Closed
  <2>4. Data'
    BY <1>13 DEF ShutdownComplete, TypeOK, Data, sslVars, flowVars, outVars,
       trVars, peerVars, loopVars, histVars
  <2>5. Flags'
    BY <1>13 DEF ShutdownComplete, TypeOK, Flags, sslVars, flowVars, outVars,
       trVars, peerVars, loopVars, histVars
  <2> QED
    BY <2>3, <2>4, <2>5 DEF TypeOK
<1>14. CASE UserReturns
  <2>1. todo # <<>> /\ Then(<<>>)
    BY <1>14 DEF UserReturns, Runs, Idle
  <2>2. todo' \in Seq(Items)
    BY <2>1, Fixed, ThenTypes
  <2>3. Controls'
    BY <1>14, <2>2 DEF UserReturns, TypeOK, Controls, trVars
  <2>4. Data'
    BY <1>14 DEF UserReturns, TypeOK, Data, sslVars, flowVars, outVars,
       trVars, peerVars, loopVars, histVars
  <2>5. Flags'
    BY <1>14 DEF UserReturns, TypeOK, Flags, sslVars, flowVars, outVars,
       trVars, peerVars, loopVars, histVars
  <2> QED
    BY <2>3, <2>4, <2>5 DEF TypeOK
<1>15. CASE Returns
  <2>1. todo # <<>> /\ Then(<<>>)
    BY <1>15 DEF Returns, Runs
  <2>2. todo' \in Seq(Items)
    BY <2>1, Fixed, ThenTypes
  <2>3. Controls'
    BY <1>15, <2>2 DEF Returns, TypeOK, Controls, trVars
  <2>4. Data'
    BY <1>15 DEF Returns, TypeOK, Data, sslVars, flowVars, outVars, trVars,
       peerVars, loopVars, histVars
  <2>5. Flags'
    BY <1>15 DEF Returns, TypeOK, Flags, sslVars, flowVars, outVars, trVars,
       peerVars, loopVars, histVars
  <2> QED
    BY <2>3, <2>4, <2>5 DEF TypeOK
<1>16. CASE Written
  <2>1. todo # <<>> /\ Then(<<>>)
    BY <1>16 DEF Written, Runs
  <2>2. todo' \in Seq(Items)
    BY <2>1, Fixed, ThenTypes
  <2>3. Controls'
    BY <1>16, <2>2 DEF Written, TypeOK, Controls, trVars
  <2>4. Data'
    BY <1>16 DEF Written, TypeOK, Data, sslVars, flowVars, outVars, trVars,
       peerVars, loopVars, histVars
  <2>5. Flags'
    BY <1>16 DEF Written, TypeOK, Flags, sslVars, flowVars, outVars, trVars,
       peerVars, loopVars, histVars
  <2> QED
    BY <2>3, <2>4, <2>5 DEF TypeOK
<1> QED
  BY <1>1, <1>2, <1>3, <1>4, <1>5, <1>6, <1>7, <1>8, <1>9, <1>10, <1>11,
     <1>12, <1>13, <1>14, <1>15, <1>16

\* Methods that write.
LEMMA TypesOfWriters ==
    ASSUME TypeOK, HandshakeAgain \/ WriteOut \/ ResumedWriting \/ Unwrap
    PROVE  TypeOK'
<1>1. ASSUME NEW out \in Seq({"handshake", "app", "close"}), Process(out),
             backlog' \in Nat, todo' \in Seq(Items), sentClose' \in BOOLEAN,
             UNCHANGED <<kind, state, app, waiter, loopVars, incoming, gotClose,
                         busy, tr, peerVars, histVars>>
      PROVE  TypeOK'
  <2>1. /\ outgoing' \in Seq({"handshake", "app", "close"})
        /\ paused' \subseteq {"app writing", "app reading", "ssl writing",
                              "ssl reading"}
        /\ tbuf' \in BOOLEAN
    BY <1>1, ProcessTypes
  <2>2. Controls'
    BY <1>1 DEF TypeOK, Controls
  <2>3. Data'
    BY <1>1, <2>1 DEF TypeOK, Data, loopVars, histVars
  <2>4. Flags'
    BY <1>1, <2>1 DEF TypeOK, Flags, loopVars, histVars, peerVars
  <2> QED
    BY <2>2, <2>3, <2>4 DEF TypeOK
<1>2. /\ outgoing \in Seq({"handshake", "app", "close"}) /\ backlog \in Nat
      /\ sentClose \in BOOLEAN
  BY DEF TypeOK, Data, Flags
<1>3. CASE HandshakeAgain
  <2>1. <<"handshake">> \in Seq({"handshake", "app", "close"})
    OBVIOUS
  <2>2. PICK out \in {outgoing, <<"handshake">>} : Process(out)
    BY <1>3 DEF HandshakeAgain
  <2>3. todo' \in Seq(Items)
    BY <1>3, Fixed, ThenTypes DEF HandshakeAgain, Runs
  <2> QED
    BY <1>3, <2>1, <2>2, <2>3, <1>1, <1>2 DEF HandshakeAgain, sslVars
<1>4. CASE WriteOut
  <2>1. todo # <<>> /\ \E t \in {<<"control_app_writing">>, <<"control_ssl_reading">>} :
                         Then(t)
    BY <1>4 DEF WriteOut, Runs
  <2>2. todo' \in Seq(Items)
    BY <2>1, Fixed, ThenTypes
  <2>3. /\ Wrote(backlog) \in Seq({"handshake", "app", "close"})
        /\ BacklogLeft(backlog) \in Nat
    BY <1>2, WroteTypes
  <2> QED
    BY <1>4, <2>2, <2>3, <1>1, <1>2 DEF WriteOut, sslVars
<1>5. CASE ResumedWriting
  <2>1. todo' \in Seq(Items)
    BY <1>5, Fixed, ThenTypes DEF ResumedWriting, Runs
  <2> QED
    BY <1>5, <2>1, <1>1, <1>2 DEF ResumedWriting, sslVars
<1>6. CASE Unwrap
  <2>1. todo # <<>> /\ \E t \in {<<"shutdown_complete">>, <<>>} : Then(t)
    BY <1>6 DEF Unwrap, Runs
  <2>2. todo' \in Seq(Items)
    BY <2>1, Fixed, ThenTypes
  <2>3. Append(outgoing, "close") \in Seq({"handshake", "app", "close"})
    BY <1>2
  <2>4. PICK out \in {outgoing, Append(outgoing, "close")} : Process(out)
    BY <1>6 DEF Unwrap
  <2> QED
    BY <1>6, <2>2, <2>3, <2>4, <1>1, <1>2 DEF Unwrap
<1> QED
  BY <1>3, <1>4, <1>5, <1>6

\* Methods that read.
LEMMA TypesOfReaders ==
    ASSUME TypeOK, DoFlush \/ DoShutdown \/ \E n \in 0..Len(incoming) : Read(n)
    PROVE  TypeOK'
<1>1. ASSUME todo' \in Seq(Items), incoming' \in Seq({"data", "close"}),
             gotClose' \in BOOLEAN, reads' \in Nat,
             UNCHANGED <<kind, state, app, waiter, flowVars, timers, lostDue,
                         outVars, sentClose, busy, trVars, peerVars, histVars>>
      PROVE  TypeOK'
  <2>1. Controls'
    BY <1>1 DEF TypeOK, Controls, trVars
  <2>2. Data'
    BY <1>1 DEF TypeOK, Data, flowVars, outVars, histVars
  <2>3. Flags'
    BY <1>1 DEF TypeOK, Flags, trVars, peerVars, histVars
  <2> QED
    BY <2>1, <2>2, <2>3 DEF TypeOK
<1>2. ASSUME NEW more \in Seq(Items), todo # <<>>, IntoVoid(more)
      PROVE  /\ todo' \in Seq(Items) /\ incoming' \in Seq({"data", "close"})
             /\ gotClose' \in BOOLEAN
  <2>1. <<>> \o more \in Seq(Items) /\ <<"call_eof">> \o more \in Seq(Items)
    BY Fixed
  <2>2. \E t \in {<<>> \o more, <<"call_eof">> \o more} : Then(t)
    BY <1>2 DEF IntoVoid
  <2>3. todo' \in Seq(Items)
    BY <2>1, <2>2, <1>2, ThenTypes
  <2>4. gotClose' \in BOOLEAN
    BY <1>2 DEF IntoVoid, HasClose
  <2>5. incoming' \in Seq({"data", "close"})
    BY <1>2 DEF IntoVoid
  <2> QED
    BY <2>3, <2>4, <2>5
<1>3. reads \in Nat /\ incoming \in Seq({"data", "close"})
  BY DEF TypeOK, Data
<1>4. CASE DoFlush
  <2>1. /\ todo' \in Seq(Items) /\ incoming' \in Seq({"data", "close"})
        /\ gotClose' \in BOOLEAN
    BY <1>4, <1>2, Fixed DEF DoFlush, Runs
  <2> QED
    BY <2>1, <1>1, <1>3, <1>4 DEF DoFlush, loopVars
<1>5. CASE DoShutdown
  <2>1. /\ todo' \in Seq(Items) /\ incoming' \in Seq({"data", "close"})
        /\ gotClose' \in BOOLEAN
    BY <1>5, <1>2, Fixed DEF DoShutdown, Runs
  <2> QED
    BY <2>1, <1>1, <1>3, <1>5 DEF DoShutdown, loopVars
<1>6. ASSUME NEW n \in 0..Len(incoming), Read(n) PROVE TypeOK'
  <2>1. PICK a \in {<<"data_received">>, <<>>},
             b \in {<<"call_eof", "start_shutdown", "after_read", "end_read">>,
                    <<"after_read", "end_read">>} : Then(a \o b)
    BY <1>6 DEF Read
  <2>2. a \o b \in Seq(Items)
    <3>1. a \in Seq(Items) /\ b \in Seq(Items)
      BY Fixed
    <3> QED
      BY <3>1
  <2>3. todo' \in Seq(Items)
    BY <1>6, <2>1, <2>2, ThenTypes DEF Read, Reading, Runs
  <2>4. incoming' \in Seq({"data", "close"})
    <3>1. SubSeq(incoming, n + 1, Len(incoming)) \in Seq({"data", "close"})
      BY <1>3
    <3> QED
      BY <3>1, <1>6 DEF Read
  <2>5. gotClose' \in BOOLEAN
    BY <1>6 DEF Read, HasClose
  <2>6. reads' \in Nat
    BY <1>3, <1>6 DEF Read
  <2> QED
    BY <1>1, <1>6, <2>3, <2>4, <2>5, <2>6 DEF Read
<1> QED
  BY <1>4, <1>5, <1>6

\* What the application and the loop do without a stack of its own.
LEMMA TypesOfOthers ==
    ASSUME TypeOK, GoneInv,
           \/ UserAborts \/ PauseReading \/ ResumeReading \/ CancelWait
           \/ HandshakeTimeout \/ ShutdownTimeout \/ TransportFails \/ RunLost
           \/ ConnectionLost \/ \E l \in ReadLimits : SetReadLimits(l)
    PROVE  TypeOK'
<1>1. /\ reads \in Nat /\ lostCalls \in {0, 1}
      /\ outgoing \in Seq({"handshake", "app", "close"})
      /\ paused \subseteq {"app writing", "app reading", "ssl writing", "ssl reading"}
  BY DEF TypeOK, Data
<1>2. CASE UserAborts
  <2>1. Controls'
    BY <1>2 DEF UserAborts, TypeOK, Controls, trVars, Abort, Forced
  <2>2. Data'
    BY <1>2 DEF UserAborts, TypeOK, Data, sslVars, flowVars, outVars, trVars,
       peerVars, loopVars, histVars
  <2>3. Flags'
    BY <1>2 DEF UserAborts, TypeOK, Flags, sslVars, flowVars, outVars, trVars,
       peerVars, loopVars, histVars
  <2> QED
    BY <2>1, <2>2, <2>3 DEF TypeOK
<1>3. CASE PauseReading
  <2>1. Controls'
    BY <1>3 DEF PauseReading, TypeOK, Controls, trVars
  <2>2. Data'
    BY <1>3 DEF PauseReading, TypeOK, Data, sslVars, flowVars, outVars,
       trVars, peerVars, loopVars, histVars
  <2>3. Flags'
    BY <1>3 DEF PauseReading, TypeOK, Flags, sslVars, flowVars, outVars,
       trVars, peerVars, loopVars, histVars
  <2> QED
    BY <2>1, <2>2, <2>3 DEF TypeOK
<1>4. CASE ResumeReading
  <2>1. Controls'
    BY <1>4 DEF ResumeReading, TypeOK, Controls, trVars
  <2>2. Data'
    <3>1. reads' \in Nat
      <4>1. reads' = reads + 1
        BY <1>4 DEF ResumeReading
      <4>2. reads \in Nat
        BY <1>1
      <4> QED
        BY <4>1, <4>2
    <3> QED
      BY <3>1, <1>4 DEF ResumeReading, TypeOK, Data, sslVars, flowVars,
         outVars, trVars, peerVars, loopVars, histVars
  <2>3. Flags'
    BY <1>4 DEF ResumeReading, TypeOK, Flags, sslVars, flowVars, outVars,
       trVars, peerVars, loopVars, histVars
  <2> QED
    BY <2>1, <2>2, <2>3 DEF TypeOK
<1>5. CASE CancelWait
  <2>1. Controls'
    BY <1>5 DEF CancelWait, TypeOK, Controls, trVars
  <2>2. Data'
    BY <1>5 DEF CancelWait, TypeOK, Data, sslVars, flowVars, outVars, trVars,
       peerVars, loopVars, histVars
  <2>3. Flags'
    BY <1>5 DEF CancelWait, TypeOK, Flags, sslVars, flowVars, outVars, trVars,
       peerVars, loopVars, histVars
  <2> QED
    BY <2>1, <2>2, <2>3 DEF TypeOK
<1>6. CASE HandshakeTimeout
  <2>1. Controls'
    BY <1>6 DEF HandshakeTimeout, TypeOK, Controls, trVars, Abort, Forced
  <2>2. Data'
    BY <1>6 DEF HandshakeTimeout, TypeOK, Data, sslVars, flowVars, outVars,
       trVars, peerVars, loopVars, histVars
  <2>3. Flags'
    BY <1>6 DEF HandshakeTimeout, TypeOK, Flags, sslVars, flowVars, outVars,
       trVars, peerVars, loopVars, histVars
  <2> QED
    BY <2>1, <2>2, <2>3 DEF TypeOK
<1>7. CASE ShutdownTimeout
  <2>1. Controls'
    BY <1>7 DEF ShutdownTimeout, TypeOK, Controls, trVars, Forced
  <2>2. Data'
    BY <1>7 DEF ShutdownTimeout, TypeOK, Data, sslVars, flowVars, outVars,
       trVars, peerVars, loopVars, histVars
  <2>3. Flags'
    BY <1>7 DEF ShutdownTimeout, TypeOK, Flags, sslVars, flowVars, outVars,
       trVars, peerVars, loopVars, histVars
  <2> QED
    BY <2>1, <2>2, <2>3 DEF TypeOK
<1>8. CASE TransportFails
  <2>1. Controls'
    BY <1>8 DEF TransportFails, TypeOK, Controls, trVars
  <2>2. Data'
    BY <1>8 DEF TransportFails, TypeOK, Data, sslVars, flowVars, outVars,
       trVars, peerVars, loopVars, histVars
  <2>3. Flags'
    BY <1>8 DEF TransportFails, TypeOK, Flags, sslVars, flowVars, outVars,
       trVars, peerVars, loopVars, histVars
  <2> QED
    BY <2>1, <2>2, <2>3 DEF TypeOK
<1>9. CASE RunLost
  <2>1. Controls'
    BY <1>9 DEF RunLost, TypeOK, Controls, trVars
  <2>2. Data'
    <3>1. lostCalls' \in {0, 1}
      <4>1. lostCalls = 0 /\ lostCalls' = lostCalls + 1
        BY <1>9 DEF RunLost, GoneInv
      <4> QED
        BY <4>1
    <3> QED
      BY <3>1, <1>9 DEF RunLost, TypeOK, Data, sslVars, flowVars, outVars,
         trVars, peerVars, loopVars, histVars
  <2>3. Flags'
    BY <1>9 DEF RunLost, TypeOK, Flags, sslVars, flowVars, outVars, trVars,
       peerVars, loopVars, histVars
  <2> QED
    BY <2>1, <2>2, <2>3 DEF TypeOK
<1>10. CASE ConnectionLost
  <2>1. Controls'
    BY <1>10 DEF ConnectionLost, TypeOK, Controls, trVars, MustTell
  <2>2. Data'
    <3>1. outgoing' \in Seq({"handshake", "app", "close"})
      <4>1. <<>> \in Seq({"handshake", "app", "close"})
        OBVIOUS
      <4> QED
        BY <4>1, <1>10 DEF ConnectionLost
    <3> QED
      BY <3>1, <1>10 DEF ConnectionLost, TypeOK, Data, sslVars, flowVars,
         outVars, trVars, peerVars, loopVars, histVars
  <2>3. Flags'
    BY <1>10 DEF ConnectionLost, TypeOK, Flags, sslVars, flowVars, outVars,
       trVars, peerVars, loopVars, histVars
  <2> QED
    BY <2>1, <2>2, <2>3 DEF TypeOK
<1>11. ASSUME NEW l \in ReadLimits, SetReadLimits(l) PROVE TypeOK'
  <2>1. Controls'
    BY <1>11 DEF SetReadLimits, TypeOK, Controls, trVars
  <2>2. Data'
    <3>1. paused' \subseteq {"app writing", "app reading", "ssl writing",
                             "ssl reading"}
      BY <1>1, <1>11 DEF SetReadLimits, SSLReading
    <3> QED
      BY <3>1, <1>11 DEF SetReadLimits, TypeOK, Data, sslVars, flowVars,
         outVars, trVars, peerVars, loopVars, histVars
  <2>3. Flags'
    BY <1>11 DEF SetReadLimits, TypeOK, Flags, sslVars, flowVars, outVars,
       trVars, peerVars, loopVars, histVars
  <2> QED
    BY <2>1, <2>2, <2>3 DEF TypeOK
<1> QED
  BY <1>2, <1>3, <1>4, <1>5, <1>6, <1>7, <1>8, <1>9, <1>10, <1>11

\* What puts something on top of the stack, or drops a part of it.
LEMMA TypesOfCalls ==
    ASSUME TypeOK,
           \/ WriteData \/ Close \/ \E l \in WriteLimits : SetWriteLimits(l)
           \/ CancelledCloses \/ EndFlush \/ UserRaises \/ EofReceived \/ Drain
           \/ RunDoRead \/ \E s \in Chunks : BufferUpdated(s)
    PROVE  TypeOK'
<1>1. /\ todo \in Seq(Items) /\ tr \in {"open", "closing", "ending", "gone"}
      /\ state \in {"DO_HANDSHAKE", "WRAPPED", "FLUSHING", "SHUTDOWN", "UNWRAPPED"}
  BY DEF TypeOK, Controls
<1>2. backlog \in Nat /\ written \in Nat /\ incoming \in Seq({"data", "close"})
  BY DEF TypeOK, Data
<1>3. /\ <<"control_app_writing">> \o todo \in Seq(Items)
      /\ <<"start_shutdown">> \o todo \in Seq(Items)
  BY <1>1, Fixed
<1>4. CASE WriteData
  <2>1. backlog + 1 \in Nat /\ written' \in Nat
    <3>1. written' = written + 1
      BY <1>4 DEF WriteData
    <3> QED
      BY <3>1, <1>2
  <2>2. /\ Process(Wrote(backlog + 1)) /\ backlog' = BacklogLeft(backlog + 1)
        /\ Wrote(backlog + 1) \in Seq({"handshake", "app", "close"})
    BY <2>1, <1>4, WroteTypes DEF WriteData
  <2>3. /\ outgoing' \in Seq({"handshake", "app", "close"})
        /\ paused' \subseteq {"app writing", "app reading", "ssl writing",
                              "ssl reading"}
        /\ tbuf' \in BOOLEAN /\ backlog' \in Nat
    BY <2>1, <2>2, ProcessTypes, WroteTypes
  <2>4. Controls'
    BY <1>4, <1>3 DEF WriteData, TypeOK, Controls
  <2>5. Data'
    BY <1>4, <2>1, <2>3 DEF WriteData, TypeOK, Data, loopVars
  <2>6. Flags'
    BY <1>4, <2>3 DEF WriteData, TypeOK, Flags, loopVars, sslVars, peerVars
  <2> QED
    BY <2>4, <2>5, <2>6 DEF TypeOK
<1>5. CASE Close
  <2>1. todo' \in Seq(Items)
    BY <1>3, <1>5 DEF Close
  <2>2. Controls'
    BY <1>5, <1>1, <2>1 DEF Close, TypeOK, Controls, trVars
  <2>3. Data'
    BY <1>5 DEF Close, TypeOK, Data, sslVars, flowVars, outVars, trVars,
       peerVars, loopVars, histVars
  <2>4. Flags'
    BY <1>5 DEF Close, TypeOK, Flags, sslVars, flowVars, outVars, trVars,
       peerVars, loopVars, histVars
  <2> QED
    BY <2>2, <2>3, <2>4 DEF TypeOK
<1>6. ASSUME NEW l \in WriteLimits, SetWriteLimits(l) PROVE TypeOK'
  <2>1. todo' \in Seq(Items)
    BY <1>3, <1>6 DEF SetWriteLimits
  <2>2. Controls'
    BY <1>6, <1>1, <2>1 DEF SetWriteLimits, TypeOK, Controls, trVars
  <2>3. Data'
    BY <1>6 DEF SetWriteLimits, TypeOK, Data, sslVars, flowVars, outVars,
       trVars, peerVars, loopVars, histVars
  <2>4. Flags'
    BY <1>6 DEF SetWriteLimits, TypeOK, Flags, sslVars, flowVars, outVars,
       trVars, peerVars, loopVars, histVars
  <2> QED
    BY <2>2, <2>3, <2>4 DEF TypeOK
<1>7. CASE CancelledCloses
  <2>1. todo' \in Seq(Items)
    BY <1>7, Fixed DEF CancelledCloses
  <2>2. Controls'
    BY <1>7, <1>1, <2>1 DEF CancelledCloses, TypeOK, Controls, trVars
  <2>3. Data'
    BY <1>7 DEF CancelledCloses, TypeOK, Data, sslVars, flowVars, outVars,
       trVars, peerVars, loopVars, histVars
  <2>4. Flags'
    BY <1>7 DEF CancelledCloses, TypeOK, Flags, sslVars, flowVars, outVars,
       trVars, peerVars, loopVars, histVars
  <2> QED
    BY <2>2, <2>3, <2>4 DEF TypeOK
<1>8. CASE EndFlush
  <2>1. /\ todo' \in Seq(Items) /\ tr' \in {tr, Forced}
        /\ state' \in {state, "SHUTDOWN", "UNWRAPPED"}
    <3>1. todo # <<>>
      BY <1>8 DEF EndFlush, Runs
    <3>2. CASE Then(<<>>) /\ UNCHANGED <<state, tr>>
      BY <3>1, <3>2, Fixed, ThenTypes
    <3>3. CASE state' = "SHUTDOWN" /\ Then(<<"do_shutdown">>) /\ UNCHANGED tr
      BY <3>1, <3>3, Fixed, ThenTypes
    <3>4. CASE Raise(Tail(todo))
      BY <3>1, <3>4, Raised
    <3> QED
      BY <3>2, <3>3, <3>4, <1>8 DEF EndFlush
  <2>2. Controls'
    BY <1>8, <1>1, <2>1 DEF EndFlush, TypeOK, Controls, trVars, Forced
  <2>3. Data'
    BY <1>8 DEF EndFlush, TypeOK, Data, sslVars, flowVars, outVars, trVars,
       peerVars, loopVars, histVars
  <2>4. Flags'
    BY <1>8 DEF EndFlush, TypeOK, Flags, sslVars, flowVars, outVars, trVars,
       peerVars, loopVars, histVars
  <2> QED
    BY <2>2, <2>3, <2>4 DEF TypeOK
<1>9. CASE UserRaises
  <2>1. /\ todo' \in Seq(Items) /\ tr' \in {tr, Forced}
        /\ state' \in {state, "UNWRAPPED"}
    <3>1. todo # <<>>
      BY <1>9 DEF UserRaises, Runs
    <3>2. CASE Abort /\ Then(<<>>)
      BY <3>1, <3>2, Fixed, ThenTypes DEF Abort
    <3>3. CASE Raise(Tail(todo))
      BY <3>1, <3>3, Raised
    <3> QED
      BY <3>2, <3>3, <1>9 DEF UserRaises
  <2>2. Controls'
    BY <1>9, <1>1, <2>1 DEF UserRaises, TypeOK, Controls, trVars, Forced
  <2>3. Data'
    BY <1>9 DEF UserRaises, TypeOK, Data, sslVars, flowVars, outVars, trVars,
       peerVars, loopVars, histVars
  <2>4. Flags'
    BY <1>9 DEF UserRaises, TypeOK, Flags, sslVars, flowVars, outVars, trVars,
       peerVars, loopVars, histVars
  <2> QED
    BY <2>2, <2>3, <2>4 DEF TypeOK
<1>10. CASE EofReceived
  <2>1. todo' \in Seq(Items)
    BY <1>1, <1>10, Fixed DEF EofReceived
  <2>2. Controls'
    BY <1>10, <1>1, <2>1 DEF EofReceived, TypeOK, Controls, trVars, Closed
  <2>3. Data'
    BY <1>10 DEF EofReceived, TypeOK, Data, sslVars, flowVars, outVars,
       trVars, peerVars, loopVars, histVars
  <2>4. Flags'
    BY <1>10 DEF EofReceived, TypeOK, Flags, sslVars, flowVars, outVars,
       trVars, peerVars, loopVars, histVars
  <2> QED
    BY <2>2, <2>3, <2>4 DEF TypeOK
<1>11. CASE Drain
  <2>1. todo' \in Seq(Items)
    <3>1. PICK t \in {<<>>, <<"resumed">>, <<"do_flush">>, <<"do_shutdown">>} :
            todo' = t \o <<"written">>
      BY <1>11 DEF Drain
    <3>2. t \in Seq(Items) /\ <<"written">> \in Seq(Items)
      BY Fixed
    <3> QED
      BY <3>1, <3>2
  <2>2. Controls'
    BY <1>11, <1>1, <2>1 DEF Drain, TypeOK, Controls, trVars
  <2>3. Data'
    BY <1>11 DEF Drain, TypeOK, Data, sslVars, flowVars, outVars, trVars,
       peerVars, loopVars, histVars
  <2>4. Flags'
    BY <1>11 DEF Drain, TypeOK, Flags, sslVars, flowVars, outVars, trVars,
       peerVars, loopVars, histVars
  <2> QED
    BY <2>2, <2>3, <2>4 DEF TypeOK
<1>12. CASE RunDoRead
  <2>1. todo' \in Seq(Items)
    BY <1>12, Fixed DEF RunDoRead
  <2>5. reads' \in Nat
    <3>1. reads' = reads - 1 /\ reads > 0
      BY <1>12 DEF RunDoRead
    <3>2. reads \in Nat
      BY DEF TypeOK, Data
    <3> QED
      BY <3>1, <3>2
  <2>2. Controls'
    BY <1>12, <1>1, <2>1 DEF RunDoRead, TypeOK, Controls, trVars
  <2>3. Data'
    BY <1>12, <2>5 DEF RunDoRead, TypeOK, Data, sslVars, flowVars, outVars,
       trVars, peerVars, loopVars, histVars
  <2>4. Flags'
    BY <1>12 DEF RunDoRead, TypeOK, Flags, sslVars, flowVars, outVars, trVars,
       peerVars, loopVars, histVars
  <2> QED
    BY <2>2, <2>3, <2>4 DEF TypeOK
<1>13. ASSUME NEW s \in Chunks, BufferUpdated(s) PROVE TypeOK'
  <2>1. todo' \in Seq(Items)
    <3>1. PICK t \in {<<>>, <<"do_handshake">>, <<"do_read">>, <<"do_flush">>,
                      <<"do_shutdown">>} : todo' = t \o <<"returns">>
      BY <1>13, <1>1 DEF BufferUpdated
    <3>2. t \in Seq(Items) /\ <<"returns">> \in Seq(Items)
      BY Fixed
    <3> QED
      BY <3>1, <3>2
  <2>5. incoming' \in Seq({"data", "close"})
    <3>1. s \in Seq({"data", "close"})
      <4>1. /\ <<>> \in Seq({"data", "close"})
            /\ <<"data">> \in Seq({"data", "close"})
            /\ <<"data", "data">> \in Seq({"data", "close"})
            /\ <<"close">> \in Seq({"data", "close"})
            /\ <<"data", "close">> \in Seq({"data", "close"})
        OBVIOUS
      <4> QED
        BY <4>1 DEF Chunks
    <3>2. incoming' = incoming \o s
      BY <1>13 DEF BufferUpdated
    <3>3. incoming \in Seq({"data", "close"})
      BY <1>2
    <3> QED
      BY <3>1, <3>2, <3>3
  <2>6. peerClosed' \in BOOLEAN /\ busy' \in BOOLEAN
    BY <1>13 DEF BufferUpdated, HasClose, TypeOK, Flags
  <2>2. Controls'
    BY <1>13, <1>1, <2>1 DEF BufferUpdated, TypeOK, Controls, trVars
  <2>3. Data'
    BY <1>13, <2>5 DEF BufferUpdated, TypeOK, Data, sslVars, flowVars,
       outVars, trVars, peerVars, loopVars, histVars
  <2>4. Flags'
    BY <1>13, <2>6 DEF BufferUpdated, TypeOK, Flags, sslVars, flowVars,
       outVars, trVars, peerVars, loopVars, histVars
  <2> QED
    BY <2>2, <2>3, <2>4 DEF TypeOK
<1> QED
  BY <1>4, <1>5, <1>6, <1>7, <1>8, <1>9, <1>10, <1>11, <1>12, <1>13

\* Every step keeps to the types.
LEMMA TypeStep == ASSUME TypeOK, GoneInv, [Next]_vars PROVE TypeOK'
<1>1. CASE UNCHANGED vars
  <2>1. Controls' /\ Data'
    BY <1>1 DEF vars, TypeOK, Controls, Data, sslVars, flowVars, outVars,
       trVars, peerVars, loopVars, histVars
  <2>2. Flags'
    BY <1>1 DEF vars, TypeOK, Flags, sslVars, flowVars, outVars, trVars,
       peerVars, loopVars, histVars
  <2> QED
    BY <2>1, <2>2 DEF TypeOK
<1>2. CASE Next
  BY <1>2, TypesOfMethods, TypesOfWriters, TypesOfReaders, TypesOfOthers,
     TypesOfCalls DEF Next, Code, User
<1> QED
  BY <1>1, <1>2

-----------------------------------------------------------------------------
(* The order of what is on the stack *)

\* In FLUSHING and later, any method may go on.
LEMMA NotWrapped ==
    ASSUME TypeOK, HandshakeInv, todo # <<>>,
           NEW t \in Seq(Items), \A i \in 1..Len(t) : t[i] \notin HandshakeItems,
           Then(t), state' \notin {"DO_HANDSHAKE", "WRAPPED"}
    PROVE  HandshakeInv' /\ WrappedInv'
  BY NoHandshake DEF HandshakeInv, WrappedInv

\* Before the end of the handshake, few methods run.
LEMMA Shaking ==
    ASSUME HandshakeInv, todo # <<>>,
           Head(todo) \notin HandshakeItems \union
               {"returns", "written", "do_read", "start_shutdown"}
    PROVE  state # "DO_HANDSHAKE"
  BY AtStart DEF HandshakeInv

\* _do_read() and what it calls, above what is left of the stack.
LEMMA Appended ==
    ASSUME NEW t \in Seq(Items), NEW n \in Seq(Items), Ordered(t),
           \A i \in 1..Len(t) : t[i] # "do_read",
           Len(n) >= Len(t), \A i \in 1..Len(t) : n[i] = t[i],
           \A i \in Len(t)+1..Len(n) : n[i] = "returns"
    PROVE  Ordered(n)
<1>1. Len(n) \in Nat /\ Len(t) \in Nat
  OBVIOUS
<1>2. ASSUME NEW i \in 1..Len(n), n[i] = "call_eof"
      PROVE  /\ i < Len(n) /\ n[i + 1] = "start_shutdown"
             /\ \A j \in i+1..Len(n) : n[j] \notin {"data_received", "connection_made"}
  <2>1. i \in 1..Len(t) /\ t[i] = "call_eof"
    BY <1>1, <1>2
  <2>2. /\ i < Len(t) /\ t[i + 1] = "start_shutdown"
        /\ \A j \in i+1..Len(t) : t[j] \notin {"data_received", "connection_made"}
    BY <2>1 DEF Ordered
  <2>3. i < Len(n) /\ i + 1 \in 1..Len(t)
    BY <1>1, <2>1, <2>2
  <2>4. ASSUME NEW j \in i+1..Len(n)
        PROVE  n[j] \notin {"data_received", "connection_made"}
    <3>1. CASE j <= Len(t)
      BY <3>1, <2>1, <2>2, <1>1
    <3>2. CASE j > Len(t)
      BY <3>2, <1>1
    <3> QED
      BY <3>1, <3>2, <1>1, <2>1
  <2> QED
    BY <2>2, <2>3, <2>4
<1>3. ASSUME NEW i \in 1..Len(n)
      PROVE  n[i] \notin HandshakeItems \union
                 {"do_flush", "do_shutdown", "flushed", "do_read"}
  <2>1. CASE i <= Len(t)
    BY <2>1, <1>1 DEF Ordered
  <2>2. CASE i > Len(t)
    BY <2>2, <1>1 DEF HandshakeItems
  <2> QED
    BY <2>1, <2>2, <1>1
<1> QED
  BY <1>2, <1>3 DEF Ordered

\* What _do_read() puts on the stack is in order, whatever was read.
LEMMA ReadInOrder ==
    ASSUME NEW a \in {<<"data_received">>, <<>>},
           NEW b \in {<<"call_eof", "start_shutdown", "after_read", "end_read">>,
                      <<"after_read", "end_read">>}
    PROVE  /\ a \o b \in Seq(Items) /\ Ordered(a \o b)
           /\ \A i \in 1..Len(a \o b) :
                (a \o b)[i] # "do_read" /\ (a \o b)[i] \notin HandshakeItems
<1>1. b \in Seq(Items)
  BY Fixed
<1>2. \A i \in 1..Len(b) :
        b[i] \in {"call_eof", "start_shutdown", "after_read", "end_read"}
  <2>1. CASE b = <<"after_read", "end_read">>
    BY <2>1
  <2>2. CASE b = <<"call_eof", "start_shutdown", "after_read", "end_read">>
    BY <2>2
  <2> QED
    BY <2>1, <2>2
<1>3. ASSUME NEW i \in 1..Len(b), b[i] = "call_eof"
      PROVE  /\ i < Len(b) /\ b[i + 1] = "start_shutdown"
             /\ \A j \in i+1..Len(b) : b[j] \notin {"data_received", "connection_made"}
  <2>1. CASE b = <<"after_read", "end_read">>
    BY <2>1, <1>3
  <2>2. CASE b = <<"call_eof", "start_shutdown", "after_read", "end_read">>
    <3>1. Len(b) = 4 /\ i = 1 /\ b[2] = "start_shutdown"
      BY <2>2, <1>3
    <3>2. \A j \in 2..4 : b[j] \notin {"data_received", "connection_made"}
      BY <2>2
    <3> QED
      BY <3>1, <3>2
  <2> QED
    BY <2>1, <2>2
<1>4. Ordered(b) /\ \A i \in 1..Len(b) : b[i] # "do_read" /\ b[i] \notin HandshakeItems
  BY <1>2, <1>3 DEF Ordered, HandshakeItems
<1>5. CASE a = <<>>
  <2>1. a \o b = b
    BY <1>1, <1>5
  <2> QED
    BY <2>1, <1>1, <1>4
<1>6. CASE a = <<"data_received">>
  <2>1. "data_received" \in Plain
    BY DEF Plain, Items, Callbacks, HandshakeItems
  <2>2. "data_received" \notin HandshakeItems
    BY DEF HandshakeItems
  <2> QED
    BY <2>1, <2>2, <1>1, <1>4, <1>6, Called
<1> QED
  BY <1>5, <1>6

\* Of the stacks of Fixed, those that are put on without a thought.
LEMMA FixedPlain ==
    \A t \in {<<>>, <<"control_app_writing">>, <<"control_ssl_reading">>,
              <<"pause_writing">>, <<"resume_writing">>, <<"shutdown_complete">>} :
        /\ t \in Seq(Plain)
        /\ \A i \in 1..Len(t) : t[i] \notin {"data_received", "connection_made"}
<1>1. {"control_app_writing", "control_ssl_reading", "pause_writing",
       "resume_writing", "shutdown_complete"} \subseteq Plain
  BY DEF Plain, Items, Callbacks, HandshakeItems
<1>2. <<>> \in Seq(Plain) /\ \A x \in Plain : <<x>> \in Seq(Plain)
  OBVIOUS
<1>3. ASSUME NEW x \in {"control_app_writing", "control_ssl_reading",
                        "pause_writing", "resume_writing", "shutdown_complete"}
      PROVE  /\ <<x>> \in Seq(Plain)
             /\ \A i \in 1..Len(<<x>>) :
                  <<x>>[i] \notin {"data_received", "connection_made"}
  <2>1. \A i \in 1..Len(<<x>>) : <<x>>[i] = x
    OBVIOUS
  <2> QED
    BY <2>1, <1>1, <1>2
<1>4. \A i \in 1..Len(<<>>) : FALSE
  OBVIOUS
<1> QED
  BY <1>2, <1>3, <1>4

\* Methods that change neither the state nor what the application was told.
LEMMA OrderOfCalm ==
    ASSUME TypeOK, HandshakeInv, WrappedInv,
           WriteOut \/ ControlSSLReading \/ ControlAppWriting \/
           ResumedWriting \/ Unwrap \/ ShutdownComplete \/ WakeupWaiter \/
           Returns \/ Written \/ UserReturns \/ HandshakeAgain
    PROVE  HandshakeInv' /\ WrappedInv'
<1>1. CASE WriteOut
  <2>1. PICK t \in {<<"control_app_writing">>, <<"control_ssl_reading">>} : Then(t)
    BY <1>1 DEF WriteOut
  <2>2. /\ todo # <<>> /\ Head(todo) \notin {"do_read", "start_shutdown"}
        /\ UNCHANGED <<kind, state, app, over>>
    BY <1>1 DEF WriteOut, Runs, histVars
  <2>3. state # "DO_HANDSHAKE"
    BY <1>1, <2>2, Shaking DEF WriteOut, Runs, HandshakeItems
  <2> QED
    BY <2>1, <2>2, <2>3, FixedPlain, Calm
<1>2. CASE ControlSSLReading
  <2>1. PICK t \in {<<>>} : t = <<>> /\ Then(t)
    BY <1>2 DEF ControlSSLReading
  <2>2. /\ todo # <<>> /\ Head(todo) \notin {"do_read", "start_shutdown"}
        /\ UNCHANGED <<kind, state, app, over>>
    BY <1>2 DEF ControlSSLReading, Runs, histVars
  <2>3. state # "DO_HANDSHAKE"
    BY <1>2, <2>2, Shaking DEF ControlSSLReading, Runs, HandshakeItems
  <2> QED
    BY <2>1, <2>2, <2>3, FixedPlain, Calm
<1>3. CASE ControlAppWriting
  <2>1. PICK t \in {<<"pause_writing">>, <<"resume_writing">>, <<>>} : Then(t)
    BY <1>3, Controlled
  <2>2. /\ todo # <<>> /\ Head(todo) \notin {"do_read", "start_shutdown"}
        /\ UNCHANGED <<kind, state, app, over>>
    BY <1>3 DEF ControlAppWriting, Runs, histVars
  <2>3. state # "DO_HANDSHAKE"
    BY <1>3, <2>2, Shaking DEF ControlAppWriting, Runs, HandshakeItems
  <2> QED
    BY <2>1, <2>2, <2>3, FixedPlain, Calm
<1>4. CASE ResumedWriting
  <2>1. PICK t \in {<<>>, <<"control_app_writing">>} : t = <<"control_app_writing">> /\ Then(t)
    BY <1>4 DEF ResumedWriting
  <2>2. /\ todo # <<>> /\ Head(todo) \notin {"do_read", "start_shutdown"}
        /\ UNCHANGED <<kind, state, app, over>>
    BY <1>4 DEF ResumedWriting, Runs, histVars
  <2>3. state # "DO_HANDSHAKE"
    BY <1>4, <2>2, Shaking DEF ResumedWriting, Runs, HandshakeItems
  <2> QED
    BY <2>1, <2>2, <2>3, FixedPlain, Calm
<1>5. CASE Unwrap
  <2>1. PICK t \in {<<"shutdown_complete">>, <<>>} : Then(t)
    BY <1>5 DEF Unwrap
  <2>2. /\ todo # <<>> /\ Head(todo) \notin {"do_read", "start_shutdown"}
        /\ UNCHANGED <<kind, state, app, over>>
    BY <1>5 DEF Unwrap, Runs, histVars
  <2>3. state # "DO_HANDSHAKE"
    BY <1>5, <2>2, Shaking DEF Unwrap, Runs, HandshakeItems
  <2> QED
    BY <2>1, <2>2, <2>3, FixedPlain, Calm
<1>6. CASE ShutdownComplete
  <2>1. PICK t \in {<<>>} : t = <<>> /\ Then(t)
    BY <1>6 DEF ShutdownComplete
  <2>2. /\ todo # <<>> /\ Head(todo) \notin {"do_read", "start_shutdown"}
        /\ UNCHANGED <<kind, state, app, over>>
    BY <1>6 DEF ShutdownComplete, Runs, histVars
  <2>3. state # "DO_HANDSHAKE"
    BY <1>6, <2>2, Shaking DEF ShutdownComplete, Runs, HandshakeItems
  <2> QED
    BY <2>1, <2>2, <2>3, FixedPlain, Calm
<1>7. CASE WakeupWaiter
  <2>1. PICK t \in {<<>>} : t = <<>> /\ Then(t)
    BY <1>7 DEF WakeupWaiter
  <2>2. /\ todo # <<>> /\ Head(todo) \notin {"do_read", "start_shutdown"}
        /\ UNCHANGED <<kind, state, app, over>>
    BY <1>7 DEF WakeupWaiter, Runs, histVars
  <2>3. state # "DO_HANDSHAKE"
    BY <1>7, <2>2, Shaking DEF WakeupWaiter, Runs, HandshakeItems
  <2> QED
    BY <2>1, <2>2, <2>3, FixedPlain, Calm
<1>8. CASE Returns
  <2>1. PICK t \in {<<>>} : t = <<>> /\ Then(t)
    BY <1>8 DEF Returns
  <2>2. /\ todo # <<>> /\ Head(todo) \notin {"do_read", "start_shutdown"}
        /\ UNCHANGED <<kind, state, app, over>>
    BY <1>8 DEF Returns, Runs, histVars
  <2>3. state = "DO_HANDSHAKE" => t = <<>> /\ waiter' # "ok"
    BY <1>8, <2>1 DEF Returns, HandshakeInv
  <2> QED
    BY <2>1, <2>2, <2>3, FixedPlain, Calm
<1>9. CASE Written
  <2>1. PICK t \in {<<>>} : t = <<>> /\ Then(t)
    BY <1>9 DEF Written
  <2>2. /\ todo # <<>> /\ Head(todo) \notin {"do_read", "start_shutdown"}
        /\ UNCHANGED <<kind, state, app, over>>
    BY <1>9 DEF Written, Runs, histVars
  <2>3. state = "DO_HANDSHAKE" => t = <<>> /\ waiter' # "ok"
    BY <1>9, <2>1 DEF Written, HandshakeInv
  <2> QED
    BY <2>1, <2>2, <2>3, FixedPlain, Calm
<1>10. CASE UserReturns
  <2>1. PICK t \in {<<>>} : t = <<>> /\ Then(t)
    BY <1>10 DEF UserReturns
  <2>2. /\ todo # <<>> /\ Head(todo) \notin {"do_read", "start_shutdown"}
        /\ UNCHANGED <<kind, state, app, over>>
    BY <1>10 DEF UserReturns, Runs, histVars, Idle, Callbacks
  <2>3. state # "DO_HANDSHAKE"
    BY <1>10, <2>2, Shaking DEF UserReturns, Runs, HandshakeItems, Idle,
       Callbacks
  <2> QED
    BY <2>1, <2>2, <2>3, FixedPlain, Calm
<1>11. CASE HandshakeAgain
  <2>1. PICK t \in {<<>>} : t = <<>> /\ Then(t)
    BY <1>11 DEF HandshakeAgain
  <2>2. /\ todo # <<>> /\ Head(todo) \notin {"do_read", "start_shutdown"}
        /\ UNCHANGED <<kind, state, app, over>>
    BY <1>11 DEF HandshakeAgain, Runs, histVars
  <2>3. state = "DO_HANDSHAKE" => t = <<>> /\ waiter' # "ok"
    BY <1>11, <2>1 DEF HandshakeAgain, HandshakeInv
  <2> QED
    BY <2>1, <2>2, <2>3, FixedPlain, Calm
<1> QED
  BY <1>1, <1>2, <1>3, <1>4, <1>5, <1>6, <1>7, <1>8, <1>9, <1>10, <1>11

\* Methods that leave WRAPPED, or run outside of it.
LEMMA OrderOfShutdown ==
    ASSUME TypeOK, HandshakeInv, WrappedInv,
           \/ OnHandshakeFailed \/ ReadFails \/ VoidFails \/ StartShutdown
           \/ DoFlush \/ DoShutdown \/ EndFlush
    PROVE  HandshakeInv' /\ WrappedInv'
<1>1. \A t \in {<<>>, <<"do_flush">>, <<"do_shutdown">>} :
        t \in Seq(Items) /\ \A i \in 1..Len(t) : t[i] \notin HandshakeItems
  <2>1. \A i \in 1..Len(<<>>) : FALSE
    OBVIOUS
  <2>2. ASSUME NEW x \in {"do_flush", "do_shutdown"}
        PROVE  <<x>> \in Seq(Items) /\ \A i \in 1..Len(<<x>>) : <<x>>[i] = x
    BY Fixed
  <2>3. {"do_flush", "do_shutdown"} \cap HandshakeItems = {}
    BY DEF HandshakeItems
  <2> QED
    BY <2>1, <2>2, <2>3, Fixed
<1>2. ASSUME todo # <<>>, Head(todo) \in {"do_flush", "do_shutdown", "flushed"}
      PROVE  state \in {"FLUSHING", "SHUTDOWN", "UNWRAPPED"}
  <2>1. state # "DO_HANDSHAKE"
    BY <1>2, Shaking DEF HandshakeItems
  <2>2. todo \in Seq(Items)
    BY DEF TypeOK, Controls
  <2>3. 1 \in 1..Len(todo) /\ todo[1] = Head(todo)
    BY <2>2, <1>2
  <2>4. state # "WRAPPED"
    BY <1>2, <2>3 DEF WrappedInv, Ordered
  <2> QED
    BY <2>1, <2>4 DEF TypeOK, Controls
<1>3. CASE OnHandshakeFailed \/ ReadFails
  <2>1. todo # <<>> /\ Then(<<>>) /\ state' = "UNWRAPPED"
    BY <1>3 DEF OnHandshakeFailed, ReadFails, Reading, Runs, Abort
  <2> QED
    BY <2>1, <1>1, NotWrapped
<1>4. CASE VoidFails
  <2>1. todo # <<>> /\ Then(<<>>) /\ state' = "UNWRAPPED"
    BY <1>4 DEF VoidFails, Runs, Abort
  <2> QED
    BY <2>1, <1>1, NotWrapped
<1>5. CASE StartShutdown
  <2>1. /\ todo # <<>> /\ \E t \in {<<>>, <<"do_flush">>} : Then(t)
        /\ state' \in {"FLUSHING", "SHUTDOWN", "UNWRAPPED"}
    BY <1>5 DEF StartShutdown, Runs, Abort
  <2> QED
    BY <2>1, <1>1, NotWrapped
<1>6. ASSUME NEW more \in {<<"flush_write", "flushed">>, <<"unwrap">>},
             IntoVoid(more), todo # <<>>,
             Head(todo) \in {"do_flush", "do_shutdown", "flushed"},
             UNCHANGED state
      PROVE  HandshakeInv' /\ WrappedInv'
  <2>1. /\ more \in Seq(Items) /\ \A i \in 1..Len(more) : more[i] \notin HandshakeItems
    <3>1. \A i \in 1..Len(more) : more[i] \in {"flush_write", "flushed", "unwrap"}
      <4>1. CASE more = <<"flush_write", "flushed">>
        BY <4>1
      <4>2. CASE more = <<"unwrap">>
        BY <4>2
      <4> QED
        BY <4>1, <4>2
    <3> QED
      BY <3>1, Fixed DEF HandshakeItems
  <2>2. PICK a \in {<<"call_eof">>, <<>>} : Then(a \o more)
    BY <1>6 DEF IntoVoid
  <2>3. /\ a \o more \in Seq(Items)
        /\ \A i \in 1..Len(a \o more) : (a \o more)[i] \notin HandshakeItems
    <3>1. CASE a = <<>>
      <4>1. a \o more = more
        BY <3>1, <2>1
      <4> QED
        BY <4>1, <2>1
    <3>2. CASE a = <<"call_eof">>
      <4>1. <<"call_eof">> \in Seq(Items) /\ more \in Seq(Items)
        BY Fixed, <2>1
      <4>2. /\ a \o more \in Seq(Items) /\ Len(a \o more) = 1 + Len(more)
            /\ (a \o more)[1] = "call_eof" /\ Len(more) \in Nat
            /\ \A i \in 2..1 + Len(more) : (a \o more)[i] = more[i - 1]
        BY <3>2, <4>1
      <4>3. \A i \in 1..1 + Len(more) : i = 1 \/ i \in 2..1 + Len(more)
        BY <4>2
      <4>4. \A i \in 2..1 + Len(more) : i - 1 \in 1..Len(more)
        BY <4>2
      <4>5. "call_eof" \notin HandshakeItems
        BY DEF HandshakeItems
      <4> QED
        BY <4>2, <4>3, <4>4, <4>5, <2>1
    <3> QED
      BY <3>1, <3>2
  <2>4. state' \notin {"DO_HANDSHAKE", "WRAPPED"}
    BY <1>2, <1>6
  <2> QED
    BY <1>6, <2>2, <2>3, <2>4, NotWrapped
<1>7. CASE DoFlush \/ DoShutdown
  BY <1>6, <1>7 DEF DoFlush, DoShutdown, Runs
<1>8. CASE EndFlush
  <2>1. todo # <<>> /\ Head(todo) = "flushed"
    BY <1>8 DEF EndFlush, Runs
  <2>2. state \in {"FLUSHING", "SHUTDOWN", "UNWRAPPED"}
    BY <1>2, <2>1
  <2>3. CASE Then(<<>>) /\ UNCHANGED <<state, tr>>
    BY <2>1, <2>2, <2>3, <1>1, NotWrapped
  <2>4. CASE state' = "SHUTDOWN" /\ Then(<<"do_shutdown">>)
    BY <2>1, <2>2, <2>4, <1>1, NotWrapped
  <2>5. CASE Raise(Tail(todo))
    BY <1>8, <2>1, <2>2, <2>5, RaisedInOrder DEF EndFlush, histVars
  <2> QED
    BY <1>8, <2>3, <2>4, <2>5 DEF EndFlush
<1> QED
  BY <1>3, <1>4, <1>5, <1>7, <1>8

\* What leaves the stack alone.
LEMMA OrderOfOthers ==
    ASSUME TypeOK, HandshakeInv, WrappedInv,
           \/ UserAborts \/ PauseReading \/ ResumeReading \/ CancelWait
           \/ HandshakeTimeout \/ ShutdownTimeout \/ TransportFails \/ RunLost
           \/ ConnectionLost \/ \E l \in ReadLimits : SetReadLimits(l)
    PROVE  HandshakeInv' /\ WrappedInv'
<1>1. CASE UserAborts
  <2>1. state # "DO_HANDSHAKE"
    BY <1>1 DEF UserAborts, UserRuns, HasTransport, HandshakeInv
  <2> QED
    BY <1>1, <2>1 DEF UserAborts, Abort, HandshakeInv, WrappedInv
<1>2. ASSUME UNCHANGED <<kind, app, todo, over>>, waiter' # "ok" \/ UNCHANGED waiter,
             UNCHANGED state
      PROVE  HandshakeInv' /\ WrappedInv'
  BY <1>2 DEF HandshakeInv, WrappedInv, Runs
<1>3. CASE PauseReading \/ ResumeReading \/ CancelWait
  BY <1>2, <1>3 DEF PauseReading, ResumeReading, CancelWait, histVars
<1>4. CASE ShutdownTimeout \/ TransportFails \/ RunLost
  BY <1>2, <1>4 DEF ShutdownTimeout, TransportFails, RunLost, histVars
<1>5. CASE HandshakeTimeout
  <2>1. CASE UNCHANGED state
    BY <1>2, <1>5, <2>1 DEF HandshakeTimeout, histVars
  <2>2. CASE state' = "UNWRAPPED"
    <3>1. todo' = <<>>
      BY <1>5 DEF HandshakeTimeout, Idle
    <3> QED
      BY <2>2, <3>1 DEF HandshakeInv, WrappedInv
  <2> QED
    BY <1>5, <2>1, <2>2 DEF HandshakeTimeout, Abort
<1>6. CASE ConnectionLost
  <2>1. todo' = <<>> /\ state' = "UNWRAPPED"
    BY <1>6 DEF ConnectionLost, Idle
  <2> QED
    BY <2>1 DEF HandshakeInv, WrappedInv
<1>7. ASSUME NEW l \in ReadLimits, SetReadLimits(l)
      PROVE  HandshakeInv' /\ WrappedInv'
  BY <1>2, <1>7 DEF SetReadLimits, histVars
<1> QED
  BY <1>1, <1>3, <1>4, <1>5, <1>6, <1>7

\* Two items.
LEMMA Two ==
    ASSUME NEW x \in Items, NEW y \in Items
    PROVE  <<x>> \o <<y>> = <<x, y>>
<1> DEFINE n == <<x>> \o <<y>>
           m == <<x, y>>
<1>1. m \in Seq(Items) /\ Len(m) = 2 /\ m[1] = x /\ m[2] = y
  OBVIOUS
<1>2. /\ <<x>> \in Seq(Items) /\ <<y>> \in Seq(Items)
      /\ Len(<<x>>) = 1 /\ Len(<<y>>) = 1 /\ <<x>>[1] = x /\ <<y>>[1] = y
  OBVIOUS
<1>3. n \in Seq(Items) /\ Len(n) = 2 /\ n[1] = x /\ n[2] = y
  BY <1>2
<1> HIDE DEF n, m
<1>4. \A i \in 1..2 : n[i] = m[i]
  BY <1>1, <1>3
<1>5. n = m
  BY <1>1, <1>3, <1>4
<1> QED
  BY <1>5 DEF n, m

\* What begins with an empty stack.
LEMMA OrderOfLoop ==
    ASSUME TypeOK, HandshakeInv, WrappedInv,
           \/ CancelledCloses \/ EofReceived \/ Drain \/ RunDoRead
           \/ \E s \in Chunks : BufferUpdated(s)
    PROVE  HandshakeInv' /\ WrappedInv'
<1> todo = <<>>
  BY DEF CancelledCloses, EofReceived, Drain, RunDoRead, BufferUpdated, Idle
<1>1. /\ state = "DO_HANDSHAKE" => ~over
      /\ state = "WRAPPED" => app = "made" /\ ~over
  <2>1. <<>> # <<"start_shutdown">>
    OBVIOUS
  <2>2. ~Ending(<<>>)
    BY DEF Ending
  <2> QED
    BY <2>1, <2>2 DEF HandshakeInv, WrappedInv, Runs
<1>2. \A x, y :
        /\ \A i \in 1..Len(<<x>>) : i = 1 /\ <<x>>[i] = x
        /\ \A i \in 1..Len(<<x, y>>) :
             \/ i = 1 /\ <<x, y>>[i] = x
             \/ i = 2 /\ <<x, y>>[i] = y
        /\ Len(<<x, y>>) = 2 /\ <<x>> # <<>> /\ Head(<<x>>) = x
  OBVIOUS
<1>3. {"do_handshake", "do_read", "do_flush", "do_shutdown", "resumed",
       "written", "returns"} \subseteq Items
  BY DEF Items, HandshakeItems
<1>4. CASE CancelledCloses
  <2>1. /\ todo' = <<"start_shutdown">> /\ waiter' = "over"
        /\ UNCHANGED <<kind, state, app>>
    BY <1>4 DEF CancelledCloses
  <2>2. todo' \in Starting /\ Runs("start_shutdown")'
    BY <2>1, <1>2 DEF Starting, Runs
  <2>3. Ordered(todo') /\ \A i \in 1..Len(todo') : todo'[i] \notin HandshakeItems
    BY <2>1, <1>2 DEF Ordered, HandshakeItems
  <2> QED
    BY <2>1, <2>2, <2>3, <1>1 DEF HandshakeInv, WrappedInv
<1>5. CASE EofReceived
  <2>1. CASE state = "DO_HANDSHAKE"
    <3>1. /\ todo' = <<"handshake_failed", "returns">>
          /\ UNCHANGED <<kind, state, app, waiter, over>>
      BY <1>5, <2>1 DEF EofReceived
    <3>2. todo' \in Starting
      BY <3>1 DEF Starting, HandshakeItems
    <3> QED
      BY <2>1, <3>1, <3>2, <1>1 DEF HandshakeInv, WrappedInv
  <2>2. CASE state # "DO_HANDSHAKE"
    <3>1. todo' = <<>> /\ state' = "SHUTDOWN"
      BY <1>5, <2>2 DEF EofReceived
    <3> QED
      BY <3>1 DEF HandshakeInv, WrappedInv
  <2> QED
    BY <2>1, <2>2
<1>6. CASE RunDoRead
  <2>1. todo' = <<"do_read">> /\ UNCHANGED <<kind, state, app, waiter, over>>
    BY <1>6 DEF RunDoRead, histVars
  <2>2. todo' \in Starting /\ Ordered(todo')
        /\ \A i \in 1..Len(todo') : todo'[i] \notin HandshakeItems
    <3>1. \A j \in 2..Len(<<"do_read">>) : FALSE
      OBVIOUS
    <3> QED
      BY <3>1, <2>1, <1>2 DEF Starting, Ordered, HandshakeItems
  <2> QED
    BY <2>1, <2>2, <1>1 DEF HandshakeInv, WrappedInv
<1>7. CASE Drain
  <2>1. UNCHANGED <<kind, state, app, waiter, over>>
    BY <1>7 DEF Drain, histVars
  <2>2. CASE todo' = <<>> \o <<"written">>
    <3>1. todo' = <<"written">>
      BY <2>2
    <3>2. todo' \in Starting /\ Ordered(todo')
          /\ \A i \in 1..Len(todo') : todo'[i] \notin HandshakeItems
      BY <3>1, <1>2 DEF Starting, Ordered, HandshakeItems
    <3> QED
      BY <2>1, <3>2, <1>1 DEF HandshakeInv, WrappedInv
  <2>3. CASE state = "WRAPPED" /\ todo' = <<"resumed">> \o <<"written">>
    <3>1. todo' = <<"resumed", "written">>
      BY <2>3, <1>3, Two
    <3>2. Ordered(todo')
          /\ \A i \in 1..Len(todo') : todo'[i] \notin HandshakeItems
      BY <3>1, <1>2 DEF Ordered, HandshakeItems
    <3> QED
      BY <2>1, <2>3, <3>2, <1>1 DEF HandshakeInv, WrappedInv
  <2>4. ASSUME NEW x \in {"do_flush", "do_shutdown"},
               state \notin {"WRAPPED", "DO_HANDSHAKE"},
               todo' = <<x>> \o <<"written">>
        PROVE  HandshakeInv' /\ WrappedInv'
    <3>1. todo' = <<x, "written">>
      BY <2>4, <1>3, Two
    <3>2. \A i \in 1..Len(todo') : todo'[i] \notin HandshakeItems
      BY <3>1, <1>2 DEF HandshakeItems
    <3> QED
      BY <2>1, <2>4, <3>2 DEF HandshakeInv, WrappedInv
  <2> QED
    BY <1>7, <2>2, <2>3, <2>4 DEF Drain
<1>8. ASSUME NEW s \in Chunks, BufferUpdated(s)
      PROVE  HandshakeInv' /\ WrappedInv'
  <2>1. UNCHANGED <<kind, state, app, waiter, over>>
    BY <1>8 DEF BufferUpdated, histVars
  <2>2. CASE state = "DO_HANDSHAKE"
    <3>1. todo' = <<"do_handshake">> \o <<"returns">>
      BY <1>8, <2>2 DEF BufferUpdated
    <3>2. todo' = <<"do_handshake", "returns">>
      BY <3>1, <1>3, Two
    <3>3. todo' \in Starting
      BY <3>2 DEF Starting, HandshakeItems
    <3> QED
      BY <2>1, <2>2, <3>3, <1>1 DEF HandshakeInv, WrappedInv
  <2>3. CASE state = "WRAPPED"
    <3>1. todo' = <<"do_read">> \o <<"returns">>
      BY <1>8, <2>3 DEF BufferUpdated
    <3>2. todo' = <<"do_read", "returns">>
      BY <3>1, <1>3, Two
    <3>3. \A j \in 2..Len(todo') : todo'[j] = "returns"
      BY <3>2
    <3>4. Ordered(todo')
          /\ \A i \in 1..Len(todo') : todo'[i] \notin HandshakeItems
      BY <3>2, <3>3, <1>2 DEF Ordered, HandshakeItems
    <3> QED
      BY <2>1, <2>3, <3>4, <1>1 DEF HandshakeInv, WrappedInv
  <2>4. CASE state \notin {"DO_HANDSHAKE", "WRAPPED"}
    <3>1. \E t \in {<<>>, <<"do_flush">>, <<"do_shutdown">>} :
            todo' = t \o <<"returns">>
      BY <1>8, <2>4 DEF BufferUpdated
    <3>2. todo' \in {<<"returns">>, <<"do_flush", "returns">>,
                     <<"do_shutdown", "returns">>}
      <4>1. <<>> \o <<"returns">> = <<"returns">>
        OBVIOUS
      <4> QED
        BY <3>1, <4>1, <1>3, Two
    <3>3. \A i \in 1..Len(todo') : todo'[i] \notin HandshakeItems
      BY <3>2, <1>2 DEF HandshakeItems
    <3> QED
      BY <2>1, <2>4, <3>3 DEF HandshakeInv, WrappedInv
  <2> QED
    BY <2>2, <2>3, <2>4
<1> QED
  BY <1>4, <1>5, <1>6, <1>7, <1>8

\* What the application calls.
LEMMA OrderOfUser ==
    ASSUME TypeOK, HandshakeInv, WrappedInv,
           WriteData \/ Close \/ \E l \in WriteLimits : SetWriteLimits(l)
    PROVE  HandshakeInv' /\ WrappedInv'
<1>1. CASE WriteData
  <2>1. /\ UserRuns /\ todo' = <<"control_app_writing">> \o todo
        /\ UNCHANGED <<kind, state, app, waiter, over>>
    BY <1>1 DEF WriteData
  <2> QED
    BY <2>1, CalledInOrder
<1>2. CASE Close
  <2>1. /\ UserRuns /\ todo' = <<"start_shutdown">> \o todo
        /\ UNCHANGED <<kind, state, app, waiter>>
    BY <1>2 DEF Close
  <2> QED
    BY <2>1, CalledInOrder
<1>3. ASSUME NEW l \in WriteLimits, SetWriteLimits(l)
      PROVE  HandshakeInv' /\ WrappedInv'
  <2>1. /\ UserRuns /\ todo' = <<"control_app_writing">> \o todo
        /\ UNCHANGED <<kind, state, app, waiter, over>>
    BY <1>3 DEF SetWriteLimits, histVars
  <2> QED
    BY <2>1, CalledInOrder
<1> QED
  BY <1>1, <1>2, <1>3

\* The handshake, which nothing interrupts.
LEMMA OrderOfHandshake ==
    ASSUME TypeOK, HandshakeInv,
           HandshakeDone \/ HandshakeFails \/ OnHandshakeComplete
    PROVE  HandshakeInv' /\ WrappedInv'
<1>1. PICK x \in HandshakeItems : Head(todo) = x /\ todo # <<>>
  BY DEF HandshakeDone, HandshakeFails, OnHandshakeComplete, Runs,
     HandshakeItems
<1>2. state = "DO_HANDSHAKE"
  <2>1. 1 \in 1..Len(todo) /\ todo[1] = x
    <3>1. todo \in Seq(Items)
      BY DEF TypeOK, Controls
    <3> QED
      BY <3>1, <1>1
  <2> QED
    BY <2>1, <1>1 DEF HandshakeInv
<1>3. /\ Tail(todo) = <<"returns">> /\ waiter # "ok" /\ ~over
      /\ app = IF kind = "upgrade" THEN "made" ELSE "init"
  <2>1. todo = <<x, "returns">> /\ Tail(todo) = <<"returns">>
    BY <1>1, <1>2, AtStart DEF HandshakeInv, HandshakeItems
  <2>2. todo # <<"start_shutdown">>
    BY <1>1 DEF HandshakeItems
  <2> QED
    BY <2>1, <2>2, <1>2 DEF HandshakeInv, TypeOK, Flags
<1>4. {"on_handshake_complete", "handshake_failed", "connection_made",
       "wakeup_waiter", "returns"} \subseteq Items
  BY DEF Items, HandshakeItems, Callbacks
<1>5. CASE HandshakeDone \/ HandshakeFails
  <2>1. PICK y \in {"on_handshake_complete", "handshake_failed"} :
          todo' = <<y>> \o <<"returns">>
    BY <1>3, <1>5 DEF HandshakeDone, HandshakeFails, Then
  <2>2. todo' = <<y, "returns">> /\ y \in HandshakeItems
    BY <2>1, <1>4, Two DEF HandshakeItems
  <2>3. todo' \in Starting
    BY <2>2 DEF Starting
  <2>4. UNCHANGED <<kind, state, app, waiter, over>>
    BY <1>5 DEF HandshakeDone, HandshakeFails, histVars
  <2> QED
    BY <2>3, <2>4, <1>2, <1>3 DEF HandshakeInv, WrappedInv
<1>6. CASE OnHandshakeComplete
  <2>1. state' = "WRAPPED" /\ app' = "made" /\ over' = FALSE
    BY <1>3, <1>6 DEF OnHandshakeComplete, histVars
  <2>2. \E y \in {<<"connection_made", "wakeup_waiter">>, <<"wakeup_waiter">>} :
          todo' = y \o <<"returns">>
    BY <1>3, <1>6 DEF OnHandshakeComplete, Then
  <2>3. {"connection_made", "wakeup_waiter", "returns"} \subseteq Plain
    BY DEF Plain, Items, HandshakeItems, Callbacks
  <2>4. Ordered(<<"returns">>) /\ \A i \in 1..Len(<<"returns">>) :
                                    <<"returns">>[i] = "returns"
    <3>1. \A i \in 1..Len(<<"returns">>) : <<"returns">>[i] = "returns"
      OBVIOUS
    <3> QED
      BY <3>1 DEF Ordered, HandshakeItems
  <2>5. /\ \A i \in 1..Len(todo') :
             todo'[i] \in {"connection_made", "wakeup_waiter", "returns"}
        /\ todo' \in Seq(Items)
    <3>1. PICK y \in {<<"connection_made", "wakeup_waiter">>, <<"wakeup_waiter">>} :
            todo' = y \o <<"returns">>
      BY <2>2
    <3>2. /\ y \in Seq(Items) /\ <<"returns">> \in Seq(Items)
          /\ \A i \in 1..Len(y) : y[i] \in {"connection_made", "wakeup_waiter"}
      <4>1. CASE y = <<"connection_made", "wakeup_waiter">>
        BY <4>1, Fixed
      <4>2. CASE y = <<"wakeup_waiter">>
        BY <4>2, Fixed
      <4> QED
        BY <4>1, <4>2, Fixed
    <3>3. /\ y \o <<"returns">> \in Seq(Items) /\ Len(y \o <<"returns">>) = Len(y) + 1
          /\ Len(y) \in Nat
          /\ \A i \in 1..Len(y) : (y \o <<"returns">>)[i] = y[i]
          /\ (y \o <<"returns">>)[Len(y) + 1] = "returns"
      <4>1. y \in Seq(Items)
        BY <3>2
      <4>2. y \o <<"returns">> = Append(y, "returns")
        BY <4>1
      <4> QED
        BY <4>1, <4>2, <1>4
    <3>4. \A i \in 1..Len(y) + 1 : i \in 1..Len(y) \/ i = Len(y) + 1
      BY <3>3
    <3> QED
      BY <3>1, <3>2, <3>3, <3>4
  <2>6. Ordered(todo') /\ \A i \in 1..Len(todo') : todo'[i] \notin HandshakeItems
    BY <2>5 DEF Ordered, HandshakeItems
  <2> QED
    BY <2>1, <2>6 DEF HandshakeInv, WrappedInv
<1> QED
  BY <1>5, <1>6

\* _do_read()
LEMMA OrderOfReads ==
    ASSUME TypeOK, HandshakeInv, WrappedInv,
           ReadNothing \/ \E n \in 0..Len(incoming) : Read(n)
    PROVE  HandshakeInv' /\ WrappedInv'
<1>1. /\ todo \in Seq(Items) /\ todo # <<>> /\ Head(todo) = "do_read"
      /\ UNCHANGED <<kind, state, app, waiter, over>>
  BY DEF ReadNothing, Read, Reading, Runs, TypeOK, Controls, histVars
<1>2. Len(todo) \in Nat \ {0} /\ todo[1] = "do_read"
  BY <1>1
<1>3. ASSUME state = "WRAPPED"
      PROVE  app = "made" /\ ~over /\ \A j \in 2..Len(todo) : todo[j] = "returns"
  <2>1. \A j \in 2..Len(todo) : todo[j] = "returns"
    BY <1>2, <1>3 DEF WrappedInv, Ordered
  <2>2. ~Ending(todo)
    <3>1. \A i \in 1..Len(todo) : i = 1 \/ i \in 2..Len(todo)
      BY <1>2
    <3> QED
      BY <3>1, <2>1, <1>2 DEF Ending
  <2> QED
    BY <2>1, <2>2, <1>1, <1>3 DEF WrappedInv, Runs
<1>4. ASSUME state = "WRAPPED", NEW t \in Seq(Items), Then(t), Ordered(t),
             \A i \in 1..Len(t) : t[i] # "do_read" /\ t[i] \notin HandshakeItems
      PROVE  HandshakeInv' /\ WrappedInv'
  <2>1. /\ todo' \in Seq(Items) /\ Len(todo') = Len(t) + Len(todo) - 1
        /\ \A i \in 1..Len(t) : todo'[i] = t[i]
        /\ \A i \in Len(t)+1..Len(todo') : todo'[i] = todo[i - Len(t) + 1]
        /\ Len(t) \in Nat
    BY <1>1, <1>4, Pushed DEF Then
  <2>2. \A i \in Len(t)+1..Len(todo') : i - Len(t) + 1 \in 2..Len(todo)
    BY <2>1, <1>2
  <2>3. Ordered(todo')
    <3>1. Len(todo') >= Len(t)
      BY <2>1, <1>2
    <3>2. \A i \in Len(t)+1..Len(todo') : todo'[i] = "returns"
      BY <2>1, <2>2, <1>3, <1>4
    <3>3. \A i \in 1..Len(t) : todo'[i] = t[i]
      BY <2>1
    <3>4. \A i \in 1..Len(t) : t[i] # "do_read"
      BY <1>4
    <3>5. todo' \in Seq(Items) /\ Ordered(t)
      BY <2>1, <1>4
    <3> QED
      BY <3>1, <3>2, <3>3, <3>4, <3>5, Appended, Zenon
  <2>4. \A i \in 1..Len(todo') : todo'[i] \notin HandshakeItems
    BY <2>3 DEF Ordered
  <2> QED
    BY <2>3, <2>4, <1>1, <1>3, <1>4 DEF HandshakeInv, WrappedInv
<1>5. CASE ReadNothing
  <2>1. CASE state = "WRAPPED"
    <3>1. Then(<<"end_read">>)
      BY <1>5, <2>1 DEF ReadNothing, MayRead
    <3>2. /\ <<"end_read">> \in Seq(Items)
          /\ \A i \in 1..Len(<<"end_read">>) : <<"end_read">>[i] = "end_read"
      BY Fixed
    <3>3. Ordered(<<"end_read">>)
      BY <3>2 DEF Ordered, HandshakeItems
    <3>4. "end_read" \notin HandshakeItems
      BY DEF HandshakeItems
    <3> QED
      BY <3>1, <3>2, <3>3, <3>4, <1>4, <2>1
  <2>2. CASE state = "DO_HANDSHAKE"
    <3>1. todo' = <<>> \o Tail(todo) /\ Tail(todo) = <<>>
      BY <1>1, <1>5, <2>2, AtStart DEF ReadNothing, MayRead, Then,
         HandshakeInv, HandshakeItems
    <3>2. todo' = <<>> /\ todo # <<"start_shutdown">>
      <4>1. <<>> \o <<>> = <<>>
        OBVIOUS
      <4> QED
        BY <3>1, <4>1, <1>1
    <3> QED
      BY <3>2, <2>2, <1>1 DEF HandshakeInv, WrappedInv, Starting
  <2>3. CASE state \notin {"WRAPPED", "DO_HANDSHAKE"}
    <3>1. Then(<<>>)
      BY <1>5, <2>3 DEF ReadNothing, MayRead
    <3>2. <<>> \in Seq(Items) /\ \A i \in 1..Len(<<>>) : FALSE
      BY Fixed
    <3> QED
      BY <3>1, <3>2, <2>3, <1>1, NotWrapped
  <2> QED
    BY <2>1, <2>2, <2>3
<1>6. ASSUME NEW n \in 0..Len(incoming), Read(n)
      PROVE  HandshakeInv' /\ WrappedInv'
  <2>1. PICK a \in {<<"data_received">>, <<>>},
             b \in {<<"call_eof", "start_shutdown", "after_read", "end_read">>,
                    <<"after_read", "end_read">>} : Then(a \o b)
    BY <1>6 DEF Read
  <2>2. state = "WRAPPED"
    BY <1>6 DEF Read, Reading, MayRead
  <2> QED
    BY <2>1, <2>2, <1>4, ReadInOrder
<1> QED
  BY <1>5, <1>6

\* _call_eof_received(), whose _start_shutdown() follows it.
LEMMA OrderOfEof ==
    ASSUME TypeOK, HandshakeInv, WrappedInv, CallEof
    PROVE  HandshakeInv' /\ WrappedInv'
<1>1. /\ todo \in Seq(Items) /\ todo # <<>> /\ Head(todo) = "call_eof"
      /\ UNCHANGED <<kind, state, waiter, over>>
  BY DEF CallEof, Runs, TypeOK, Controls, histVars
<1>2. Len(todo) \in Nat \ {0} /\ todo[1] = "call_eof" /\ 1 \in 1..Len(todo)
  BY <1>1
<1>3. PICK t \in {<<"eof_received">>, <<>>} : Then(t)
  BY DEF CallEof
<1>4. /\ t \in Seq(Plain) /\ t \in Seq(Items)
      /\ \A i \in 1..Len(t) : t[i] = "eof_received"
  <2>1. "eof_received" \in Plain /\ "eof_received" \in Items
    BY DEF Plain, Items, HandshakeItems, Callbacks
  <2>2. CASE t = <<>>
    BY <2>2
  <2>3. CASE t = <<"eof_received">>
    BY <2>1, <2>3
  <2> QED
    BY <2>2, <2>3
<1>5. state # "DO_HANDSHAKE"
  BY <1>1, Shaking DEF HandshakeItems
<1>6. "eof_received" \notin HandshakeItems
  BY DEF HandshakeItems
<1>7. HandshakeInv'
  BY <1>1, <1>3, <1>4, <1>5, <1>6, NoHandshake DEF HandshakeInv
<1>8. WrappedInv'
  <2> SUFFICES ASSUME state = "WRAPPED" PROVE WrappedInv'
    BY <1>1 DEF WrappedInv
  <2>1. Ordered(todo) /\ ~over
    BY <1>1 DEF WrappedInv, Runs
  <2>2. /\ 1 < Len(todo) /\ todo[2] = "start_shutdown"
        /\ \A j \in 2..Len(todo) : todo[j] \notin {"data_received", "connection_made"}
    BY <2>1, <1>2 DEF Ordered
  <2>3. Ordered(todo')
    BY <2>1, <1>1, <1>3, <1>4, Continued DEF Then
  <2>4. /\ Len(todo') = Len(t) + Len(todo) - 1 /\ Len(t) \in Nat
        /\ \A i \in 1..Len(t) : todo'[i] = t[i]
        /\ \A i \in Len(t)+1..Len(todo') : todo'[i] = todo[i - Len(t) + 1]
    BY <1>1, <1>3, <1>4, Pushed DEF Then
  <2>5. /\ Len(t) + 1 \in Len(t)+1..Len(todo') /\ Len(t) + 1 \in 1..Len(todo')
        /\ Len(t) + 1 - Len(t) + 1 = 2
    BY <2>2, <2>4, <1>2
  <2>6. ASSUME NEW i \in 1..Len(todo')
        PROVE  todo'[i] \notin {"data_received", "connection_made"}
    <3>1. CASE i <= Len(t)
      BY <3>1, <2>4, <1>4
    <3>2. CASE i > Len(t)
      <4>1. i - Len(t) + 1 \in 2..Len(todo) /\ i \in Len(t)+1..Len(todo')
        BY <3>2, <2>4, <1>2
      <4> QED
        BY <4>1, <2>2, <2>4
    <3> QED
      BY <3>1, <3>2, <2>4
  <2>7. Ending(todo')
    BY <2>2, <2>4, <2>5, <2>6 DEF Ending
  <2> QED
    BY <2>1, <2>3, <2>7, <1>1 DEF WrappedInv
<1> QED
  BY <1>7, <1>8

\* A callback raises.
LEMMA OrderOfRaises ==
    ASSUME TypeOK, HandshakeInv, WrappedInv, UserRaises
    PROVE  HandshakeInv' /\ WrappedInv'
<1>1. /\ todo # <<>> /\ Head(todo) \in {"data_received", "connection_made", "eof_received"}
      /\ UNCHANGED <<kind, app, waiter, over>>
  BY DEF UserRaises, Runs, histVars
<1>2. state # "DO_HANDSHAKE"
  BY <1>1, Shaking DEF HandshakeItems
<1>3. CASE Abort /\ Then(<<>>)
  <2>1. <<>> \in Seq(Items) /\ \A i \in 1..Len(<<>>) : FALSE
    BY Fixed
  <2> QED
    BY <2>1, <1>1, <1>3, NotWrapped DEF Abort
<1>4. CASE Raise(Tail(todo)) /\ ~Runs("eof_received")
  BY <1>1, <1>2, <1>4, RaisedInOrder DEF Runs
<1> QED
  BY <1>3, <1>4 DEF UserRaises

\* Every step keeps the stack in order.
LEMMA OrderStep ==
    ASSUME TypeOK, HandshakeInv, WrappedInv, [Next]_vars
    PROVE  HandshakeInv' /\ WrappedInv'
<1>1. CASE UNCHANGED vars
  BY <1>1 DEF vars, HandshakeInv, WrappedInv, Runs, histVars
<1>2. CASE Next
  BY <1>2, OrderOfCalm, OrderOfShutdown, OrderOfOthers, OrderOfLoop,
     OrderOfUser, OrderOfHandshake, OrderOfReads, OrderOfEof,
     OrderOfRaises DEF Next, Code, User
<1> QED
  BY <1>1, <1>2

-----------------------------------------------------------------------------
(* The loss of the connection, and the timeouts *)

\* When the transport is gone, the stack is one of Afterwards.
LEMMA EndStep ==
    ASSUME TypeOK, HandshakeInv, WrappedInv, GoneInv, Next
    PROVE  GoneInv'
<1>1. ASSUME UNCHANGED <<app, lostDue, lostCalls>>, tr' = "gone" => tr = "gone",
             tr = "gone" => tr' = "gone" /\ state' = state
                            /\ waiter' # "waiting" /\ todo' \in Afterwards
      PROVE  GoneInv'
  BY <1>1 DEF GoneInv
<1>2. ASSUME UNCHANGED <<lostDue, lostCalls>>, tr # "gone", tr' # "gone",
             app' # "lost" \/ app' = app
      PROVE  GoneInv'
  BY <1>2 DEF GoneInv
<1>3. /\ <<>> \in Afterwards /\ <<"do_read">> \in Afterwards
      /\ <<"start_shutdown">> \in Afterwards
      /\ <<"control_app_writing">> \in Afterwards
  BY DEF Afterwards
<1>4. Then(<<>>) => todo' = Tail(todo) \/ todo = <<>>
  <2>1. todo \in Seq(Items)
    BY DEF TypeOK, Controls
  <2>2. todo # <<>> => <<>> \o Tail(todo) = Tail(todo)
    BY <2>1
  <2> QED
    BY <2>2 DEF Then
<1>5. CASE HandshakeAgain \/ HandshakeDone \/ HandshakeFails
           \/ OnHandshakeComplete \/ WakeupWaiter \/ OnHandshakeFailed
  <2>1. tr # "gone"
    BY <1>5, Quiet DEF HandshakeAgain, HandshakeDone, HandshakeFails,
       OnHandshakeComplete, WakeupWaiter, OnHandshakeFailed, Runs
  <2>2. tr' # "gone"
    BY <1>5, <2>1 DEF HandshakeAgain, HandshakeDone, HandshakeFails,
       OnHandshakeComplete, WakeupWaiter, OnHandshakeFailed, trVars, Abort,
       Forced
  <2>3. UNCHANGED <<lostDue, lostCalls>> /\ (app' # "lost" \/ app' = app)
    BY <1>5 DEF HandshakeAgain, HandshakeDone, HandshakeFails,
       OnHandshakeComplete, WakeupWaiter, OnHandshakeFailed, loopVars, histVars
  <2> QED
    BY <2>1, <2>2, <2>3, <1>2
<1>6. CASE WriteOut \/ ControlSSLReading \/ CallEof \/ ResumedWriting
           \/ DoFlush \/ DoShutdown \/ VoidFails
  <2>1. tr # "gone"
    BY <1>6, Quiet DEF WriteOut, ControlSSLReading, CallEof, ResumedWriting,
       DoFlush, DoShutdown, VoidFails, Runs
  <2>2. tr' # "gone"
    BY <1>6, <2>1 DEF WriteOut, ControlSSLReading, CallEof, ResumedWriting,
       DoFlush, DoShutdown, VoidFails, trVars, Abort, Forced
  <2>3. UNCHANGED <<lostDue, lostCalls>> /\ (app' # "lost" \/ app' = app)
    BY <1>6 DEF WriteOut, ControlSSLReading, CallEof, ResumedWriting, DoFlush,
       DoShutdown, VoidFails, loopVars, histVars
  <2> QED
    BY <2>1, <2>2, <2>3, <1>2
<1>7. CASE Unwrap \/ ShutdownComplete \/ Returns \/ Written
  <2>1. tr # "gone"
    BY <1>7, Quiet DEF Unwrap, ShutdownComplete, Returns, Written, Runs
  <2>2. tr' # "gone"
    BY <1>7, <2>1 DEF Unwrap, ShutdownComplete, Returns, Written, trVars, Closed
  <2>3. UNCHANGED <<app, lostDue, lostCalls>>
    BY <1>7 DEF Unwrap, ShutdownComplete, Returns, Written, loopVars, histVars
  <2> QED
    BY <2>1, <2>2, <2>3, <1>2
<1>8. CASE EndFlush \/ UserRaises
  <2>1. tr # "gone" /\ todo # <<>>
    BY <1>8, Quiet DEF EndFlush, UserRaises, Runs
  <2>2. tr' # "gone"
    <3>1. CASE Raise(Tail(todo))
      BY <2>1, <3>1, Raised DEF Forced
    <3>2. CASE Abort
      BY <2>1, <3>2 DEF Abort, Forced
    <3>3. CASE UNCHANGED tr
      BY <2>1, <3>3
    <3> QED
      BY <1>8, <3>1, <3>2, <3>3 DEF EndFlush, UserRaises
  <2>3. UNCHANGED <<app, lostDue, lostCalls>>
    BY <1>8 DEF EndFlush, UserRaises, loopVars, histVars
  <2> QED
    BY <2>1, <2>2, <2>3, <1>2
<1>9. CASE ReadFails \/ \E n \in 0..Len(incoming) : Read(n)
  <2>1. tr # "gone"
    BY <1>9 DEF ReadFails, Read, Reading, MayRead, GoneInv
  <2>2. tr' # "gone" /\ UNCHANGED <<app, lostDue, lostCalls>>
    BY <1>9, <2>1 DEF ReadFails, Read, Abort, Forced, trVars, loopVars, histVars
  <2> QED
    BY <2>1, <2>2, <1>2
<1>10. CASE ReadNothing
  <2>1. /\ todo # <<>> /\ UNCHANGED <<app, lostDue, lostCalls, tr, state, waiter>>
        /\ state # "WRAPPED" => Then(<<>>)
    BY <1>10 DEF ReadNothing, Runs, MayRead, trVars, loopVars, histVars
  <2>2. tr = "gone" => waiter' # "waiting" /\ todo' \in Afterwards
    BY <2>1, <1>3, <1>4, AtEnd DEF GoneInv
  <2> QED
    BY <2>1, <2>2, <1>1
<1>11. CASE ControlAppWriting
  <2>1. /\ todo # <<>> /\ UNCHANGED <<app, lostDue, lostCalls, tr, state, waiter>>
        /\ tr = "gone" => Then(<<>>)
    BY <1>11, Controlled DEF ControlAppWriting, trVars, loopVars, histVars
  <2>2. tr = "gone" => waiter' # "waiting" /\ todo' \in Afterwards
    BY <2>1, <1>3, <1>4, AtEnd DEF GoneInv
  <2> QED
    BY <2>1, <2>2, <1>1
<1>12. CASE StartShutdown
  <2>1. /\ todo # <<>> /\ UNCHANGED <<app, lostDue, lostCalls, waiter>>
        /\ state = "UNWRAPPED" => Then(<<>>) /\ UNCHANGED <<tr, state>>
        /\ tr' \in {tr, Forced}
    BY <1>12 DEF StartShutdown, Runs, Abort, loopVars, histVars
  <2>2. tr = "gone" => waiter' # "waiting" /\ todo' \in Afterwards
    BY <2>1, <1>3, <1>4, AtEnd DEF GoneInv
  <2> QED
    BY <2>1, <2>2, <1>1 DEF Forced, GoneInv
<1>13. CASE UserReturns
  <2>1. /\ todo # <<>> /\ UNCHANGED <<app, lostDue, lostCalls, waiter, tr, state>>
        /\ Then(<<>>)
    BY <1>13 DEF UserReturns, Idle, trVars, loopVars, histVars
  <2>2. tr = "gone" => waiter' # "waiting" /\ todo' \in Afterwards
    BY <2>1, <1>3, <1>4, AtEnd DEF GoneInv
  <2> QED
    BY <2>1, <2>2, <1>1
<1>14. CASE Close
  <2>1. /\ UserRuns /\ UNCHANGED <<app, lostDue, lostCalls, waiter, tr, state>>
        /\ todo' = <<"start_shutdown">> \o todo
    BY <1>14 DEF Close, trVars, loopVars
  <2>2. ASSUME tr = "gone" PROVE waiter' # "waiting" /\ todo' \in Afterwards
    <3>1. todo = <<>>
      BY <2>1, <2>2, AtEnd DEF GoneInv, UserRuns, Idle, Callbacks
    <3>2. todo' = <<"start_shutdown">>
      BY <2>1, <3>1
    <3> QED
      BY <2>1, <2>2, <3>2, <1>3 DEF GoneInv
  <2> QED
    BY <2>1, <2>2, <1>1
<1>15. CASE WriteData
  BY <1>15, <1>2 DEF WriteData, GoneInv, loopVars
<1>16. ASSUME NEW l \in WriteLimits, SetWriteLimits(l) PROVE GoneInv'
  <2>1. /\ UserRuns /\ UNCHANGED <<app, lostDue, lostCalls, waiter, tr, state>>
        /\ todo' = <<"control_app_writing">> \o todo
    BY <1>16 DEF SetWriteLimits, trVars, loopVars, histVars
  <2>2. ASSUME tr = "gone" PROVE waiter' # "waiting" /\ todo' \in Afterwards
    <3>1. todo = <<>>
      BY <2>1, <2>2, AtEnd DEF GoneInv, UserRuns, Idle, Callbacks
    <3>2. todo' = <<"control_app_writing">>
      BY <2>1, <3>1
    <3> QED
      BY <2>1, <2>2, <3>2, <1>3 DEF GoneInv
  <2> QED
    BY <2>1, <2>2, <1>1
<1>17. CASE UserAborts \/ PauseReading \/ ResumeReading
  <2>1. tr # "gone"
    BY <1>17 DEF UserAborts, PauseReading, ResumeReading, GoneInv
  <2> QED
    BY <1>17, <2>1, <1>2 DEF UserAborts, PauseReading, ResumeReading, Abort,
       Forced, trVars, loopVars, histVars
<1>18. ASSUME NEW l \in ReadLimits, SetReadLimits(l) PROVE GoneInv'
  BY <1>18, <1>1 DEF SetReadLimits, GoneInv, trVars, loopVars, histVars
<1>19. CASE CancelWait
  BY <1>19, <1>1 DEF CancelWait, GoneInv, trVars, loopVars, histVars
<1>20. CASE CancelledCloses
  BY <1>20, <1>1, <1>3 DEF CancelledCloses, GoneInv, trVars, loopVars
<1>21. CASE HandshakeTimeout
  <2>1. /\ UNCHANGED <<app, lostDue, lostCalls, waiter, todo>>
        /\ tr' \in {tr, Forced}
        /\ state # "DO_HANDSHAKE" => UNCHANGED state
    BY <1>21 DEF HandshakeTimeout, Abort, histVars
  <2> QED
    BY <2>1, <1>1 DEF Forced, GoneInv
<1>22. CASE ShutdownTimeout
  BY <1>22, <1>1 DEF ShutdownTimeout, Forced, GoneInv, histVars
<1>23. ASSUME NEW s \in Chunks, BufferUpdated(s) PROVE GoneInv'
  BY <1>23, <1>2 DEF BufferUpdated, trVars, loopVars, histVars
<1>24. CASE EofReceived \/ Drain \/ TransportFails
  BY <1>24, <1>2 DEF EofReceived, Drain, TransportFails, Closed, loopVars,
     histVars
<1>25. CASE ConnectionLost
  <2>1. /\ tr = "ending" /\ tr' = "gone" /\ state' = "UNWRAPPED"
        /\ todo' = <<>> /\ UNCHANGED lostCalls
    BY <1>25 DEF ConnectionLost, Idle, histVars
  <2>2. app # "lost" /\ ~lostDue /\ lostCalls = 0 /\ lostCalls \in {0, 1}
    BY <2>1 DEF GoneInv, TypeOK, Data
  <2>3. waiter' # "waiting"
    BY <1>25 DEF ConnectionLost
  <2>4. (app' = "lost" /\ lostDue') \/ UNCHANGED <<app, lostDue>>
    BY <1>25 DEF ConnectionLost
  <2> QED
    BY <2>1, <2>2, <2>3, <2>4, <1>3 DEF GoneInv
<1>26. CASE RunDoRead
  BY <1>26, <1>1, <1>3 DEF RunDoRead, GoneInv, trVars, histVars
<1>27. CASE RunLost
  <2>1. lostDue /\ lostDue' = FALSE /\ lostCalls' = lostCalls + 1 /\ lostCalls = 0
    BY <1>27 DEF RunLost, GoneInv
  <2>2. UNCHANGED <<app, tr, state, waiter, todo>>
    BY <1>27 DEF RunLost, trVars
  <2>3. lostCalls' = 1
    BY <2>1
  <2> QED
    BY <2>1, <2>2, <2>3 DEF GoneInv
<1> QED
  BY <1>5, <1>6, <1>7, <1>8, <1>9, <1>10, <1>11, <1>12, <1>13, <1>14, <1>15,
     <1>16, <1>17, <1>18, <1>19, <1>20, <1>21, <1>22, <1>23, <1>24, <1>25,
     <1>26, <1>27 DEF Next, Code, User

\* Whoever waits for the peer keeps the timeout running.
LEMMA HangStep ==
    ASSUME TypeOK, HandshakeInv, GoneInv, PeerCannotHang, Next
    PROVE  PeerCannotHang'
<1>1. ASSUME UNCHANGED <<kind, state, app, tr, timers, lostDue, lostCalls>>,
             UNCHANGED waiter \/ waiter' # "ok" \/ tr # "gone"
      PROVE  PeerCannotHang'
  BY <1>1 DEF PeerCannotHang
<1>2. ASSUME state' = "UNWRAPPED", tr' = Forced, tr # "gone"
      PROVE  PeerCannotHang'
  BY <1>2 DEF PeerCannotHang, Forced
<1>3. CASE HandshakeAgain \/ HandshakeDone \/ HandshakeFails
  BY <1>1, <1>3 DEF HandshakeAgain, HandshakeDone, HandshakeFails, loopVars,
     histVars, trVars
<1>4. CASE OnHandshakeComplete \/ WakeupWaiter \/ CallEof
  <2>1. tr # "gone" /\ UNCHANGED tr
    BY <1>4, Quiet DEF OnHandshakeComplete, WakeupWaiter, CallEof, Runs, trVars
  <2>2. CASE OnHandshakeComplete
    BY <2>1, <2>2 DEF OnHandshakeComplete, PeerCannotHang
  <2>3. CASE WakeupWaiter
    BY <1>1, <2>1, <2>3 DEF WakeupWaiter, loopVars, histVars
  <2>4. CASE CallEof
    BY <2>1, <2>4 DEF CallEof, PeerCannotHang, loopVars
  <2> QED
    BY <1>4, <2>2, <2>3, <2>4
<1>5. CASE OnHandshakeFailed \/ VoidFails \/ ReadFails
  <2>1. tr # "gone"
    BY <1>5, Quiet DEF OnHandshakeFailed, VoidFails, ReadFails, Reading,
       MayRead, Runs, GoneInv
  <2> QED
    BY <1>2, <1>5, <2>1 DEF OnHandshakeFailed, VoidFails, ReadFails, Abort
<1>6. CASE ReadNothing \/ WriteOut \/ ControlSSLReading \/ ControlAppWriting
  BY <1>1, <1>6 DEF ReadNothing, WriteOut, ControlSSLReading,
     ControlAppWriting, loopVars, histVars, trVars
<1>7. CASE ResumedWriting \/ DoFlush \/ DoShutdown \/ Unwrap \/ Returns
  BY <1>1, <1>7 DEF ResumedWriting, DoFlush, DoShutdown, Unwrap, Returns,
     loopVars, histVars, trVars
<1>8. ASSUME NEW n \in 0..Len(incoming), Read(n) PROVE PeerCannotHang'
  BY <1>1, <1>8 DEF Read, histVars, trVars
<1>9. CASE WriteData \/ Close \/ PauseReading \/ ResumeReading \/ UserReturns
  BY <1>1, <1>9 DEF WriteData, Close, PauseReading, ResumeReading,
     UserReturns, loopVars, histVars, trVars
<1>10. ASSUME NEW l, SetReadLimits(l) \/ SetWriteLimits(l) PROVE PeerCannotHang'
  BY <1>1, <1>10 DEF SetReadLimits, SetWriteLimits, loopVars, histVars, trVars
<1>11. ASSUME NEW s \in Chunks, BufferUpdated(s) PROVE PeerCannotHang'
  BY <1>1, <1>11 DEF BufferUpdated, loopVars, histVars, trVars
<1>12. CASE Drain \/ RunDoRead \/ CancelWait \/ CancelledCloses
  BY <1>1, <1>12 DEF Drain, RunDoRead, CancelWait, CancelledCloses, loopVars,
     histVars, trVars
<1>13. CASE StartShutdown
  <2>1. CASE UNCHANGED <<state, tr, timers>>
    BY <1>1, <1>13, <2>1 DEF StartShutdown, histVars
  <2>2. CASE state = "DO_HANDSHAKE" /\ Abort
    BY <1>2, <2>2 DEF Abort, GoneInv
  <2>3. CASE state = "WRAPPED" /\ state' = "FLUSHING" /\ UNCHANGED tr
             /\ timers' = timers \union ShutdownTimer
    BY <2>3 DEF ShutdownTimer, GoneInv, PeerCannotHang
  <2> QED
    BY <1>13, <2>1, <2>2, <2>3 DEF StartShutdown
<1>14. CASE EndFlush \/ UserRaises
  <2>1. /\ tr # "gone" /\ todo # <<>>
        /\ UNCHANGED <<kind, app, waiter, timers, lostDue, lostCalls>>
    BY <1>14, Quiet DEF EndFlush, UserRaises, Runs, loopVars, histVars
  <2>2. CASE Raise(Tail(todo))
    <3>1. state' \in {state, "UNWRAPPED"} /\ tr' \in {tr, Forced}
          /\ (state' # state => tr' = Forced)
      BY <2>1, <2>2, Raised
    <3> QED
      BY <2>1, <3>1 DEF PeerCannotHang, Forced
  <2>3. CASE Abort
    BY <1>2, <2>1, <2>3 DEF Abort
  <2>4. CASE UNCHANGED <<state, tr>>
    BY <1>1, <2>1, <2>4
  <2>5. CASE state = "FLUSHING" /\ state' = "SHUTDOWN" /\ UNCHANGED tr
    BY <2>1, <2>5 DEF PeerCannotHang
  <2> QED
    BY <1>14, <2>2, <2>3, <2>4, <2>5 DEF EndFlush, UserRaises
<1>15. CASE ShutdownComplete
  <2>1. tr # "gone"
    BY <1>15, Quiet DEF ShutdownComplete, Runs
  <2> QED
    BY <1>15, <2>1 DEF ShutdownComplete, Closed, PeerCannotHang, histVars,
       TypeOK, Controls
<1>16. CASE Written
  BY <1>16 DEF Written, PeerCannotHang, loopVars, histVars
<1>17. CASE UserAborts
  BY <1>2, <1>17 DEF UserAborts, Abort, GoneInv
<1>18. CASE HandshakeTimeout
  <2>1. CASE state # "DO_HANDSHAKE" /\ UNCHANGED <<state, tr>>
    BY <1>18, <2>1 DEF HandshakeTimeout, PeerCannotHang, histVars
  <2>2. CASE state = "DO_HANDSHAKE" /\ tr' = Forced
             /\ (state' = "UNWRAPPED" \/ UNCHANGED state)
    BY <2>2 DEF PeerCannotHang, Forced, GoneInv
  <2> QED
    BY <1>18, <2>1, <2>2 DEF HandshakeTimeout, Abort
<1>19. CASE ShutdownTimeout
  BY <1>19 DEF ShutdownTimeout, PeerCannotHang, Forced, histVars
<1>20. CASE EofReceived
  BY <1>1, <1>20 DEF EofReceived, PeerCannotHang, Closed, loopVars, histVars
<1>21. CASE TransportFails
  BY <1>21 DEF TransportFails, PeerCannotHang, loopVars, histVars
<1>22. CASE ConnectionLost
  <2>1. tr' = "gone" /\ state' = "UNWRAPPED" /\ UNCHANGED kind /\ app # "lost"
    BY <1>22 DEF ConnectionLost, GoneInv
  <2>2. CASE state # "DO_HANDSHAKE" /\ MustTell
    BY <1>22, <2>1, <2>2 DEF ConnectionLost, PeerCannotHang
  <2>3. CASE state # "DO_HANDSHAKE" /\ ~MustTell
    <3>1. app' = "init"
      BY <1>22, <2>1, <2>3 DEF ConnectionLost, MustTell, TypeOK, Controls
    <3> QED
      BY <2>1, <3>1 DEF PeerCannotHang
  <2>4. CASE state = "DO_HANDSHAKE"
    <3>1. app' = app /\ waiter' # "ok"
      BY <1>22, <2>4 DEF ConnectionLost, HandshakeInv
    <3>2. app = "init" \/ kind = "upgrade"
      BY <2>4 DEF HandshakeInv
    <3> QED
      BY <2>1, <3>1, <3>2 DEF PeerCannotHang
  <2> QED
    BY <2>2, <2>3, <2>4
<1>23. CASE RunLost
  <2>1. lostCalls' = 1
    <3>1. lostCalls' = lostCalls + 1 /\ lostCalls = 0
      BY <1>23 DEF RunLost, GoneInv
    <3> QED
      BY <3>1
  <2> QED
    BY <1>23, <2>1 DEF RunLost, PeerCannotHang, trVars
<1> QED
  BY <1>3, <1>4, <1>5, <1>6, <1>7, <1>8, <1>9, <1>10, <1>11, <1>12, <1>13,
     <1>14, <1>15, <1>16, <1>17, <1>18, <1>19, <1>20, <1>21, <1>22, <1>23
     DEF Next, Code, User

-----------------------------------------------------------------------------
(* Theorems *)

\* Init satisfies the inductive invariant.
LEMMA InitInv == ASSUME Init PROVE IInv
<1>1. /\ todo = <<"do_handshake", "returns">> /\ state = "DO_HANDSHAKE"
      /\ todo \in Starting /\ todo \in Seq(Items)
  BY DEF Init, Starting, HandshakeItems, Items
<1>2. /\ <<>> \in Seq({"handshake", "app", "close"})
      /\ <<>> \in Seq({"data", "close"})
  OBVIOUS
<1>3. Controls
  BY <1>1, SSLAssumption DEF Init, Controls
<1>4. Data
  BY <1>2 DEF Init, Data
<1>5. Flags
  BY DEF Init, Flags
<1>6. HandshakeInv /\ WrappedInv
  BY <1>1 DEF Init, HandshakeInv, WrappedInv
<1>7. GoneInv /\ PeerCannotHang
  BY DEF Init, GoneInv, PeerCannotHang
<1> QED
  BY <1>3, <1>4, <1>5, <1>6, <1>7 DEF IInv, TypeOK

\* The invariant is inductive.
LEMMA InvStep == ASSUME IInv, [Next]_vars PROVE IInv'
<1>1. TypeOK' /\ HandshakeInv' /\ WrappedInv'
  BY TypeStep, OrderStep DEF IInv
<1>2. CASE UNCHANGED vars
  BY <1>1, <1>2 DEF IInv, GoneInv, PeerCannotHang, vars, trVars, loopVars,
     histVars
<1>3. CASE Next
  BY <1>1, <1>3, EndStep, HangStep DEF IInv
<1> QED
  BY <1>2, <1>3

\* The inductive invariant holds in every reachable state.
THEOREM Invariance == Spec => []IInv
  BY InitInv, InvStep, PTL DEF Spec

\* Every variable keeps to its values.
THEOREM TypeCorrect == Spec => []TypeOK
<1>1. IInv => TypeOK
  BY DEF IInv
<1> QED
  BY <1>1, Invariance, PTL

\* Whatever the peer, the application and the transport do, a handshake or a
\* shutdown that waits has its timeout, UNWRAPPED leaves no transport open, and
\* the application hears of the loss (SSLProtocol).
THEOREM NeverHangs == Spec => []PeerCannotHang
<1>1. IInv => PeerCannotHang
  BY DEF IInv
<1> QED
  BY <1>1, Invariance, PTL

-----------------------------------------------------------------------------
(* The life of the application's protocol *)

\* A method that goes on with nothing enters no callback, and one that goes on
\* with something enters none but its first.
LEMMA Entering ==
    ASSUME TypeOK, todo # <<>>, NEW t \in Seq(Items), Then(t),
           NEW f, Entered(f)
    PROVE  t # <<>> /\ t[1] = f
<1>1. /\ todo \in Seq(Items) /\ todo' = t \o Tail(todo)
      /\ Len(todo') >= Len(todo) /\ todo' # <<>> /\ Head(todo') = f
  BY DEF TypeOK, Controls, Then, Entered, Runs
<1>2. /\ todo' \in Seq(Items) /\ Len(todo') = Len(t) + Len(todo) - 1
      /\ \A i \in 1..Len(t) : todo'[i] = t[i]
      /\ Len(todo) \in Nat \ {0} /\ Len(t) \in Nat
  BY <1>1, Pushed
<1>3. Len(t) > 0
  BY <1>1, <1>2
<1>4. t # <<>> /\ 1 \in 1..Len(t)
  BY <1>3, <1>2
<1>5. Head(todo') = todo'[1]
  BY <1>1, <1>2
<1> QED
  BY <1>1, <1>2, <1>4, <1>5

\* The first element of a stack is what was put on top of it.
LEMMA Preceded ==
  ASSUME NEW x \in Items, NEW s \in Seq(Items)
  PROVE  <<x>> \o s \in Seq(Items) /\ (<<x>> \o s)[1] = x
  OBVIOUS

\* The methods that enter a callback.
LEMMA WhoEnters ==
    ASSUME TypeOK, HandshakeInv, WrappedInv, Next,
           NEW f \in Callbacks, Entered(f)
    PROVE  \/ f = "data_received" /\ Reading
           \/ f = "connection_made" /\ Runs("on_handshake_complete")
           \/ f = "eof_received" /\ Runs("call_eof") /\ app = "made"
           \/ f \in {"pause_writing", "resume_writing"} /\ Runs("control_app_writing")
              /\ tr # "gone"
<1>1. /\ todo \in Seq(Items)
      /\ todo' # todo /\ Len(todo') >= Len(todo)
      /\ todo' # <<>> /\ Head(todo') \in Callbacks
  BY DEF TypeOK, Controls, Entered, Runs
<1>2. ASSUME todo # <<>>, Then(<<>>) PROVE FALSE
  BY <1>2, Entering, Fixed
<1>3. ASSUME NEW x \in Items \ Callbacks, todo # <<>>,
             \/ Then(<<x>>)
             \/ \E y \in Items : Then(<<x, y>>)
      PROVE  FALSE
  <2>1. /\ <<x>> \in Seq(Items) /\ <<x>>[1] = x
        /\ \A y \in Items : <<x, y>> \in Seq(Items) /\ <<x, y>>[1] = x
    OBVIOUS
  <2> QED
    BY <1>3, <2>1, Entering
<1>4. ASSUME NEW x \in Items \ Callbacks, NEW q \in Seq(Items), todo' = <<x>> \o q
      PROVE  FALSE
  <2>1. Head(<<x>> \o q) = x
    OBVIOUS
  <2> QED
    BY <1>1, <1>4, <2>1
<1>5. Items \ Callbacks = HandshakeItems \union
    {"returns", "wakeup_waiter", "do_read", "after_read", "end_read",
     "call_eof", "start_shutdown", "flush_write", "control_ssl_reading",
     "control_app_writing", "resumed", "do_flush", "do_shutdown", "flushed",
     "unwrap", "shutdown_complete", "written"}
  BY DEF Items, Callbacks, HandshakeItems
<1>6. CASE HandshakeAgain \/ WakeupWaiter \/ OnHandshakeFailed \/ ReadFails
           \/ ControlSSLReading \/ VoidFails \/ ShutdownComplete
  BY <1>2, <1>6 DEF HandshakeAgain, WakeupWaiter, OnHandshakeFailed,
     ReadFails, Reading, ControlSSLReading, VoidFails, ShutdownComplete, Runs
<1>7. CASE Returns \/ Written \/ UserReturns
  BY <1>2, <1>7 DEF Returns, Written, UserReturns, Runs, Idle
<1>8. CASE HandshakeDone \/ HandshakeFails
  <2>1. {"on_handshake_complete", "handshake_failed"} \subseteq Items \ Callbacks
    BY <1>5 DEF HandshakeItems
  <2> QED
    BY <1>3, <1>8, <2>1 DEF HandshakeDone, HandshakeFails, Runs
<1>9. CASE OnHandshakeComplete
  <2>1. /\ <<"connection_made", "wakeup_waiter">>[1] = "connection_made"
        /\ <<"wakeup_waiter">>[1] = "wakeup_waiter"
        /\ "wakeup_waiter" \notin Callbacks
    BY DEF Callbacks
  <2> QED
    BY <1>9, <2>1, Entering, Fixed DEF OnHandshakeComplete, Runs
<1>10. CASE ReadNothing \/ WriteOut \/ ResumedWriting
  <2>1. {"end_read", "control_app_writing", "control_ssl_reading"}
          \subseteq Items \ Callbacks
    BY <1>5
  <2> QED
    BY <1>2, <1>3, <1>10, <2>1 DEF ReadNothing, WriteOut, ResumedWriting, Runs
<1>11. ASSUME NEW n \in 0..Len(incoming), Read(n)
       PROVE  f = "data_received" /\ Reading
  <2>1. PICK a \in {<<"data_received">>, <<>>},
             b \in {<<"call_eof", "start_shutdown", "after_read", "end_read">>,
                    <<"after_read", "end_read">>} : Then(a \o b)
    BY <1>11 DEF Read
  <2>2. a \o b \in Seq(Items)
    BY ReadInOrder
  <2>3. todo # <<>> /\ Reading
    BY <1>11 DEF Read, Reading, Runs
  <2>4. (a \o b)[1] = f
    BY <2>1, <2>2, <2>3, Entering
  <2>5. CASE a = <<>>
    <3>1. a \o b = b /\ b[1] \in {"call_eof", "after_read"}
      BY <2>5
    <3> QED
      BY <2>4, <3>1 DEF Callbacks
  <2>6. CASE a = <<"data_received">>
    <3>1. b \in Seq(Items)
      <4>1. <<>> \o b \in Seq(Items)
        BY ReadInOrder
      <4>2. b = <<>> \o b
        BY <2>1
      <4> QED
        BY <4>1, <4>2
    <3>2. "data_received" \in Items
      BY DEF Items, Callbacks
    <3>3. (<<"data_received">> \o b)[1] = "data_received"
      BY <3>1, <3>2, Preceded
    <3> QED
      BY <2>3, <2>4, <2>6, <3>3
  <2> QED
    BY <2>5, <2>6
<1>12. CASE CallEof
  <2>1. <<"eof_received">>[1] = "eof_received"
    OBVIOUS
  <2> QED
    BY <1>2, <1>12, <2>1, Entering, Fixed DEF CallEof, Runs
<1>13. CASE ControlAppWriting
  <2>1. /\ <<"pause_writing">>[1] = "pause_writing"
        /\ <<"resume_writing">>[1] = "resume_writing"
    OBVIOUS
  <2>2. todo # <<>> /\ Runs("control_app_writing")
        /\ \E t \in {<<"pause_writing">>, <<"resume_writing">>, <<>>} : Then(t)
    BY <1>13, Controlled DEF Runs
  <2>3. tr # "gone"
    BY <1>2, <1>13, Controlled
  <2> QED
    BY <1>2, <2>1, <2>2, <2>3, Entering, Fixed
<1>14. CASE StartShutdown
  <2>1. todo # <<>> /\ (Then(<<>>) \/ Then(<<"do_flush">>))
    BY <1>14 DEF StartShutdown, Runs
  <2> QED
    BY <1>2, <1>3, <1>5, <2>1
<1>15. ASSUME NEW more \in {<<"flush_write", "flushed">>, <<"unwrap">>},
              IntoVoid(more), todo # <<>>
       PROVE  FALSE
  <2>1. PICK a \in {<<"call_eof">>, <<>>} : Then(a \o more)
    BY <1>15 DEF IntoVoid
  <2>2. more \in Seq(Items) /\ more[1] \in {"flush_write", "unwrap"}
    <3>1. /\ {<<"flush_write", "flushed">>, <<"unwrap">>} \subseteq Seq(Items)
          /\ <<"flush_write", "flushed">>[1] = "flush_write"
          /\ <<"unwrap">>[1] = "unwrap"
      BY Fixed
    <3>2. CASE more = <<"flush_write", "flushed">>
      BY <3>1, <3>2
    <3>3. CASE more = <<"unwrap">>
      BY <3>1, <3>3
    <3> QED
      BY <1>15, <3>2, <3>3
  <2>3. CASE a = <<>>
    <3>1. a \o more = more
      BY <2>2, <2>3
    <3> QED
      BY <1>15, <2>1, <2>2, <3>1, Entering DEF Callbacks
  <2>4. CASE a = <<"call_eof">>
    <3>1. "call_eof" \in Items /\ "call_eof" \notin Callbacks
      BY DEF Items, Callbacks
    <3>2. /\ <<"call_eof">> \o more \in Seq(Items)
          /\ (<<"call_eof">> \o more)[1] = "call_eof"
      BY <2>2, <3>1, Preceded
    <3> QED
      BY <1>15, <2>1, <2>4, <3>1, <3>2, Entering
  <2> QED
    BY <2>3, <2>4
<1>16. CASE DoFlush \/ DoShutdown
  BY <1>15, <1>16 DEF DoFlush, DoShutdown, Runs
<1>17. CASE EndFlush \/ UserRaises
  <2>1. /\ todo # <<>>
        /\ \/ Then(<<>>) \/ Then(<<"do_shutdown">>) \/ Raise(Tail(todo))
    BY <1>17 DEF EndFlush, UserRaises, Runs
  <2>2. ~Raise(Tail(todo))
    <3>1. Raise(Tail(todo)) => todo' \in Seq(Items) /\ Len(todo') < Len(todo)
      BY <2>1, Raised
    <3>2. Len(todo) \in Nat
      BY <1>1
    <3> QED
      BY <1>1, <3>1, <3>2
  <2> QED
    BY <1>2, <1>3, <1>5, <2>1, <2>2
<1>18. CASE Unwrap
  <2>1. todo # <<>> /\ (Then(<<>>) \/ Then(<<"shutdown_complete">>))
    BY <1>18 DEF Unwrap, Runs
  <2> QED
    BY <1>2, <1>3, <1>5, <2>1
<1>19. CASE WriteData \/ Close \/ \E l \in WriteLimits : SetWriteLimits(l)
  <2>1. PICK x \in {"control_app_writing", "start_shutdown"} :
          todo' = <<x>> \o todo
    BY <1>19 DEF WriteData, Close, SetWriteLimits
  <2> QED
    BY <1>1, <1>4, <1>5, <2>1
<1>20. CASE UserAborts \/ PauseReading \/ ResumeReading \/ CancelWait
            \/ \E l \in ReadLimits : SetReadLimits(l)
  BY <1>1, <1>20 DEF UserAborts, PauseReading, ResumeReading, CancelWait,
     SetReadLimits
<1>21. CASE HandshakeTimeout \/ ShutdownTimeout \/ TransportFails
            \/ ConnectionLost \/ RunLost
  BY <1>1, <1>21 DEF HandshakeTimeout, ShutdownTimeout, TransportFails,
     ConnectionLost, RunLost
<1>22. CASE CancelledCloses \/ RunDoRead
  <2>1. todo' \in {<<"start_shutdown">>, <<"do_read">>}
    BY <1>22 DEF CancelledCloses, RunDoRead
  <2>2. Head(todo') \in {"start_shutdown", "do_read"}
    BY <2>1
  <2> QED
    BY <1>1, <2>2 DEF Callbacks
<1>23. CASE EofReceived
  <2>1. todo' = <<"handshake_failed", "returns">> \/ todo' = todo
    BY <1>23 DEF EofReceived
  <2>2. Head(<<"handshake_failed", "returns">>) = "handshake_failed"
    OBVIOUS
  <2> QED
    BY <1>1, <2>1, <2>2 DEF Callbacks
<1>24. CASE Drain \/ \E s \in Chunks : BufferUpdated(s)
  <2>1. PICK y \in {"written", "returns"},
             a \in {<<>>, <<"resumed">>, <<"do_flush">>, <<"do_shutdown">>,
                    <<"do_handshake">>, <<"do_read">>} : todo' = a \o <<y>>
    BY <1>24 DEF Drain, BufferUpdated, TypeOK, Controls
  <2>2. y \in Items \ Callbacks /\ <<y>> \in Seq(Items) /\ <<>> \in Seq(Items)
    BY <1>5, Fixed
  <2>3. CASE a = <<>>
    <3>1. todo' = <<y>> /\ Head(<<y>>) = y
      BY <2>1, <2>3
    <3> QED
      BY <1>1, <2>2, <3>1
  <2>4. ASSUME NEW x \in {"resumed", "do_flush", "do_shutdown", "do_handshake",
                          "do_read"}, a = <<x>>
        PROVE  FALSE
    <3>1. x \in Items \ Callbacks
      BY <1>5 DEF HandshakeItems
    <3> QED
      BY <1>4, <2>1, <2>2, <2>4, <3>1
  <2> QED
    BY <2>3, <2>4
<1> QED
  BY <1>6, <1>7, <1>8, <1>9, <1>10, <1>11, <1>12, <1>13, <1>14, <1>16, <1>17,
     <1>18, <1>19, <1>20, <1>21, <1>22, <1>23, <1>24 DEF Next, Code, User

\* _do_read() runs for a protocol that is connected and has not closed.
LEMMA Readable ==
    ASSUME TypeOK, WrappedInv, Reading
    PROVE  app = "made" /\ ~over
<1>1. /\ todo \in Seq(Items) /\ todo # <<>> /\ Head(todo) = "do_read"
      /\ state = "WRAPPED"
  BY DEF TypeOK, Controls, Reading, MayRead, Runs
<1>2. Len(todo) \in Nat \ {0} /\ todo[1] = "do_read"
  BY <1>1
<1>3. \A j \in 2..Len(todo) : todo[j] = "returns"
  BY <1>1, <1>2 DEF WrappedInv, Ordered
<1>4. ~Ending(todo)
  <2>1. \A i \in 1..Len(todo) : i = 1 \/ i \in 2..Len(todo)
    BY <1>2
  <2> QED
    BY <2>1, <1>2, <1>3 DEF Ending
<1> QED
  BY <1>1, <1>4 DEF WrappedInv, Runs

\* The application's protocol gets no data before connection_made(), after
\* eof_received(), or after close() and abort(); it hears nothing once
\* connection_lost() is called or scheduled, and that call comes once
\* (SSLProtocol).
THEOREM LivesInOrder == Spec => AppOrder
<1> DEFINE Step ==
        /\ Entered("data_received") => app = "made" /\ ~over
        /\ \A f \in Callbacks : Entered(f) => ~lostDue /\ lostCalls = 0
        /\ lostCalls' <= 1
<1>1. ASSUME IInv, Next PROVE Step
  <2>1. TypeOK /\ HandshakeInv /\ WrappedInv /\ GoneInv
    BY <1>1 DEF IInv
  <2>2. lostCalls' <= 1
    <3>1. lostCalls' \in {0, 1}
      BY <1>1, InvStep DEF IInv, TypeOK, Data
    <3> QED
      BY <3>1
  <2>3. Entered("data_received") => app = "made" /\ ~over
    BY <1>1, <2>1, WhoEnters, Readable DEF Callbacks
  <2>4. ASSUME NEW f \in Callbacks, Entered(f), lostDue \/ lostCalls # 0
        PROVE  FALSE
    <3>1. tr = "gone" /\ app = "lost" /\ todo \in Afterwards /\ state = "UNWRAPPED"
      BY <2>1, <2>4 DEF GoneInv, TypeOK, Data
    <3>2. f = "connection_made" /\ Runs("on_handshake_complete")
      BY <1>1, <2>1, <2>4, <3>1, WhoEnters DEF Reading, MayRead
    <3> QED
      BY <3>1, <3>2, AtEnd DEF Runs
  <2> QED
    BY <2>2, <2>3, <2>4
<1>2. ASSUME IInv, [Next]_vars PROVE [Step]_vars
  BY <1>1, <1>2
<1> QED
  BY <1>2, Invariance, PTL DEF Spec, AppOrder

-----------------------------------------------------------------------------
(* All bytes go in front of close_notify                                    *)

Done == {"SHUTDOWN", "UNWRAPPED"}

\* What the SSL object has written of the application's bytes and of the
\* shutdown, in the transport and in the BIO.
Sent == wire \o Payload(outgoing)
Apps(n) == [i \in 1..n |-> "app"]

\* What the SSL object writes goes to the transport or stays in the BIO.
Kept == tr \in {"open", "closing"} \/ ("ssl writing" \in paused /\ tr # "gone")

\* _do_shutdown() runs or is to run.
InShutdown(s) == \E i \in 1..Len(s) : s[i] \in {"do_shutdown", "unwrap"}

\* close_notify is written only when nothing of the application waits.
ShutInv ==
    state = "SHUTDOWN" \/ sentClose \/ InShutdown(todo) =>
        state \in Done /\ (cut \/ backlog = 0)

\* As long as nothing is dropped, what has not been sent is in the backlog;
\* what was sent behind close_notify is nothing.
FirstOnly(out) == \A i \in 2..Len(out) : out[i] # "handshake"
Whole == backlog <= written /\ Sent = Apps(written - backlog)
Finished == Sent = Apps(written) \o <<"close">>
SentInv ==
    /\ wire \in Seq({"app", "close"})
    /\ FirstOnly(outgoing)
    /\ state = "DO_HANDSHAKE" => Payload(outgoing) = <<>>
    /\ HasClose(Sent) => sentClose
    /\ Kept /\ ~HasClose(Sent) => Whole
    /\ HasClose(Sent) /\ ~cut => Finished

FlushInv == IInv /\ ShutInv /\ SentInv

\* A sequence whose elements are of fewer kinds.
LEMMA Narrow ==
    ASSUME NEW S, NEW T, NEW s \in Seq(S), \A i \in 1..Len(s) : s[i] \in T
    PROVE  s \in Seq(T)
  OBVIOUS

\* What is written behind something is written behind its payload.
LEMMA PayloadOfMore ==
    ASSUME NEW out \in Seq({"handshake", "app", "close"}), FirstOnly(out),
           NEW e \in Seq({"app", "close"})
    PROVE  /\ Payload(out) \in Seq({"app", "close"})
           /\ out \o e \in Seq({"handshake", "app", "close"})
           /\ FirstOnly(out \o e)
           /\ Payload(out \o e) = Payload(out) \o e
           /\ out = <<>> => Payload(out) = <<>>
<1>1. /\ out \o e \in Seq({"handshake", "app", "close"})
      /\ Len(out \o e) = Len(out) + Len(e)
      /\ \A i \in 1..Len(out) : (out \o e)[i] = out[i]
      /\ \A i \in Len(out)+1..Len(out) + Len(e) : (out \o e)[i] = e[i - Len(out)]
      /\ Len(out) \in Nat /\ Len(e) \in Nat
      /\ \A i \in 1..Len(e) : e[i] \in {"app", "close"}
  <2>1. e \in Seq({"handshake", "app", "close"})
    OBVIOUS
  <2> QED
    BY <2>1
<1>2. FirstOnly(out \o e)
  <2> SUFFICES ASSUME NEW i \in 2..Len(out \o e) PROVE (out \o e)[i] # "handshake"
    BY DEF FirstOnly
  <2>1. CASE i <= Len(out)
    BY <2>1, <1>1 DEF FirstOnly
  <2>2. CASE i > Len(out)
    <3>1. i - Len(out) \in 1..Len(e) /\ (out \o e)[i] = e[i - Len(out)]
      BY <2>2, <1>1
    <3> QED
      BY <3>1, <1>1
  <2> QED
    BY <2>1, <2>2, <1>1
<1>3. CASE out = <<>>
  <2>1. out \o e = e /\ Payload(out) = <<>> /\ <<>> \o e = e
    BY <1>3 DEF Payload
  <2>2. e # <<>> => Head(e) # "handshake"
    <3> SUFFICES ASSUME e # <<>> PROVE Head(e) # "handshake"
      OBVIOUS
    <3>1. 1 \in 1..Len(e) /\ Head(e) = e[1]
      OBVIOUS
    <3> QED
      BY <3>1, <1>1
  <2>3. Payload(e) = e
    BY <2>2 DEF Payload
  <2> QED
    BY <2>1, <2>3, <1>1, <1>2
<1>4. CASE out # <<>> /\ Head(out) = "handshake"
  <2>1. /\ out \o e # <<>> /\ Head(out \o e) = "handshake"
        /\ Payload(out) = Tail(out)
    BY <1>4, <1>1 DEF Payload
  <2>2. Tail(out) \in Seq({"app", "close"})
    <3>1. /\ Tail(out) \in Seq({"handshake", "app", "close"})
          /\ Len(Tail(out)) = Len(out) - 1
          /\ \A i \in 1..Len(out) - 1 : Tail(out)[i] = out[i + 1]
      BY <1>4
    <3> DEFINE t == Tail(out)
    <3> HIDE DEF t
    <3>2. ASSUME NEW i \in 1..Len(t) PROVE t[i] \in {"app", "close"}
      <4>1. i + 1 \in 2..Len(out) /\ t[i] = out[i + 1]
        BY <3>1, <1>1 DEF t
      <4>2. out[i + 1] \in {"handshake", "app", "close"}
        BY <4>1
      <4> QED
        BY <4>1, <4>2 DEF FirstOnly
    <3>3. \A i \in 1..Len(Tail(out)) : Tail(out)[i] \in {"app", "close"}
      BY <3>2 DEF t
    <3> QED
      BY <3>1, <3>3, Narrow
  <2>3. Tail(out \o e) = Tail(out) \o e
    BY <1>4, <1>1, <2>2
  <2> QED
    BY <2>1, <2>2, <2>3, <1>1, <1>2, <1>4 DEF Payload
<1>5. CASE out # <<>> /\ Head(out) # "handshake"
  <2>1. /\ out \o e # <<>> /\ Head(out \o e) = Head(out)
        /\ Payload(out) = out
    BY <1>5, <1>1 DEF Payload
  <2>2. out \in Seq({"app", "close"})
    <3>1. Head(out) = out[1] /\ 1 \in 1..Len(out)
      BY <1>5
    <3>2. \A i \in 1..Len(out) : out[i] \in {"app", "close"}
      <4> TAKE i \in 1..Len(out)
      <4>1. out[i] \in {"handshake", "app", "close"}
        OBVIOUS
      <4>2. CASE i = 1
        BY <4>1, <4>2, <3>1, <1>5
      <4>3. CASE i # 1
        <5>1. i \in 2..Len(out)
          BY <4>3, <1>1
        <5> QED
          BY <4>1, <5>1 DEF FirstOnly
      <4> QED
        BY <4>2, <4>3
    <3> QED
      BY <3>2
  <2> QED
    BY <2>1, <2>2, <1>1, <1>2, <1>5 DEF Payload
<1> QED
  BY <1>3, <1>4, <1>5

\* Bytes and bytes are bytes, and none of them is close_notify.
LEMMA AppsFacts ==
    ASSUME NEW m \in Nat, NEW n \in Nat
    PROVE  /\ Apps(m) \in Seq({"app", "close"}) /\ ~HasClose(Apps(m))
           /\ Apps(m) \o Apps(n) = Apps(m + n)
           /\ HasClose(Apps(m) \o <<"close">>)
           /\ Apps(0) = <<>>
<1>1. \A k \in Nat : /\ Apps(k) \in Seq({"app", "close"}) /\ Len(Apps(k)) = k
                     /\ \A i \in 1..k : Apps(k)[i] = "app"
  BY DEF Apps
<1>2. ~HasClose(Apps(m))
  BY <1>1 DEF HasClose
<1>3. Apps(m) \o Apps(n) = Apps(m + n)
  <2> DEFINE a == Apps(m)
             b == Apps(n)
             c == Apps(m + n)
  <2>1. /\ a \in Seq({"app", "close"}) /\ Len(a) = m /\ \A i \in 1..m : a[i] = "app"
        /\ b \in Seq({"app", "close"}) /\ Len(b) = n /\ \A i \in 1..n : b[i] = "app"
        /\ c \in Seq({"app", "close"}) /\ Len(c) = m + n
        /\ \A i \in 1..m + n : c[i] = "app"
    BY <1>1
  <2> HIDE DEF a, b, c
  <2>2. a \o b \in Seq({"app", "close"}) /\ Len(a \o b) = m + n
    BY <2>1
  <2>3. \A i \in 1..m + n : (a \o b)[i] = IF i <= m THEN a[i] ELSE b[i - m]
    BY <2>1, ConcatProperties
  <2>5. \A i \in 1..m + n : i - m \in 1..n \/ i <= m
    OBVIOUS
  <2>4. a \o b = c
    BY <2>1, <2>2, <2>3, <2>5
  <2> QED
    BY <2>4 DEF a, b, c
<1>4. HasClose(Apps(m) \o <<"close">>)
  <2> DEFINE a == Apps(m)
  <2>1. a \in Seq({"app", "close"}) /\ Len(a) = m
    BY <1>1
  <2> HIDE DEF a
  <2>2. /\ Len(a \o <<"close">>) = m + 1
        /\ (a \o <<"close">>)[m + 1] = "close"
    BY <2>1
  <2>3. HasClose(a \o <<"close">>)
    BY <2>2 DEF HasClose
  <2> QED
    BY <2>3 DEF a
<1>5. Apps(0) = <<>>
  BY <1>1
<1> QED
  BY <1>1, <1>2, <1>3, <1>4, <1>5

\* close_notify is in one of the two parts.
LEMMA CloseInParts ==
    ASSUME NEW s \in Seq({"app", "close"}), NEW t \in Seq({"app", "close"})
    PROVE  /\ s \o t \in Seq({"app", "close"})
           /\ HasClose(s \o t) <=> HasClose(s) \/ HasClose(t)
<1>1. /\ s \o t \in Seq({"app", "close"})
      /\ Len(s \o t) = Len(s) + Len(t) /\ Len(s) \in Nat /\ Len(t) \in Nat
      /\ \A i \in 1..Len(s) : (s \o t)[i] = s[i]
      /\ \A i \in Len(s)+1..Len(s) + Len(t) : (s \o t)[i] = t[i - Len(s)]
  OBVIOUS
<1>2. ASSUME HasClose(s) PROVE HasClose(s \o t)
  BY <1>1, <1>2 DEF HasClose
<1>3. ASSUME NEW i \in 1..Len(t), t[i] = "close" PROVE HasClose(s \o t)
  <2>1. i + Len(s) \in Len(s)+1..Len(s) + Len(t) /\ (i + Len(s)) - Len(s) = i
    BY <1>1
  <2>2. (s \o t)[i + Len(s)] = "close" /\ i + Len(s) \in 1..Len(s \o t)
    BY <2>1, <1>1, <1>3
  <2> QED
    BY <2>2 DEF HasClose
<1>4. ASSUME NEW i \in 1..Len(s \o t), (s \o t)[i] = "close"
      PROVE  HasClose(s) \/ HasClose(t)
  <2>1. CASE i <= Len(s)
    BY <2>1, <1>1, <1>4 DEF HasClose
  <2>2. CASE i > Len(s)
    <3>1. i - Len(s) \in 1..Len(t) /\ t[i - Len(s)] = "close"
      BY <2>2, <1>1, <1>4
    <3> QED
      BY <3>1 DEF HasClose
  <2> QED
    BY <2>1, <2>2, <1>1
<1> QED
  BY <1>1, <1>2, <1>3, <1>4 DEF HasClose

\* Nothing is behind close_notify.
LEMMA NothingBehind ==
    ASSUME NEW s \in Seq({"app", "close"}), NEW t \in Seq({"app", "close"}),
           NEW n \in Nat, s \o t = Apps(n) \o <<"close">>, HasClose(s)
    PROVE  t = <<>>
<1> DEFINE a == Apps(n)
<1>1. /\ a \in Seq({"app", "close"}) /\ Len(a) = n
      /\ \A i \in 1..n : a[i] = "app"
  BY DEF Apps
<1>2. s \o t = a \o <<"close">>
  OBVIOUS
<1> HIDE DEF a
<1>3. /\ Len(a \o <<"close">>) = n + 1
      /\ \A i \in 1..n : (a \o <<"close">>)[i] = "app"
  BY <1>1
<1>4. PICK i \in 1..Len(s) : s[i] = "close"
  BY DEF HasClose
<1>5. /\ Len(s \o t) = Len(s) + Len(t) /\ Len(s) \in Nat /\ Len(t) \in Nat
      /\ (s \o t)[i] = s[i]
  OBVIOUS
<1>6. i = n + 1
  BY <1>2, <1>3, <1>4, <1>5
<1>7. Len(t) = 0
  BY <1>2, <1>3, <1>5, <1>6
<1> QED
  BY <1>7

\* The steps that write nothing, send nothing and drop nothing.
Untouched ==
    /\ UNCHANGED <<backlog, outgoing, wire, written, sentClose>>
    /\ cut => cut'
    /\ Kept' => Kept
    /\ state \in Done => state' \in Done
    /\ state' = "SHUTDOWN" => state = "SHUTDOWN" \/ cut'
    /\ state' = "DO_HANDSHAKE" => state = "DO_HANDSHAKE"

\* All but eight actions leave what is written, sent and dropped as it is.
LEMMA UntouchedSteps ==
    ASSUME IInv, [Next]_vars
    PROVE  \/ Untouched
           \/ HandshakeAgain \/ HandshakeDone \/ WriteOut \/ ResumedWriting
           \/ EndFlush \/ Unwrap \/ WriteData \/ ConnectionLost
<1> USE DEF Untouched, Done, Kept, histVars, outVars, sslVars, trVars, flowVars
<1>1. CASE HandshakeFails \/ WakeupWaiter \/ ReadNothing \/ CallEof
  BY <1>1 DEF HandshakeFails, WakeupWaiter, ReadNothing, CallEof
<1>2. CASE OnHandshakeComplete
  <2>1. state = "DO_HANDSHAKE"
    <3>1. todo # <<>> /\ Head(todo) \in HandshakeItems
      BY <1>2 DEF OnHandshakeComplete, Runs, HandshakeItems
    <3>2. todo \in Seq(Items)
      BY DEF IInv, TypeOK, Controls
    <3>3. 1 \in 1..Len(todo) /\ todo[1] = Head(todo)
      BY <3>1, <3>2
    <3> QED
      BY <3>1, <3>3 DEF IInv, HandshakeInv
  <2> QED
    BY <1>2, <2>1 DEF OnHandshakeComplete
<1>3. CASE OnHandshakeFailed \/ ReadFails \/ VoidFails
  BY <1>3 DEF OnHandshakeFailed, ReadFails, VoidFails, Abort, Forced
<1>4. CASE \E n \in 0..Len(incoming) : Read(n)
  <2>1. UNCHANGED <<state, paused, outVars, sentClose, trVars, histVars>>
    BY <1>4 DEF Read
  <2> QED
    BY <2>1
<1>5. CASE ControlSSLReading
  <2>1. paused' \ {"ssl reading"} = paused \ {"ssl reading"}
    BY <1>5 DEF ControlSSLReading, SSLReading
  <2>2. "ssl writing" \in paused' <=> "ssl writing" \in paused
    BY <2>1
  <2> QED
    BY <1>5, <2>2 DEF ControlSSLReading
<1>6. CASE ControlAppWriting
  <2>1. paused' \in {paused, paused \union {"app writing"},
                    paused \ {"app writing"}}
    BY <1>6 DEF ControlAppWriting
  <2>2. "ssl writing" \in paused' <=> "ssl writing" \in paused
    BY <2>1
  <2>3. UNCHANGED <<state, outVars, sentClose, trVars, histVars>>
    BY <1>6 DEF ControlAppWriting
  <2> QED
    BY <2>2, <2>3
<1>7. CASE StartShutdown
  BY <1>7 DEF StartShutdown, Abort, Forced
<1>8. CASE DoFlush \/ DoShutdown \/ UserReturns \/ Returns
  BY <1>8 DEF DoFlush, DoShutdown, UserReturns, Returns
<1>9. CASE ShutdownComplete \/ Written
  BY <1>9 DEF ShutdownComplete, Written, Closed
<1>10. CASE Close
  <2>1. UNCHANGED <<state, paused, outVars, sentClose, trVars, written, cut>>
    BY <1>10 DEF Close
  <2> QED
    BY <2>1
<1>26. CASE UserAborts
  BY <1>26 DEF UserAborts, Abort, Forced
<1>11. CASE PauseReading \/ ResumeReading
  <2>1. /\ paused' \in {paused \union {"app reading"}, paused \ {"app reading"}}
        /\ UNCHANGED <<state, outVars, sentClose, trVars, histVars>>
    BY <1>11 DEF PauseReading, ResumeReading
  <2>2. "ssl writing" \in paused' <=> "ssl writing" \in paused
    BY <2>1
  <2> QED
    BY <2>1, <2>2
<1>12. ASSUME NEW l \in ReadLimits, SetReadLimits(l) PROVE Untouched
  <2>1. paused' \ {"ssl reading"} = paused \ {"ssl reading"}
    BY <1>12 DEF SetReadLimits, SSLReading
  <2>2. "ssl writing" \in paused' <=> "ssl writing" \in paused
    BY <2>1
  <2> QED
    BY <1>12, <2>2 DEF SetReadLimits
<1>13. ASSUME NEW l \in WriteLimits, SetWriteLimits(l) PROVE Untouched
  <2>1. UNCHANGED <<state, paused, outVars, sentClose, trVars, histVars>>
    BY <1>13 DEF SetWriteLimits
  <2> QED
    BY <2>1
<1>14. CASE CancelWait \/ CancelledCloses \/ RunDoRead \/ RunLost
  BY <1>14 DEF CancelWait, CancelledCloses, RunDoRead, RunLost
<1>15. CASE UserRaises
  <2>1. state' \in {state, "UNWRAPPED"} /\ tr' \in {tr, Forced}
    <3>1. todo # <<>> /\ TypeOK
      BY <1>15 DEF UserRaises, Runs, IInv
    <3>2. CASE Abort
      BY <3>2 DEF Abort
    <3>3. CASE Raise(Tail(todo))
      BY <3>1, <3>3, Raised
    <3> QED
      BY <1>15, <3>2, <3>3 DEF UserRaises
  <2> QED
    BY <1>15, <2>1 DEF UserRaises, Forced
<1>16. CASE HandshakeTimeout \/ ShutdownTimeout
  BY <1>16 DEF HandshakeTimeout, ShutdownTimeout, Abort, Forced
<1>17. ASSUME NEW s \in Chunks, BufferUpdated(s) PROVE Untouched
  BY <1>17 DEF BufferUpdated
<1>18. CASE EofReceived
  BY <1>18 DEF EofReceived, Closed
<1>19. CASE Drain
  BY <1>19 DEF Drain
<1>20. CASE TransportFails
  BY <1>20 DEF TransportFails
<1>21. CASE UNCHANGED vars
  BY <1>21 DEF vars
<1> QED
  BY <1>1, <1>2, <1>3, <1>4, <1>5, <1>6, <1>7, <1>8, <1>9, <1>10, <1>11, <1>12,
     <1>13, <1>14, <1>15, <1>16, <1>17, <1>18, <1>19, <1>20, <1>21,
     <1>26 DEF Next, Code, User

-----------------------------------------------------------------------------
(* What puts _do_shutdown() on the stack                                    *)

Other == Items \ {"do_shutdown", "unwrap"}

\* The stack of a method that goes on with other methods.
LEMMA ShutBelow ==
    ASSUME NEW s \in Seq(Items), s # <<>>, NEW t \in Seq(Items),
           \A i \in 1..Len(t) : t[i] \in Other, InShutdown(t \o Tail(s))
    PROVE  InShutdown(s)
<1> DEFINE n == t \o Tail(s)
<1>1. /\ Len(n) = Len(t) + Len(s) - 1 /\ Len(t) \in Nat /\ Len(s) \in Nat
      /\ \A i \in 1..Len(t) : n[i] = t[i]
      /\ \A i \in Len(t)+1..Len(t) + Len(s) - 1 : n[i] = s[i - Len(t) + 1]
  BY Pushed
<1>2. PICK i \in 1..Len(n) : n[i] \in {"do_shutdown", "unwrap"}
  BY DEF InShutdown
<1> HIDE DEF n
<1>3. i > Len(t)
  BY <1>1, <1>2 DEF Other
<1>4. i - Len(t) + 1 \in 1..Len(s) /\ s[i - Len(t) + 1] = n[i]
  BY <1>1, <1>2, <1>3
<1> QED
  BY <1>2, <1>4 DEF InShutdown

\* A method that goes on with methods outside a shutdown begins none.
LEMMA ThenBelow ==
    ASSUME TypeOK, todo # <<>>, InShutdown(todo')
    PROVE  /\ Then(<<>>) => InShutdown(todo)
           /\ \A x \in Other : Then(<<x>>) => InShutdown(todo)
           /\ \A x, y \in Other : Then(<<x, y>>) => InShutdown(todo)
           /\ \A t \in Seq(Other) : Then(t) => InShutdown(todo)
<1>1. todo \in Seq(Items)
  BY DEF TypeOK, Controls
<1>2. ASSUME NEW t \in Seq(Other), Then(t) PROVE InShutdown(todo)
  <2>1. t \in Seq(Items) /\ \A i \in 1..Len(t) : t[i] \in Other
    BY DEF Other
  <2> QED
    BY <1>1, <1>2, <2>1, ShutBelow DEF Then
<1>3. /\ <<>> \in Seq(Other)
      /\ \A x \in Other : <<x>> \in Seq(Other)
      /\ \A x, y \in Other : <<x, y>> \in Seq(Other)
  OBVIOUS
<1> QED
  BY <1>2, <1>3

\* A call from the application's code, on top of the stack.
LEMMA CalledBelow ==
    ASSUME TypeOK, NEW x \in Other, todo' = <<x>> \o todo, InShutdown(todo')
    PROVE  InShutdown(todo)
<1>1. todo \in Seq(Items) /\ x \in Items
  BY DEF TypeOK, Controls, Other
<1>2. /\ Len(<<x>> \o todo) = Len(todo) + 1 /\ Len(todo) \in Nat
      /\ (<<x>> \o todo)[1] = x
      /\ \A i \in 2..Len(todo) + 1 : (<<x>> \o todo)[i] = todo[i - 1]
  BY <1>1
<1>3. PICK i \in 1..Len(todo) + 1 :
        (<<x>> \o todo)[i] \in {"do_shutdown", "unwrap"}
  BY <1>2 DEF InShutdown
<1>4. i # 1
  BY <1>2, <1>3 DEF Other
<1>5. i - 1 \in 1..Len(todo) /\ todo[i - 1] \in {"do_shutdown", "unwrap"}
  BY <1>2, <1>3, <1>4
<1> QED
  BY <1>5 DEF InShutdown

\* What an exception leaves was there.
LEMMA RaisedBelow ==
    ASSUME TypeOK, todo # <<>>, Raise(Tail(todo)), InShutdown(todo')
    PROVE  InShutdown(todo)
<1>1. todo \in Seq(Items)
  BY DEF TypeOK, Controls
<1>2. CASE todo' = <<>>
  BY <1>2 DEF InShutdown
<1>3. ASSUME NEW k \in 2..Len(todo) + 1, todo' = SubSeq(todo, k, Len(todo))
      PROVE  InShutdown(todo)
  <2>1. \A i \in 1..Len(todo') :
          i + k - 1 \in 2..Len(todo) /\ todo'[i] = todo[i + k - 1]
    BY <1>1, <1>3, Left
  <2>2. PICK i \in 1..Len(todo') : todo'[i] \in {"do_shutdown", "unwrap"}
    BY DEF InShutdown
  <2>3. i + k - 1 \in 1..Len(todo) /\ todo[i + k - 1] = todo'[i]
    BY <2>1
  <2> QED
    BY <2>2, <2>3 DEF InShutdown
<1> QED
  BY <1>2, <1>3, Raised

\* What is put on the stack and is not part of _do_shutdown().
LEMMA Others ==
    {"after_read", "call_eof", "connection_made", "control_app_writing",
     "control_ssl_reading", "data_received", "do_flush", "do_handshake",
     "do_read", "end_read", "eof_received", "flush_write", "flushed",
     "handshake_failed", "on_handshake_complete", "pause_writing",
     "resume_writing", "resumed", "returns", "shutdown_complete",
     "start_shutdown", "wakeup_waiter", "written"} \subseteq Other
  BY DEF Other, Items, Callbacks, HandshakeItems

\* The stacks of these.
LEMMA Short ==
    /\ <<>> \in Seq(Other)
    /\ \A x \in Other : <<x>> \in Seq(Other)
    /\ \A x, y \in Other : <<x, y>> \in Seq(Other)
    /\ \A v, x, y, z \in Other : <<v, x, y, z>> \in Seq(Other)
  OBVIOUS

\* _do_shutdown() comes onto the stack in SHUTDOWN, or when all is flushed.
LEMMA StackStep ==
    ASSUME IInv, [Next]_vars, InShutdown(todo')
    PROVE  \/ InShutdown(todo) \/ state = "SHUTDOWN"
           \/ EndFlush /\ Flushed /\ state = "FLUSHING"
<1> USE Others
<1>0. TypeOK
  BY DEF IInv
<1>1. ASSUME todo # <<>>,
             \/ Then(<<>>) \/ \E x \in Other : Then(<<x>>)
             \/ \E x, y \in Other : Then(<<x, y>>)
             \/ \E t \in Seq(Other) : Then(t)
      PROVE  InShutdown(todo)
  BY <1>0, <1>1, ThenBelow
<1>2. CASE HandshakeAgain \/ HandshakeDone \/ HandshakeFails
  BY <1>1, <1>2 DEF HandshakeAgain, HandshakeDone, HandshakeFails, Runs
<1>3. CASE OnHandshakeComplete
  BY <1>1, <1>3 DEF OnHandshakeComplete, Runs
<1>4. CASE WakeupWaiter \/ OnHandshakeFailed \/ ReadNothing \/ ReadFails
  BY <1>1, <1>4 DEF WakeupWaiter, OnHandshakeFailed, ReadNothing, ReadFails,
                    Reading, Runs
<1>5. ASSUME NEW n \in 0..Len(incoming), Read(n) PROVE InShutdown(todo)
  <2>1. todo # <<>>
    BY <1>5 DEF Read, Reading, Runs
  <2>2. PICK s \in {<<"data_received">>, <<>>},
             t \in {<<"call_eof", "start_shutdown", "after_read", "end_read">>,
                    <<"after_read", "end_read">>} : Then(s \o t)
    BY <1>5 DEF Read
  <2>3. s \in Seq(Other) /\ t \in Seq(Other)
    <3>1. <<>> \in Seq(Other) /\ <<"data_received">> \in Seq(Other)
      BY Short
    <3>2. <<"after_read", "end_read">> \in Seq(Other)
      BY Short
    <3>3. <<"call_eof", "start_shutdown", "after_read", "end_read">> \in Seq(Other)
      BY Short
    <3> QED
      BY <3>1, <3>2, <3>3
  <2>4. s \o t \in Seq(Other)
    BY <2>3
  <2> QED
    BY <1>1, <2>1, <2>2, <2>4
<1>6. CASE WriteOut \/ ControlSSLReading \/ CallEof
  BY <1>1, <1>6 DEF WriteOut, ControlSSLReading, CallEof, Runs
<1>7. CASE ControlAppWriting \/ ResumedWriting
  BY <1>1, <1>7, Controlled DEF ResumedWriting, Runs
<1>8. CASE StartShutdown
  BY <1>1, <1>8 DEF StartShutdown, Runs
<1>9. CASE DoFlush
  <2>1. todo # <<>>
    BY <1>9 DEF DoFlush, Runs
  <2>2. PICK s \in {<<"call_eof">>, <<>>} : Then(s \o <<"flush_write", "flushed">>)
    BY <1>9 DEF DoFlush, IntoVoid
  <2>3. s \in Seq(Other) /\ <<"flush_write", "flushed">> \in Seq(Other)
    BY Short
  <2>4. s \o <<"flush_write", "flushed">> \in Seq(Other)
    BY <2>3
  <2> QED
    BY <1>1, <2>1, <2>2, <2>4
<1>10. CASE Runs("do_shutdown") \/ Runs("unwrap")
  <2>1. todo \in Seq(Items)
    BY <1>0 DEF TypeOK, Controls
  <2>2. todo # <<>> /\ Head(todo) \in {"do_shutdown", "unwrap"}
    BY <1>10 DEF Runs
  <2>3. 1 \in 1..Len(todo) /\ todo[1] = Head(todo)
    BY <2>1, <2>2
  <2> QED
    BY <2>2, <2>3 DEF InShutdown
<1>11. CASE DoShutdown \/ Unwrap
  BY <1>10, <1>11 DEF DoShutdown, Unwrap
<1>12. CASE VoidFails \/ ShutdownComplete \/ UserReturns \/ Returns \/ Written
  BY <1>1, <1>12 DEF VoidFails, ShutdownComplete, UserReturns, Returns, Written,
                     Runs, Idle
<1>13. CASE EndFlush
  <2>1. todo # <<>>
    BY <1>13 DEF EndFlush, Runs
  <2>2. CASE Then(<<>>)
    BY <1>1, <2>1, <2>2
  <2>3. CASE Raise(Tail(todo))
    BY <1>0, <2>1, <2>3, RaisedBelow
  <2> QED
    BY <1>13, <2>2, <2>3 DEF EndFlush
<1>14. CASE UserRaises
  <2>1. todo # <<>>
    BY <1>14 DEF UserRaises, Runs
  <2>2. CASE Then(<<>>)
    BY <1>1, <2>1, <2>2
  <2>3. CASE Raise(Tail(todo))
    BY <1>0, <2>1, <2>3, RaisedBelow
  <2> QED
    BY <1>14, <2>2, <2>3 DEF UserRaises
<1>15. ASSUME WriteData \/ Close \/ \E l \in WriteLimits : SetWriteLimits(l)
       PROVE  InShutdown(todo)
  BY <1>0, <1>15, CalledBelow DEF WriteData, Close, SetWriteLimits
<1>16. ASSUME NEW t \in Seq(Other), todo' = t PROVE FALSE
  <2>1. \A i \in 1..Len(t) : t[i] \in Other
    OBVIOUS
  <2> QED
    BY <1>16, <2>1 DEF InShutdown, Other
<1>17. CASE CancelledCloses \/ RunDoRead
  <2>1. <<"start_shutdown">> \in Seq(Other) /\ <<"do_read">> \in Seq(Other)
    <3>1. "start_shutdown" \in Other /\ "do_read" \in Other
      OBVIOUS
    <3> QED
      BY <3>1
  <2> QED
    BY <1>16, <1>17, <2>1 DEF CancelledCloses, RunDoRead
<1>18. ASSUME NEW x \in Other, NEW y \in Other,
              todo' = <<x>> \o <<y>> \/ todo' = <<>> \o <<y>>
       PROVE  FALSE
  <2>1. <<x>> \o <<y>> \in Seq(Other) /\ <<>> \o <<y>> \in Seq(Other)
    OBVIOUS
  <2> QED
    BY <1>16, <1>18, <2>1
<1>19. ASSUME NEW s \in Chunks, BufferUpdated(s), state # "SHUTDOWN" PROVE FALSE
  <2>1. todo' \in {<<"do_handshake">> \o <<"returns">>, <<"do_read">> \o <<"returns">>,
                   <<"do_flush">> \o <<"returns">>, <<>> \o <<"returns">>}
    BY <1>19 DEF BufferUpdated
  <2> QED
    BY <1>18, <2>1
<1>20. CASE Drain /\ state # "SHUTDOWN"
  <2>1. todo' \in {<<"resumed">> \o <<"written">>, <<"do_flush">> \o <<"written">>,
                   <<>> \o <<"written">>}
    BY <1>20 DEF Drain
  <2> QED
    BY <1>18, <2>1
<1>21. CASE EofReceived
  <2>1. <<"handshake_failed", "returns">> \in Seq(Other)
    <3>1. "handshake_failed" \in Other /\ "returns" \in Other
      OBVIOUS
    <3> QED
      BY <3>1
  <2>2. todo' = <<"handshake_failed", "returns">> \/ todo' = todo
    BY <1>21 DEF EofReceived
  <2> QED
    BY <1>16, <2>1, <2>2
<1>22. CASE todo' = todo
  BY <1>22
<1>23. CASE HandshakeTimeout \/ ShutdownTimeout \/ UserAborts \/ PauseReading
            \/ ResumeReading \/ CancelWait \/ TransportFails \/ ConnectionLost
            \/ RunLost
  BY <1>22, <1>23 DEF HandshakeTimeout, ShutdownTimeout, UserAborts,
     PauseReading, ResumeReading, CancelWait, TransportFails, ConnectionLost,
     RunLost
<1>24. ASSUME NEW l \in ReadLimits, SetReadLimits(l) PROVE InShutdown(todo)
  BY <1>22, <1>24 DEF SetReadLimits
<1>25. CASE UNCHANGED vars
  BY <1>22, <1>25 DEF vars
<1> QED
  BY <1>2, <1>3, <1>4, <1>5, <1>6, <1>7, <1>8, <1>9, <1>11, <1>12, <1>13,
     <1>14, <1>15, <1>17, <1>19, <1>20, <1>21, <1>23, <1>24, <1>25
     DEF Next, Code, User

-----------------------------------------------------------------------------
(* What _process_outgoing() sends                                           *)

\* The types that the proofs about the bytes use.
LEMMA FlushTypes ==
    ASSUME IInv
    PROVE  /\ outgoing \in Seq({"handshake", "app", "close"})
           /\ backlog \in Nat /\ written \in Nat /\ todo \in Seq(Items)
           /\ sentClose \in BOOLEAN /\ cut \in BOOLEAN
           /\ tr \in {"open", "closing", "ending", "gone"}
  BY DEF IInv, TypeOK, Controls, Data, Flags

\* The bytes in the transport and in the BIO.
LEMMA Parts ==
    ASSUME IInv, SentInv
    PROVE  /\ Payload(outgoing) \in Seq({"app", "close"})
           /\ Sent \in Seq({"app", "close"})
           /\ HasClose(Sent) <=> HasClose(wire) \/ HasClose(Payload(outgoing))
           /\ wire \o <<>> = wire
<1>1. Payload(outgoing) \in Seq({"app", "close"})
  <2>1. <<>> \in Seq({"app", "close"})
    OBVIOUS
  <2> QED
    BY <2>1, FlushTypes, PayloadOfMore DEF SentInv
<1>2. wire \in Seq({"app", "close"})
  BY DEF SentInv
<1> QED
  BY <1>1, <1>2, CloseInParts, ConcatEmptySeq DEF Sent

\* Either all that was written in addition, e, is sent or kept, or nothing is.
LEMMA ProcessSends ==
    ASSUME IInv, SentInv, tr # "gone", UNCHANGED tr,
           NEW e \in Seq({"app", "close"}),
           NEW out \in Seq({"handshake", "app", "close"}), FirstOnly(out),
           Payload(out) = Payload(outgoing) \o e,
           Process(out)
    PROVE  /\ wire' \in Seq({"app", "close"})
           /\ FirstOnly(outgoing') /\ outgoing' \in {out, <<>>}
           /\ \/ Kept /\ Sent' = Sent \o e
              \/ ~Kept /\ ~Kept' /\ Sent' = wire
<1>1. /\ Payload(<<>>) = <<>> /\ FirstOnly(<<>>)
  BY DEF Payload, FirstOnly
<1>2. /\ wire \in Seq({"app", "close"}) /\ Payload(outgoing) \in Seq({"app", "close"})
      /\ wire \o <<>> = wire
  BY Parts DEF SentInv
<1>3. Payload(out) \in Seq({"app", "close"})
  BY <1>2, CloseInParts
<1>4. wire \o Payload(out) = Sent \o e
  BY <1>2, ConcatAssociative DEF Sent
<1>5. wire \o Payload(out) \in Seq({"app", "close"})
  BY <1>2, <1>3, CloseInParts
<1>6. CASE out = <<>> \/ "ssl writing" \in paused
  <2>1. outgoing' = out /\ UNCHANGED <<paused, wire>>
    BY <1>6 DEF Process
  <2>2. Sent' = Sent \o e
    BY <2>1, <1>4 DEF Sent
  <2>3. CASE Kept
    BY <2>1, <2>2, <2>3, <1>2
  <2>4. CASE ~Kept
    <3>1. out = <<>>
      BY <2>4, <1>6 DEF Kept
    <3>2. Sent' = wire
      BY <3>1, <2>1, <1>1, <1>2 DEF Sent
    <3> QED
      BY <3>2, <2>1, <2>4, <1>2 DEF Kept
  <2> QED
    BY <2>3, <2>4
<1>7. CASE out # <<>> /\ "ssl writing" \notin paused /\ tr \in {"open", "closing"}
  <2>1. outgoing' = <<>> /\ wire' = wire \o Payload(out)
    BY <1>7 DEF Process
  <2>2. wire' \o <<>> = wire'
    BY <2>1, <1>5, ConcatEmptySeq
  <2> QED
    BY <2>1, <2>2, <1>1, <1>4, <1>5, <1>7 DEF Sent, Kept
<1>8. CASE out # <<>> /\ "ssl writing" \notin paused /\ tr \notin {"open", "closing"}
  <2>1. outgoing' = <<>> /\ UNCHANGED <<paused, wire>>
    BY <1>8 DEF Process
  <2> QED
    BY <2>1, <1>1, <1>2, <1>8 DEF Sent, Kept
<1> QED
  BY <1>6, <1>7, <1>8

\* What the transport has accepted is as good as what was written.
LEMMA Dropped ==
    ASSUME IInv, SentInv, HasClose(wire)
    PROVE  /\ HasClose(Sent)
           /\ ~cut => wire = Sent
<1>1. /\ Payload(outgoing) \in Seq({"app", "close"}) /\ HasClose(Sent)
      /\ wire \o <<>> = wire /\ wire \in Seq({"app", "close"})
  BY Parts DEF SentInv
<1>2. ASSUME ~cut PROVE wire = Sent
  <2>1. wire \o Payload(outgoing) = Apps(written) \o <<"close">>
    BY <1>1, <1>2 DEF SentInv, Sent, Finished
  <2>2. Payload(outgoing) = <<>>
    BY <1>1, <2>1, NothingBehind, FlushTypes
  <2> QED
    BY <2>2, <1>1 DEF Sent
<1> QED
  BY <1>1, <1>2

\* Methods that write or send none of the application's bytes.
LEMMA SentNothing ==
    ASSUME IInv, SentInv, Sent' \in {Sent, wire},
           wire' \in Seq({"app", "close"}), FirstOnly(outgoing'),
           state' = "DO_HANDSHAKE" => Payload(outgoing') = <<>>,
           Kept' => Kept /\ Sent' = Sent,
           UNCHANGED <<backlog, written>>, cut => cut', sentClose => sentClose'
    PROVE  SentInv'
<1>1. HasClose(Sent') => HasClose(Sent) /\ (~cut => Sent' = Sent)
  BY Dropped
<1>2. HasClose(Sent') => sentClose'
  BY <1>1 DEF SentInv
<1>3. Kept' /\ ~HasClose(Sent') => Whole'
  BY DEF SentInv, Whole, Apps
<1>4. HasClose(Sent') /\ ~cut' => Finished'
  BY <1>1 DEF SentInv, Finished, Apps
<1> QED
  BY <1>2, <1>3, <1>4 DEF SentInv

\* _do_write() adds the bytes that wait to those that were sent.
LEMMA WroteSends ==
    ASSUME FlushInv, tr # "gone", UNCHANGED <<tr, state, sentClose, cut>>,
           NEW n \in Nat, Process(Wrote(n)), backlog' = BacklogLeft(n),
           \/ n = backlog /\ written' = written
           \/ n = backlog + 1 /\ written' = written + 1 /\ state = "WRAPPED",
           state # "DO_HANDSHAKE"
    PROVE  SentInv'
<1> DEFINE e == IF busy THEN <<>> ELSE Apps(n)
<1>1. /\ IInv /\ SentInv /\ ShutInv /\ backlog \in Nat /\ written \in Nat
      /\ outgoing \in Seq({"handshake", "app", "close"})
      /\ FirstOnly(outgoing)
  BY FlushTypes DEF FlushInv, SentInv
<1>2. e \in Seq({"app", "close"}) /\ ~HasClose(e)
  <2>1. e \in {Apps(0), Apps(n)}
    BY AppsFacts
  <2> QED
    BY <2>1, AppsFacts
<1>3. Wrote(n) = outgoing \o e
  <2>1. outgoing \o <<>> = outgoing
    BY <1>1
  <2> QED
    BY <2>1 DEF Wrote, Apps
<1> HIDE DEF e
<1>4. /\ Wrote(n) \in Seq({"handshake", "app", "close"}) /\ FirstOnly(Wrote(n))
      /\ Payload(Wrote(n)) = Payload(outgoing) \o e
  BY <1>1, <1>2, <1>3, PayloadOfMore
<1>5. /\ wire' \in Seq({"app", "close"}) /\ FirstOnly(outgoing')
      /\ \/ Kept /\ Sent' = Sent \o e
         \/ ~Kept /\ ~Kept' /\ Sent' = wire
  BY <1>1, <1>2, <1>4, ProcessSends
<1>6. Sent \in Seq({"app", "close"})
  BY <1>1, Parts
<1>7. HasClose(Sent') => HasClose(Sent)
  <2>1. HasClose(Sent \o e) <=> HasClose(Sent)
    BY <1>2, <1>6, CloseInParts
  <2> QED
    BY <2>1, <1>1, <1>5, Dropped
<1>8. Kept' /\ ~HasClose(Sent') => Whole'
  <2> SUFFICES ASSUME Kept', ~HasClose(Sent') PROVE Whole'
    OBVIOUS
  <2>1. Kept /\ Sent' = Sent \o e
    BY <1>5
  <2>2. ~HasClose(Sent)
    BY <2>1, <1>2, <1>6, CloseInParts
  <2>3. backlog <= written /\ Sent = Apps(written - backlog)
    BY <2>1, <2>2, <1>1 DEF SentInv, Whole
  <2>4. CASE busy
    <3>1. e = <<>> /\ backlog' = n
      BY <2>4 DEF e, BacklogLeft
    <3>2. Sent' = Sent
      BY <3>1, <2>1, <1>6
    <3>3. n <= written' /\ written' - n = written - backlog
      BY <1>1, <2>3
    <3> QED
      BY <3>1, <3>2, <3>3, <2>3 DEF Whole, Apps
  <2>5. CASE ~busy
    <3>1. e = Apps(n) /\ backlog' = 0
      BY <2>5 DEF e, BacklogLeft
    <3>2. written - backlog \in Nat /\ (written - backlog) + n = written'
          /\ written' \in Nat /\ written' - 0 = written'
      BY <1>1, <2>3
    <3>3. Sent' = Apps(written')
      BY <3>1, <3>2, <2>1, <2>3, AppsFacts
    <3> QED
      BY <3>1, <3>2, <3>3 DEF Whole, Apps
  <2> QED
    BY <2>4, <2>5
<1>9. HasClose(Sent') => sentClose'
  BY <1>1, <1>7 DEF SentInv
<1>10. HasClose(Sent') /\ ~cut' => Finished'
  <2> SUFFICES ASSUME HasClose(Sent'), ~cut' PROVE Finished'
    OBVIOUS
  <2>1. HasClose(Sent) /\ sentClose /\ Finished
    BY <1>1, <1>7 DEF SentInv
  <2>2. backlog = 0 /\ state # "WRAPPED"
    BY <2>1, <1>1 DEF ShutInv, Done
  <2>3. written' = written /\ n = 0
    BY <2>2
  <2>4. e = <<>>
    BY <2>3, AppsFacts DEF e
  <2>5. Sent' = Sent
    <3>1. CASE Sent' = Sent \o e
      BY <3>1, <2>4, <1>6
    <3>2. CASE Sent' = wire
      BY <3>2, <1>1, Dropped
    <3> QED
      BY <3>1, <3>2, <1>5
  <2> QED
    BY <2>1, <2>3, <2>5 DEF Finished, Apps
<1> QED
  BY <1>5, <1>8, <1>9, <1>10 DEF SentInv

\* unwrap() writes close_notify behind all that was written, and once.
LEMMA UnwrapSends ==
    ASSUME FlushInv, Unwrap
    PROVE  SentInv'
<1>1. /\ IInv /\ SentInv /\ ShutInv /\ backlog \in Nat /\ written \in Nat
      /\ outgoing \in Seq({"handshake", "app", "close"})
      /\ FirstOnly(outgoing) /\ todo \in Seq(Items)
  BY FlushTypes DEF FlushInv, SentInv
<1>2. /\ Process(IF sentClose THEN outgoing ELSE Append(outgoing, "close"))
      /\ sentClose' = TRUE /\ todo # <<>> /\ Head(todo) = "unwrap"
      /\ UNCHANGED <<tr, state, backlog, written, cut>>
  BY DEF Unwrap, Runs, histVars
<1>3. tr # "gone"
  BY <1>1, <1>2, Quiet DEF IInv
<1>4. state \in Done /\ (cut \/ backlog = 0)
  <2>1. 1 \in 1..Len(todo) /\ todo[1] = Head(todo)
    BY <1>1, <1>2
  <2>2. InShutdown(todo)
    BY <2>1, <1>2 DEF InShutdown
  <2> QED
    BY <2>2, <1>1 DEF ShutInv
<1>5. Sent \in Seq({"app", "close"})
  BY <1>1, Parts
<1>6. CASE sentClose
  <2>1. /\ outgoing \o <<>> = outgoing /\ <<>> \in Seq({"app", "close"})
        /\ Payload(outgoing) \o <<>> = Payload(outgoing)
        /\ Sent \o <<>> = Sent
    BY <1>1, <1>5, Parts, ConcatEmptySeq
  <2>2. /\ wire' \in Seq({"app", "close"}) /\ FirstOnly(outgoing')
        /\ \/ Kept /\ Sent' = Sent
           \/ ~Kept /\ ~Kept' /\ Sent' = wire
    BY <1>1, <1>2, <1>3, <1>6, <2>1, ProcessSends
  <2> QED
    BY <1>1, <1>2, <1>4, <2>2, SentNothing DEF Done
<1>7. CASE ~sentClose
  <2> DEFINE e == <<"close">>
  <2>1. e \in Seq({"app", "close"}) /\ Append(outgoing, "close") = outgoing \o e
    BY <1>1
  <2>2. HasClose(e)
    BY DEF HasClose
  <2> HIDE DEF e
  <2>3. /\ outgoing \o e \in Seq({"handshake", "app", "close"})
        /\ FirstOnly(outgoing \o e)
        /\ Payload(outgoing \o e) = Payload(outgoing) \o e
        /\ Process(outgoing \o e)
    BY <1>1, <1>2, <1>7, <2>1, PayloadOfMore
  <2>4. /\ wire' \in Seq({"app", "close"}) /\ FirstOnly(outgoing')
        /\ \/ Kept /\ Sent' = Sent \o e
           \/ ~Kept /\ ~Kept' /\ Sent' = wire
    BY <1>1, <1>2, <1>3, <2>1, <2>3, ProcessSends
  <2>5. ~HasClose(Sent)
    BY <1>1, <1>7 DEF SentInv
  <2>6. CASE Kept /\ Sent' = Sent \o e
    <3>1. HasClose(Sent')
      BY <2>1, <2>2, <2>6, <1>5, CloseInParts
    <3>2. ~cut => Finished'
      <4> SUFFICES ASSUME ~cut PROVE Finished'
        OBVIOUS
      <4>1. backlog = 0 /\ Sent = Apps(written - backlog)
        BY <1>1, <1>4, <2>5, <2>6 DEF SentInv, Whole
      <4>2. Sent = Apps(written)
        BY <1>1, <4>1
      <4> QED
        BY <1>2, <2>6, <4>2 DEF Finished, Apps, e
    <3> QED
      BY <1>2, <1>4, <2>4, <3>1, <3>2 DEF SentInv, Done
  <2>7. CASE ~Kept' /\ Sent' = wire
    <3>1. ~HasClose(Sent')
      BY <1>1, <2>5, <2>7, Dropped
    <3> QED
      BY <1>2, <1>4, <2>4, <2>7, <3>1 DEF SentInv, Done
  <2> QED
    BY <2>4, <2>6, <2>7
<1> QED
  BY <1>6, <1>7

-----------------------------------------------------------------------------
(* The steps of the shutdown                                                *)

\* What the stack, the flags and the state have to do with a shutdown.
Begun == state = "SHUTDOWN" \/ sentClose \/ InShutdown(todo)

\* _do_flush() goes on to SHUTDOWN when nothing waits.
LEMMA FlushEnds ==
    ASSUME IInv, EndFlush
    PROVE  /\ UNCHANGED <<backlog, outgoing, wire, written, sentClose, cut, paused>>
           /\ state' \in {state, "SHUTDOWN", "UNWRAPPED"}
           /\ state' = "SHUTDOWN" => state = "SHUTDOWN" \/ Flushed
           /\ state \in Done => state' \in Done
           /\ Flushed /\ state = "FLUSHING" => state' = "SHUTDOWN"
           /\ Flushed => backlog = 0
           /\ tr' \in {tr, Forced}
           /\ state # "DO_HANDSHAKE"
<1>1. /\ TypeOK /\ todo # <<>> /\ Head(todo) = "flushed" /\ todo \in Seq(Items)
      /\ backlog \in Nat /\ Len(outgoing) \in Nat
  <2>1. TypeOK /\ todo # <<>> /\ Head(todo) = "flushed"
    BY DEF IInv, EndFlush, Runs
  <2> QED
    BY <2>1, FlushTypes
<1>2. UNCHANGED <<backlog, outgoing, wire, written, sentClose, cut, paused>>
  BY DEF EndFlush, flowVars, outVars, sslVars, histVars
<1>3. Flushed => backlog = 0
  BY <1>1 DEF Flushed, WriteSize
<1>4. state # "DO_HANDSHAKE"
  BY <1>1, Shaking DEF IInv, HandshakeItems
<1>5. CASE ~Flushed /\ UNCHANGED <<state, tr>>
  BY <1>2, <1>3, <1>4, <1>5
<1>6. CASE Flushed /\ state = "FLUSHING" /\ state' = "SHUTDOWN" /\ UNCHANGED tr
  BY <1>2, <1>3, <1>4, <1>6 DEF Done
<1>7. CASE Flushed /\ state # "FLUSHING" /\ Raise(Tail(todo))
  <2>1. state' \in {state, "UNWRAPPED"} /\ tr' \in {tr, Forced}
    BY <1>1, <1>7, Raised
  <2> QED
    BY <1>2, <1>3, <1>4, <1>7, <2>1 DEF Done
<1> QED
  BY <1>5, <1>6, <1>7 DEF EndFlush

\* close_notify waits for the backlog, whatever happens.
LEMMA ShutStep ==
    ASSUME IInv, ShutInv, [Next]_vars
    PROVE  ShutInv'
<1> SUFFICES ASSUME Begun' PROVE state' \in Done /\ (cut' \/ backlog' = 0)
  BY DEF ShutInv, Begun
<1>1. Begun => state \in Done /\ (cut \/ backlog = 0)
  BY DEF ShutInv, Begun
<1>2. InShutdown(todo') => Begun \/ (EndFlush /\ Flushed /\ state = "FLUSHING")
  BY StackStep DEF Begun
<1>3. CASE Untouched /\ ~EndFlush
  <2>1. (state' = "SHUTDOWN" /\ cut') \/ Begun
    BY <1>2, <1>3 DEF Begun, Untouched
  <2>2. CASE state' = "SHUTDOWN" /\ cut'
    BY <2>2 DEF Done
  <2>3. CASE Begun
    BY <2>3, <1>1, <1>3 DEF Untouched
  <2> QED
    BY <2>1, <2>2, <2>3
<1>4. ASSUME UNCHANGED <<state, sentClose, cut>>, ~EndFlush,
             backlog = 0 => backlog' = 0
      PROVE  state' \in Done /\ (cut' \/ backlog' = 0)
  BY <1>1, <1>2, <1>4 DEF Begun
<1>5. CASE HandshakeAgain \/ HandshakeDone \/ ResumedWriting
  <2>1. UNCHANGED <<state, sentClose, cut, backlog>>
    BY <1>5 DEF HandshakeAgain, HandshakeDone, ResumedWriting, sslVars, histVars
  <2>2. ~EndFlush
    BY <1>5 DEF HandshakeAgain, HandshakeDone, ResumedWriting, EndFlush, Runs
  <2> QED
    BY <2>1, <2>2, <1>4
<1>6. CASE WriteOut
  <2>1. UNCHANGED <<state, sentClose, cut>> /\ backlog' = BacklogLeft(backlog)
    BY <1>6 DEF WriteOut, sslVars, histVars
  <2>2. ~EndFlush
    BY <1>6 DEF WriteOut, EndFlush, Runs
  <2> QED
    BY <2>1, <2>2, <1>4 DEF BacklogLeft
<1>7. CASE EndFlush
  <2>1. CASE Begun
    BY <2>1, <1>1, <1>7, FlushEnds
  <2>2. CASE ~Begun
    <3>1. ~sentClose' /\ state # "SHUTDOWN"
      BY <2>2, <1>7, FlushEnds DEF Begun
    <3>2. state' = "SHUTDOWN" /\ Flushed
      BY <2>2, <3>1, <1>2, <1>7, FlushEnds DEF Begun
    <3> QED
      BY <3>2, <1>7, FlushEnds DEF Done
  <2> QED
    BY <2>1, <2>2
<1>8. CASE Unwrap
  <2>1. todo \in Seq(Items) /\ todo # <<>> /\ Head(todo) = "unwrap"
    BY <1>8, FlushTypes DEF Unwrap, Runs
  <2>2. 1 \in 1..Len(todo) /\ todo[1] = "unwrap"
    BY <2>1
  <2>3. Begun
    BY <2>2 DEF Begun, InShutdown
  <2>4. UNCHANGED <<state, cut, backlog>>
    BY <1>8 DEF Unwrap, histVars
  <2> QED
    BY <2>3, <2>4, <1>1
<1>9. CASE WriteData
  <2>1. state = "WRAPPED" /\ UNCHANGED <<state, sentClose>>
    BY <1>9 DEF WriteData, sslVars
  <2>2. ~Begun
    BY <2>1, <1>1 DEF Done
  <2>3. FALSE
    BY <2>1, <2>2, <1>2 DEF Begun
  <2> QED
    BY <2>3
<1>10. CASE ConnectionLost
  <2>1. state' = "UNWRAPPED" /\ UNCHANGED <<sentClose, cut, backlog, todo>>
    BY <1>10 DEF ConnectionLost, sslVars, histVars
  <2>2. Begun
    BY <2>1 DEF Begun
  <2> QED
    BY <2>1, <2>2, <1>1 DEF Done
<1> QED
  BY UntouchedSteps, <1>3, <1>5, <1>6, <1>7, <1>8, <1>9, <1>10

\* do_handshake() replaces what it wrote, which is no payload.
LEMMA HandshakeSends ==
    ASSUME FlushInv, HandshakeAgain \/ HandshakeDone
    PROVE  SentInv'
<1>1. /\ IInv /\ SentInv /\ outgoing \in Seq({"handshake", "app", "close"})
      /\ FirstOnly(outgoing) /\ todo \in Seq(Items)
      /\ todo # <<>> /\ Head(todo) = "do_handshake"
  BY FlushTypes DEF FlushInv, SentInv, HandshakeAgain, HandshakeDone, Runs
<1>2. tr # "gone"
  BY <1>1, Quiet DEF IInv
<1>3. state = "DO_HANDSHAKE"
  <2>1. 1 \in 1..Len(todo) /\ todo[1] = "do_handshake"
    BY <1>1
  <2> QED
    BY <1>1, <2>1 DEF IInv, HandshakeInv, HandshakeItems
<1>4. Payload(outgoing) = <<>>
  BY <1>1, <1>3 DEF SentInv
<1>5. ASSUME NEW out \in {outgoing, <<"handshake">>}
      PROVE  /\ out \in Seq({"handshake", "app", "close"})
             /\ FirstOnly(out) /\ Payload(out) = <<>>
  <2>1. /\ <<"handshake">> \in Seq({"handshake", "app", "close"})
        /\ <<"handshake">> # <<>> /\ Head(<<"handshake">>) = "handshake"
        /\ Tail(<<"handshake">>) = <<>> /\ Len(<<"handshake">>) = 1
    OBVIOUS
  <2>2. FirstOnly(<<"handshake">>)
    BY <2>1 DEF FirstOnly
  <2>3. Payload(<<"handshake">>) = <<>>
    BY <2>1 DEF Payload
  <2>4. CASE out = outgoing
    BY <1>1, <1>4, <2>4
  <2>5. CASE out = <<"handshake">>
    BY <2>1, <2>2, <2>3, <2>5
  <2> QED
    BY <1>5, <2>4, <2>5
<1>6. Payload(<<>>) = <<>>
  BY DEF Payload
<1>7. Sent \in Seq({"app", "close"}) /\ wire \in Seq({"app", "close"})
      /\ <<>> \in Seq({"app", "close"}) /\ Sent \o <<>> = Sent
      /\ <<>> \o <<>> = <<>>
  <2>1. Sent \in Seq({"app", "close"}) /\ wire \in Seq({"app", "close"})
    BY <1>1, Parts DEF SentInv
  <2> QED
    BY <2>1
<1>8. CASE HandshakeAgain
  <2>1. PICK out \in {outgoing, <<"handshake">>} : Process(out)
    BY <1>8 DEF HandshakeAgain
  <2>2. UNCHANGED <<tr, state, backlog, written, cut, sentClose>>
    BY <1>8 DEF HandshakeAgain, histVars, sslVars
  <2>3. Payload(out) = Payload(outgoing) \o <<>>
    BY <1>4, <1>5, <1>7
  <2>4. /\ wire' \in Seq({"app", "close"})
        /\ FirstOnly(outgoing') /\ outgoing' \in {out, <<>>}
        /\ \/ Kept /\ Sent' = Sent
           \/ ~Kept /\ ~Kept' /\ Sent' = wire
    BY <1>1, <1>2, <1>5, <1>7, <2>1, <2>2, <2>3, ProcessSends
  <2>5. Payload(outgoing') = <<>>
    BY <2>4, <1>5, <1>6
  <2> QED
    BY <1>1, <2>2, <2>4, <2>5, SentNothing
<1>9. CASE HandshakeDone
  <2>1. /\ outgoing' \in {outgoing, <<"handshake">>}
        /\ UNCHANGED <<tr, wire, paused, state, backlog, written, cut, sentClose>>
    BY <1>9 DEF HandshakeDone, flowVars, trVars, histVars, sslVars
  <2>2. FirstOnly(outgoing') /\ Payload(outgoing') = <<>>
    BY <2>1, <1>5
  <2>3. Sent' = Sent
    BY <2>1, <2>2, <1>4 DEF Sent
  <2>4. Kept' = Kept
    BY <2>1 DEF Kept
  <2> QED
    BY <1>1, <1>7, <2>1, <2>2, <2>3, <2>4, SentNothing
<1> QED
  BY <1>8, <1>9

\* What was sent is right after every step.
LEMMA SentStep ==
    ASSUME FlushInv, [Next]_vars
    PROVE  SentInv'
<1>1. /\ IInv /\ SentInv /\ ShutInv /\ backlog \in Nat
      /\ outgoing \in Seq({"handshake", "app", "close"})
      /\ FirstOnly(outgoing) /\ wire \in Seq({"app", "close"})
  BY FlushTypes DEF FlushInv, SentInv
<1>2. CASE Untouched
  <2>1. Sent' = Sent /\ FirstOnly(outgoing') /\ wire' \in Seq({"app", "close"})
    BY <1>1, <1>2 DEF Untouched, Sent, Payload
  <2>2. state' = "DO_HANDSHAKE" => Payload(outgoing') = <<>>
    BY <1>1, <1>2 DEF Untouched, SentInv, Payload
  <2> QED
    BY <1>1, <1>2, <2>1, <2>2, SentNothing DEF Untouched
<1>3. CASE HandshakeAgain \/ HandshakeDone
  BY <1>3, HandshakeSends
<1>4. CASE WriteOut
  <2>1. /\ todo # <<>> /\ Head(todo) \in {"after_read", "flush_write"}
        /\ Process(Wrote(backlog)) /\ backlog' = BacklogLeft(backlog)
        /\ UNCHANGED <<tr, state, sentClose, cut, written>>
    BY <1>4 DEF WriteOut, Runs, sslVars, histVars
  <2>2. tr # "gone"
    BY <1>1, <2>1, Quiet DEF IInv
  <2>3. state # "DO_HANDSHAKE"
    BY <1>1, <2>1, Shaking DEF IInv, HandshakeItems
  <2> QED
    BY <1>1, <2>1, <2>2, <2>3, WroteSends
<1>5. CASE ResumedWriting
  <2>1. /\ todo # <<>> /\ Head(todo) = "resumed" /\ Process(outgoing)
        /\ UNCHANGED <<tr, state, sentClose, cut, backlog, written>>
    BY <1>5 DEF ResumedWriting, Runs, sslVars, histVars
  <2>2. tr # "gone"
    BY <1>1, <2>1, Quiet DEF IInv
  <2>3. state # "DO_HANDSHAKE"
    BY <1>1, <2>1, Shaking DEF IInv, HandshakeItems
  <2>4. /\ Payload(outgoing) \o <<>> = Payload(outgoing)
        /\ Sent \o <<>> = Sent /\ <<>> \in Seq({"app", "close"})
    BY <1>1, Parts, ConcatEmptySeq
  <2>5. /\ wire' \in Seq({"app", "close"}) /\ FirstOnly(outgoing')
        /\ \/ Kept /\ Sent' = Sent
           \/ ~Kept /\ ~Kept' /\ Sent' = wire
    BY <1>1, <2>1, <2>2, <2>4, ProcessSends
  <2> QED
    BY <1>1, <2>1, <2>3, <2>5, SentNothing
<1>6. CASE EndFlush
  <2>1. /\ UNCHANGED <<backlog, outgoing, wire, written, sentClose, cut, paused>>
        /\ tr' \in {tr, Forced} /\ state' # "DO_HANDSHAKE"
    BY <1>1, <1>6, FlushEnds
  <2>2. Sent' = Sent /\ FirstOnly(outgoing')
    BY <1>1, <2>1 DEF Sent, Payload
  <2>3. Kept' => Kept
    BY <2>1 DEF Kept, Forced
  <2> QED
    BY <1>1, <2>1, <2>2, <2>3, SentNothing
<1>7. CASE Unwrap
  BY <1>7, UnwrapSends
<1>8. CASE WriteData
  <2>1. /\ state = "WRAPPED" /\ written' = written + 1
        /\ Process(Wrote(backlog + 1)) /\ backlog' = BacklogLeft(backlog + 1)
        /\ UNCHANGED <<tr, state, sentClose, cut>>
    BY <1>8 DEF WriteData, sslVars
  <2>2. tr # "gone"
    BY <1>1, <2>1 DEF IInv, GoneInv
  <2>3. backlog + 1 \in Nat
    BY <1>1
  <2> QED
    BY <1>1, <2>1, <2>2, <2>3, WroteSends
<1>9. CASE ConnectionLost
  <2>1. /\ tr' = "gone" /\ outgoing' = <<>> /\ state' = "UNWRAPPED"
        /\ UNCHANGED <<backlog, written, wire, sentClose, cut>>
    BY <1>9 DEF ConnectionLost, sslVars, histVars
  <2>2. ~Kept'
    BY <2>1 DEF Kept
  <2>3. Payload(<<>>) = <<>> /\ FirstOnly(<<>>) /\ wire \o <<>> = wire
    BY <1>1, Parts DEF Payload, FirstOnly
  <2>4. Sent' = wire
    BY <2>1, <2>3 DEF Sent
  <2> QED
    BY <1>1, <2>1, <2>2, <2>3, <2>4, SentNothing
<1> QED
  BY <1>1, UntouchedSteps, <1>2, <1>3, <1>4, <1>5, <1>6, <1>7, <1>8, <1>9

\* The strengthened invariant holds at first.
LEMMA FlushInit == ASSUME Init PROVE FlushInv
<1>1. /\ todo = <<"do_handshake", "returns">> /\ state = "DO_HANDSHAKE"
      /\ ~sentClose /\ backlog = 0 /\ written = 0 /\ outgoing = <<>> /\ wire = <<>>
  BY DEF Init
<1>2. IInv
  BY InitInv
<1>3. ~InShutdown(todo)
  <2>1. /\ Len(<<"do_handshake", "returns">>) = 2
        /\ \A i \in 1..2 :
             <<"do_handshake", "returns">>[i] \in {"do_handshake", "returns"}
    OBVIOUS
  <2> QED
    BY <1>1, <2>1 DEF InShutdown
<1>4. ShutInv
  BY <1>1, <1>3 DEF ShutInv
<1>5. /\ Payload(<<>>) = <<>> /\ FirstOnly(<<>>) /\ ~HasClose(<<>>)
      /\ <<>> \o <<>> = <<>> /\ <<>> \in Seq({"app", "close"})
  BY DEF Payload, FirstOnly, HasClose
<1>6. Sent = <<>>
  BY <1>1, <1>5 DEF Sent
<1>7. Whole
  <2>1. Apps(0) = <<>> /\ written - backlog = 0 /\ backlog <= written
    BY <1>1, AppsFacts
  <2> QED
    BY <1>6, <2>1 DEF Whole
<1> QED
  BY <1>1, <1>2, <1>4, <1>5, <1>6, <1>7 DEF FlushInv, SentInv

\* ... and every step keeps it.
LEMMA FlushStep == ASSUME FlushInv, [Next]_vars PROVE FlushInv'
<1>1. IInv /\ ShutInv
  BY DEF FlushInv
<1> QED
  BY <1>1, InvStep, ShutStep, SentStep DEF FlushInv

\* Between the application and the transport no byte is lost, repeated or
\* moved: what was sent and what waits are all that was accepted, unless the
\* transport dropped it, and close_notify waits for the backlog (SSLProtocol).
THEOREM FlushInvariance == Spec => []FlushInv
  BY FlushInit, FlushStep, PTL DEF Spec

\* close_notify goes behind all the bytes that were accepted and in front of
\* none, whoever holds them back and whichever callback closes (_do_flush(),
\* _do_shutdown()), unless the peer cut the connection.
THEOREM FlushesFirst == Spec => []FlushedFirst
<1>1. FlushInv => FlushedFirst
  BY DEF FlushInv, SentInv, Finished, Sent, Apps, FlushedFirst
<1> QED
  BY <1>1, FlushInvariance, PTL

-----------------------------------------------------------------------------
(* Flow control never stops for good                                        *)

\* No high-water mark is 0, and there is a highest of them, which is the
\* default.  With set_read_buffer_limits(high=0) the theorem fails.
HasDefault(limits) == \E l \in limits : \A k \in limits : k[1] <= l[1]
Positive(limits) == \A l \in limits : l[1] > 0
PositiveLimits ==
    /\ HasDefault(ReadLimits) /\ Positive(ReadLimits)
    /\ HasDefault(WriteLimits) /\ Positive(WriteLimits)

\* What raises is caught by the _do_read() that called it, which aborts, or by
\* the transport, which closes.
Catcher(x) == IF x = "data_received" THEN "end_read" ELSE "returns"
Caught(s) ==
    \A i \in 1..Len(s) : s[i] \in {"data_received", "connection_made"} =>
        \E j \in i+1..Len(s) :
            /\ s[j] = Catcher(s[i])
            /\ \A k \in i+1..j-1 : s[k] \notin Catchers

Has(s, S) == \E i \in 1..Len(s) : s[i] \in S

\* The methods that read what has come, and those that then may write, pause
\* and resume.
Decrypts == {"do_read", "wakeup_waiter"}
Reopens == Decrypts \union {"end_read"}
Encrypts == Decrypts \union {"after_read"}
Sends == Encrypts \union {"resumed"}
Resumes == Sends \union {"control_app_writing"}

\* Nothing is scheduled that would read, and the application has not paused.
Live ==
    /\ state = "WRAPPED" /\ tr = "open" /\ reads = 0
    /\ "app reading" \notin paused

\* Whatever waits then, waits for the peer or for a method on the stack.
Waits ==
    /\ outgoing # <<>> /\ "ssl writing" \notin paused => Has(todo, Sends)
    /\ backlog > 0 /\ ~busy => Has(todo, Encrypts)
    /\ "app writing" \in paused /\ "ssl writing" \notin paused /\ ~busy =>
         Has(todo, Resumes)
    /\ incoming # <<>> => Has(todo, Decrypts)
    /\ "ssl reading" \in paused => Has(todo, Reopens)

LimitsInv == readLimits \in ReadLimits /\ writeLimits \in WriteLimits

FlowInv == FlushInv /\ LimitsInv /\ Caught(todo) /\ (Live => Waits)

\* What is below the method that goes on stays, and what it puts there comes.
LEMMA HasStays ==
    ASSUME NEW s \in Seq(Items), s # <<>>, NEW t \in Seq(Items), NEW S
    PROVE  /\ Head(s) \notin S /\ Has(s, S) => Has(t \o Tail(s), S)
           /\ Has(t, S) => Has(t \o Tail(s), S)
<1> DEFINE n == t \o Tail(s)
<1>1. /\ Head(s) = s[1] /\ Len(s) \in Nat \ {0} /\ Len(t) \in Nat
      /\ Len(n) = Len(t) + Len(s) - 1
      /\ \A i \in 1..Len(t) : n[i] = t[i]
      /\ \A i \in Len(t)+1..Len(t) + Len(s) - 1 : n[i] = s[i - Len(t) + 1]
  BY Pushed
<1> HIDE DEF n
<1>2. ASSUME Head(s) \notin S, Has(s, S) PROVE Has(n, S)
  <2>1. PICK i \in 1..Len(s) : s[i] \in S
    BY <1>2 DEF Has
  <2>2. i # 1
    BY <2>1, <1>1, <1>2
  <2>3. PICK k \in Len(t)+1..Len(t) + Len(s) - 1 : k - Len(t) + 1 = i
    <3> DEFINE k == i - 1 + Len(t)
    <3>1. k \in Len(t)+1..Len(t) + Len(s) - 1 /\ k - Len(t) + 1 = i
      BY <2>1, <2>2, <1>1
    <3> QED
      BY <3>1
  <2>4. n[k] = s[i] /\ k \in 1..Len(n)
    BY <2>3, <1>1
  <2> QED
    BY <2>1, <2>4 DEF Has
<1>3. ASSUME Has(t, S) PROVE Has(n, S)
  <2>1. PICK i \in 1..Len(t) : t[i] \in S
    BY <1>3 DEF Has
  <2>2. n[i] \in S /\ i \in 1..Len(n)
    BY <2>1, <1>1
  <2> QED
    BY <2>2 DEF Has
<1> QED
  BY <1>2, <1>3 DEF n

\* The same of a call from the application's code.
LEMMA HasCalled ==
    ASSUME NEW s \in Seq(Items), NEW x \in Items, NEW S
    PROVE  /\ Has(s, S) => Has(<<x>> \o s, S)
           /\ x \in S => Has(<<x>> \o s, S)
<1>1. /\ Len(<<x>> \o s) = Len(s) + 1 /\ Len(s) \in Nat
      /\ (<<x>> \o s)[1] = x
      /\ \A i \in 1..Len(s) : (<<x>> \o s)[i + 1] = s[i]
  OBVIOUS
<1>2. ASSUME NEW i \in 1..Len(s), s[i] \in S PROVE Has(<<x>> \o s, S)
  <2>1. i + 1 \in 1..Len(<<x>> \o s) /\ (<<x>> \o s)[i + 1] \in S
    BY <1>1, <1>2
  <2> QED
    BY <2>1 DEF Has
<1>3. ASSUME x \in S PROVE Has(<<x>> \o s, S)
  <2>1. 1 \in 1..Len(<<x>> \o s) /\ (<<x>> \o s)[1] \in S
    BY <1>1, <1>3
  <2> QED
    BY <2>1 DEF Has
<1> QED
  BY <1>2, <1>3 DEF Has

-----------------------------------------------------------------------------
(* Who catches what the application's callbacks raise                       *)

\* A method that goes on leaves the catchers below it.
LEMMA CaughtOn ==
    ASSUME NEW s \in Seq(Items), s # <<>>, Caught(s),
           NEW t \in Seq(Items), Caught(t)
    PROVE  Caught(t \o Tail(s))
<1> DEFINE n == t \o Tail(s)
<1>1. /\ Len(s) \in Nat \ {0} /\ Len(t) \in Nat
      /\ Len(n) = Len(t) + Len(s) - 1
      /\ \A i \in 1..Len(t) : n[i] = t[i]
      /\ \A i \in Len(t)+1..Len(t) + Len(s) - 1 : n[i] = s[i - Len(t) + 1]
  BY Pushed
<1> HIDE DEF n
<1> SUFFICES ASSUME NEW i \in 1..Len(n),
                    n[i] \in {"data_received", "connection_made"}
             PROVE  \E j \in i+1..Len(n) :
                      /\ n[j] = Catcher(n[i])
                      /\ \A k \in i+1..j-1 : n[k] \notin Catchers
  BY DEF Caught, n
<1>2. CASE i <= Len(t)
  <2>1. i \in 1..Len(t) /\ n[i] = t[i]
    BY <1>1, <1>2
  <2>2. PICK j \in i+1..Len(t) :
          t[j] = Catcher(t[i]) /\ \A k \in i+1..j-1 : t[k] \notin Catchers
    BY <2>1 DEF Caught
  <2>3. j \in i+1..Len(n) /\ n[j] = t[j]
    BY <2>1, <2>2, <1>1
  <2>4. \A k \in i+1..j-1 : n[k] = t[k]
    BY <2>1, <2>2, <1>1
  <2> QED
    BY <2>1, <2>2, <2>3, <2>4
<1>3. CASE i > Len(t)
  <2>1. PICK l \in 2..Len(s) : l = i - Len(t) + 1 /\ n[i] = s[l]
    <3>1. i \in Len(t)+1..Len(t) + Len(s) - 1 /\ i - Len(t) + 1 \in 2..Len(s)
      BY <1>1, <1>3
    <3>2. n[i] = s[i - Len(t) + 1]
      BY <3>1, <1>1
    <3> QED
      BY <3>1, <3>2
  <2>2. PICK m \in l+1..Len(s) :
          s[m] = Catcher(s[l]) /\ \A k \in l+1..m-1 : s[k] \notin Catchers
    <3>1. l \in 1..Len(s) /\ s[l] \in {"data_received", "connection_made"}
      BY <2>1, <1>1
    <3> QED
      BY <3>1 DEF Caught
  <2> DEFINE j == m + Len(t) - 1
  <2>3. j \in i+1..Len(n) /\ n[j] = s[m]
    <3>1. j \in Len(t)+1..Len(t) + Len(s) - 1 /\ j - Len(t) + 1 = m /\ j \in i+1..Len(n)
      BY <2>1, <2>2, <1>1
    <3> QED
      BY <3>1, <1>1
  <2>4. ASSUME NEW k \in i+1..j-1 PROVE n[k] \notin Catchers
    <3>1. /\ k \in Len(t)+1..Len(t) + Len(s) - 1
          /\ k - Len(t) + 1 \in l+1..m-1
      BY <2>1, <2>2, <1>1
    <3> QED
      BY <3>1, <2>2, <1>1
  <2> QED
    BY <2>1, <2>2, <2>3, <2>4
<1> QED
  BY <1>2, <1>3, <1>1

\* So does a call from inside a callback ...
LEMMA CaughtCalled ==
    ASSUME NEW s \in Seq(Items), Caught(s),
           NEW x \in Items \ {"data_received", "connection_made"}
    PROVE  Caught(<<x>> \o s)
<1> DEFINE n == <<x>> \o s
<1>1. /\ Len(n) = Len(s) + 1 /\ Len(s) \in Nat /\ n[1] = x
      /\ \A i \in 1..Len(s) : n[i + 1] = s[i]
  OBVIOUS
<1>2. \A i \in 2..Len(n) : n[i] = s[i - 1]
  <2> TAKE i \in 2..Len(n)
  <2>1. i - 1 \in 1..Len(s) /\ (i - 1) + 1 = i
    BY <1>1
  <2> QED
    BY <2>1, <1>1
<1> HIDE DEF n
<1> SUFFICES ASSUME NEW i \in 1..Len(n),
                    n[i] \in {"data_received", "connection_made"}
             PROVE  \E j \in i+1..Len(n) :
                      /\ n[j] = Catcher(n[i])
                      /\ \A k \in i+1..j-1 : n[k] \notin Catchers
  BY DEF Caught, n
<1>3. i - 1 \in 1..Len(s) /\ n[i] = s[i - 1]
  <2>1. i # 1
    BY <1>1
  <2> QED
    BY <2>1, <1>1, <1>2
<1>4. PICK m \in i..Len(s) :
        s[m] = Catcher(s[i - 1]) /\ \A k \in i..m-1 : s[k] \notin Catchers
  BY <1>3 DEF Caught
<1>5. m + 1 \in i+1..Len(n) /\ n[m + 1] = s[m]
  BY <1>1, <1>3, <1>4
<1>6. ASSUME NEW k \in i+1..m PROVE n[k] \notin Catchers
  <2>1. k - 1 \in i..m-1 /\ k \in 2..Len(n) /\ n[k] = s[k - 1]
    BY <1>1, <1>2, <1>3, <1>4
  <2> QED
    BY <2>1, <1>4
<1>7. (m + 1) - 1 = m
  BY <1>4
<1> QED
  BY <1>3, <1>4, <1>5, <1>6, <1>7

\* ... and an exception.
LEMMA CaughtLeft ==
    ASSUME NEW s \in Seq(Items), Caught(s), NEW k \in 2..Len(s) + 1
    PROVE  Caught(SubSeq(s, k, Len(s)))
<1> DEFINE n == SubSeq(s, k, Len(s))
<1>1. /\ Len(n) = Len(s) - k + 1 /\ Len(s) \in Nat
      /\ \A i \in 1..Len(n) : i + k - 1 \in 2..Len(s) /\ n[i] = s[i + k - 1]
  BY Left
<1> HIDE DEF n
<1> SUFFICES ASSUME NEW i \in 1..Len(n),
                    n[i] \in {"data_received", "connection_made"}
             PROVE  \E j \in i+1..Len(n) :
                      /\ n[j] = Catcher(n[i])
                      /\ \A l \in i+1..j-1 : n[l] \notin Catchers
  BY DEF Caught, n
<1>2. PICK h \in 2..Len(s) : h = i + k - 1 /\ n[i] = s[h]
  BY <1>1
<1>3. PICK m \in h+1..Len(s) :
        s[m] = Catcher(s[h]) /\ \A l \in h+1..m-1 : s[l] \notin Catchers
  BY <1>2 DEF Caught
<1> DEFINE j == m - k + 1
<1>4. j \in i+1..Len(n) /\ n[j] = s[m]
  <2>1. j \in i+1..Len(n) /\ j \in 1..Len(n) /\ j + k - 1 = m
    BY <1>1, <1>2, <1>3
  <2> QED
    BY <2>1, <1>1
<1>5. ASSUME NEW l \in i+1..j-1 PROVE n[l] \notin Catchers
  <2>1. l \in 1..Len(n) /\ l + k - 1 \in h+1..m-1
    BY <1>1, <1>2, <1>3
  <2> QED
    BY <2>1, <1>1, <1>3
<1> QED
  BY <1>2, <1>3, <1>4, <1>5

\* data_received() or connection_made() raises: WRAPPED or the transport ends.
LEMMA RaiseEnds ==
    ASSUME TypeOK, Caught(todo), Runs("data_received") \/ Runs("connection_made"),
           Raise(Tail(todo))
    PROVE  state' # "WRAPPED" \/ tr' # "open"
<1>1. /\ todo \in Seq(Items) /\ todo # <<>>
      /\ Head(todo) \in {"data_received", "connection_made"}
  BY DEF TypeOK, Controls, Runs
<1> DEFINE rest == Tail(todo)
<1>2. /\ Len(rest) = Len(todo) - 1 /\ Len(todo) \in Nat \ {0}
      /\ \A i \in 1..Len(todo) - 1 : rest[i] = todo[i + 1]
      /\ Head(todo) = todo[1]
  BY <1>1, Pushed
<1> HIDE DEF rest
<1>3. PICK j \in 2..Len(todo) :
        todo[j] = Catcher(todo[1]) /\ \A k \in 2..j-1 : todo[k] \notin Catchers
  BY <1>1, <1>2 DEF Caught
<1>4. todo[j] \in {"end_read", "returns"}
  BY <1>3 DEF Catcher
<1>5. /\ j - 1 \in 1..Len(rest) /\ rest[j - 1] = todo[j]
      /\ rest[j - 1] \in {"end_read", "returns"} /\ rest[j - 1] \in Catchers
  <2>1. j - 1 \in 1..Len(rest) /\ (j - 1) + 1 = j
    BY <1>2, <1>3
  <2> QED
    BY <2>1, <1>2, <1>4 DEF Catchers
<1>6. PICK i \in 1..Len(rest) :
        /\ rest[i] \in Catchers
        /\ \A k \in 1..i-1 : rest[k] \notin Catchers
        /\ state' = IF rest[i] = "end_read" THEN "UNWRAPPED" ELSE state
        /\ rest[i] \in {"end_read", "returns"} => tr' = Forced
  BY <1>5 DEF Raise, rest
<1>7. i = j - 1
  <2>1. ~(i > j - 1)
    BY <1>5, <1>6
  <2>2. ~(i < j - 1)
    <3> SUFFICES ASSUME i < j - 1 PROVE FALSE
      OBVIOUS
    <3>1. i + 1 \in 2..j-1 /\ rest[i] = todo[i + 1]
      BY <1>2, <1>3
    <3> QED
      BY <3>1, <1>3, <1>6
  <2> QED
    BY <2>1, <2>2, <1>2
<1> QED
  BY <1>5, <1>6, <1>7 DEF Forced

\* What is put on the stack and calls no application code that can raise.
Harmless == Items \ {"data_received", "connection_made"}

\* These are harmless one by one and together.
LEMMA HarmlessFacts ==
    /\ {"after_read", "call_eof", "control_app_writing", "control_ssl_reading",
        "do_flush", "do_handshake", "do_read", "do_shutdown", "end_read",
        "eof_received", "flush_write", "flushed", "handshake_failed",
        "on_handshake_complete", "pause_writing", "resume_writing", "resumed",
        "returns", "shutdown_complete", "start_shutdown", "unwrap",
        "wakeup_waiter", "written"} \subseteq Harmless
    /\ <<>> \in Seq(Harmless)
    /\ \A x \in Harmless : <<x>> \in Seq(Harmless)
    /\ \A x, y \in Harmless : <<x, y>> \in Seq(Harmless)
    /\ \A v, x, y, z \in Harmless : <<v, x, y, z>> \in Seq(Harmless)
<1>1. /\ <<>> \in Seq(Harmless)
      /\ \A x \in Harmless : <<x>> \in Seq(Harmless)
      /\ \A x, y \in Harmless : <<x, y>> \in Seq(Harmless)
      /\ \A v, x, y, z \in Harmless : <<v, x, y, z>> \in Seq(Harmless)
  OBVIOUS
<1> QED
  BY <1>1 DEF Harmless, Items, Callbacks, HandshakeItems

\* Where nothing raises, nothing need be caught.
LEMMA CaughtHarmless ==
    ASSUME NEW t \in Seq(Harmless)
    PROVE  t \in Seq(Items) /\ Caught(t)
<1>1. \A i \in 1..Len(t) : t[i] \in Harmless
  OBVIOUS
<1>2. t \in Seq(Items)
  BY DEF Harmless
<1> QED
  BY <1>1, <1>2 DEF Caught, Harmless

\* A method goes on.
LEMMA CaughtThen ==
    ASSUME TypeOK, Caught(todo), todo # <<>>
    PROVE  /\ Then(<<>>) => Caught(todo')
           /\ \A x \in Harmless : Then(<<x>>) => Caught(todo')
           /\ \A x, y \in Harmless : Then(<<x, y>>) => Caught(todo')
           /\ \A t \in Seq(Harmless) : Then(t) => Caught(todo')
<1>1. todo \in Seq(Items)
  BY DEF TypeOK, Controls
<1>2. ASSUME NEW t \in Seq(Harmless), Then(t) PROVE Caught(todo')
  BY <1>1, <1>2, CaughtHarmless, CaughtOn DEF Then
<1> QED
  BY <1>2, HarmlessFacts

\* _do_read() calls data_received(), and aborts when that raises.
LEMMA CaughtByRead ==
    ASSUME TypeOK, Caught(todo), NEW n \in 0..Len(incoming), Read(n)
    PROVE  Caught(todo')
<1>1. todo # <<>> /\ todo \in Seq(Items)
  BY DEF Read, Reading, Runs, TypeOK, Controls
<1>2. PICK a \in {<<"data_received">>, <<>>},
           b \in {<<"call_eof", "start_shutdown", "after_read", "end_read">>,
                  <<"after_read", "end_read">>} : Then(a \o b)
  BY DEF Read
<1>3. b \in Seq(Harmless)
  <2>1. <<"after_read", "end_read">> \in Seq(Harmless)
    BY HarmlessFacts
  <2>2. <<"call_eof", "start_shutdown", "after_read", "end_read">> \in Seq(Harmless)
    BY HarmlessFacts
  <2> QED
    BY <2>1, <2>2
<1>4. /\ Len(b) \in Nat \ {0} /\ b[Len(b)] = "end_read"
      /\ \A i \in 1..Len(b) - 1 : b[i] \notin Catchers
  <2>1. /\ Len(<<"after_read", "end_read">>) = 2
        /\ <<"after_read", "end_read">>[1] = "after_read"
        /\ <<"after_read", "end_read">>[2] = "end_read"
    OBVIOUS
  <2>2. /\ Len(<<"call_eof", "start_shutdown", "after_read", "end_read">>) = 4
        /\ <<"call_eof", "start_shutdown", "after_read", "end_read">>[1] = "call_eof"
        /\ <<"call_eof", "start_shutdown", "after_read", "end_read">>[2]
             = "start_shutdown"
        /\ <<"call_eof", "start_shutdown", "after_read", "end_read">>[3] = "after_read"
        /\ <<"call_eof", "start_shutdown", "after_read", "end_read">>[4] = "end_read"
    OBVIOUS
  <2>3. CASE b = <<"after_read", "end_read">>
    BY <2>1, <2>3 DEF Catchers, Callbacks
  <2>4. CASE b = <<"call_eof", "start_shutdown", "after_read", "end_read">>
    <3>1. \A i \in 1..3 : i = 1 \/ i = 2 \/ i = 3
      OBVIOUS
    <3> QED
      BY <2>2, <2>4, <3>1 DEF Catchers, Callbacks
  <2> QED
    BY <2>3, <2>4
<1>5. CASE a = <<>>
  <2>1. a \o b = b
    BY <1>3, <1>5
  <2> QED
    BY <1>1, <1>2, <1>3, <2>1, CaughtThen
<1>6. CASE a = <<"data_received">>
  <2>1. b \in Seq(Items) /\ "data_received" \in Items
    BY <1>3, CaughtHarmless DEF Items, Callbacks
  <2> DEFINE m == <<"data_received">> \o b
  <2>2. /\ m \in Seq(Items) /\ Len(m) = Len(b) + 1 /\ m[1] = "data_received"
        /\ \A i \in 1..Len(b) : m[i + 1] = b[i]
    BY <2>1
  <2>3. \A i \in 2..Len(m) : m[i] = b[i - 1]
    <3> TAKE i \in 2..Len(m)
    <3>1. i - 1 \in 1..Len(b) /\ (i - 1) + 1 = i
      BY <1>4, <2>2
    <3> QED
      BY <3>1, <2>2
  <2>4. Then(m)
    BY <1>2, <1>6
  <2> HIDE DEF m
  <2>5. \A i \in 2..Len(m) : m[i] \in Harmless
    <3> TAKE i \in 2..Len(m)
    <3>1. i - 1 \in 1..Len(b)
      BY <1>4, <2>2
    <3> QED
      BY <3>1, <2>3, <1>3
  <2>6. /\ Len(m) \in 2..Len(m) /\ m[Len(m)] = "end_read"
        /\ \A k \in 2..Len(m) - 1 : m[k] \notin Catchers
    <3>1. Len(m) \in 2..Len(m) /\ Len(m) - 1 = Len(b)
      BY <1>4, <2>2
    <3>2. m[Len(m)] = "end_read"
      BY <3>1, <2>3, <1>4
    <3>3. \A k \in 2..Len(m) - 1 : k \in 2..Len(m) /\ k - 1 \in 1..Len(b) - 1
      BY <3>1
    <3> QED
      BY <3>1, <3>2, <3>3, <2>3, <1>4
  <2>7. Caught(m)
    <3> SUFFICES ASSUME NEW i \in 1..Len(m),
                        m[i] \in {"data_received", "connection_made"}
                 PROVE  \E j \in i+1..Len(m) :
                          /\ m[j] = Catcher(m[i])
                          /\ \A k \in i+1..j-1 : m[k] \notin Catchers
      BY DEF Caught
    <3>1. i = 1
      <4>1. i \in 2..Len(m) => m[i] \in Harmless
        BY <2>5
      <4>2. i = 1 \/ i \in 2..Len(m)
        BY <2>6
      <4> QED
        BY <4>1, <4>2 DEF Harmless
    <3> QED
      BY <3>1, <2>2, <2>6 DEF Catcher
  <2> QED
    BY <1>1, <2>2, <2>4, <2>7, CaughtOn DEF Then
<1> QED
  BY <1>5, <1>6

\* The transport's callback in which the handshake ends catches what
\* connection_made() raises.
LEMMA CaughtByHandshake ==
    ASSUME IInv, Caught(todo), OnHandshakeComplete
    PROVE  Caught(todo')
<1>1. /\ TypeOK /\ todo # <<>> /\ Head(todo) = "on_handshake_complete"
      /\ todo \in Seq(Items)
  BY DEF IInv, TypeOK, Controls, OnHandshakeComplete, Runs
<1>2. Tail(todo) = <<"returns">>
  <2>1. todo[1] = Head(todo) /\ 1 \in 1..Len(todo)
    BY <1>1
  <2>2. todo \in Starting
    BY <1>1, <2>1 DEF IInv, HandshakeInv, HandshakeItems
  <2> QED
    BY <1>1, <2>2, AtStart
<1>3. CASE Then(<<"wakeup_waiter">>)
  BY <1>1, <1>3, CaughtThen, HarmlessFacts
<1>4. CASE Then(<<"connection_made", "wakeup_waiter">>)
  <2> DEFINE t == <<"connection_made", "wakeup_waiter">>
             m == t \o <<"returns">>
  <2>1. todo' = m
    BY <1>2, <1>4 DEF Then
  <2>2. /\ t \in Seq(Items) /\ Len(t) = 2 /\ t[1] = "connection_made"
        /\ t[2] = "wakeup_waiter"
    BY Fixed
  <2>3. /\ <<"returns">> \in Seq(Items) /\ Len(<<"returns">>) = 1
        /\ <<"returns">>[1] = "returns"
    BY DEF Items
  <2> HIDE DEF t
  <2>4. /\ Len(m) = 3 /\ m[1] = "connection_made" /\ m[2] = "wakeup_waiter"
        /\ m[3] = "returns"
    <3> DEFINE r == <<"returns">>
    <3>1. r \in Seq(Items) /\ Len(r) = 1 /\ r[1] = "returns" /\ m = t \o r
      BY <2>3
    <3> HIDE DEF r, m
    <3>2. /\ Len(t \o r) = Len(t) + Len(r)
          /\ \A i \in 1..Len(t) + Len(r) :
               (t \o r)[i] = IF i <= Len(t) THEN t[i] ELSE r[i - Len(t)]
      BY <2>2, <3>1, ConcatProperties
    <3>3. (t \o r)[1] = t[1] /\ (t \o r)[2] = t[2] /\ (t \o r)[3] = r[1]
      BY <2>2, <3>1, <3>2
    <3> QED
      BY <2>2, <3>1, <3>2, <3>3
  <2> HIDE DEF m
  <2>5. "wakeup_waiter" \notin Catchers
    BY DEF Catchers, Callbacks
  <2>6. Caught(m)
    <3> SUFFICES ASSUME NEW i \in 1..3,
                        m[i] \in {"data_received", "connection_made"}
                 PROVE  \E j \in i+1..3 :
                          /\ m[j] = Catcher(m[i])
                          /\ \A k \in i+1..j-1 : m[k] \notin Catchers
      BY <2>4 DEF Caught
    <3>1. i = 1
      BY <2>4
    <3>2. 3 \in i+1..3 /\ \A k \in i+1..3-1 : k = 2
      BY <3>1
    <3>3. m[3] = Catcher(m[i])
      BY <3>1, <2>4 DEF Catcher
    <3> QED
      BY <3>2, <3>3, <2>4, <2>5
  <2> QED
    BY <2>1, <2>6
<1> QED
  BY <1>3, <1>4 DEF OnHandshakeComplete

\* An exception leaves catchers for those below.
LEMMA CaughtRaise ==
    ASSUME TypeOK, Caught(todo), todo # <<>>, Raise(Tail(todo))
    PROVE  Caught(todo')
<1>1. todo \in Seq(Items) /\ Caught(<<>>)
  BY DEF TypeOK, Controls, Caught
<1> QED
  BY <1>1, Raised, CaughtLeft

\* Every step leaves somebody to catch what is raised.
LEMMA CaughtStep ==
    ASSUME IInv, Caught(todo), [Next]_vars
    PROVE  Caught(todo')
<1> USE HarmlessFacts
<1>0. TypeOK /\ todo \in Seq(Items)
  BY DEF IInv, TypeOK, Controls
<1>1. ASSUME todo # <<>>,
             \/ Then(<<>>) \/ \E x \in Harmless : Then(<<x>>)
             \/ \E x, y \in Harmless : Then(<<x, y>>)
             \/ \E t \in Seq(Harmless) : Then(t)
      PROVE  Caught(todo')
  BY <1>0, <1>1, CaughtThen
<1>2. CASE HandshakeAgain \/ HandshakeDone \/ HandshakeFails
  BY <1>1, <1>2 DEF HandshakeAgain, HandshakeDone, HandshakeFails, Runs
<1>3. CASE OnHandshakeComplete
  BY <1>3, CaughtByHandshake
<1>4. CASE WakeupWaiter \/ OnHandshakeFailed \/ ReadNothing \/ ReadFails
  BY <1>1, <1>4 DEF WakeupWaiter, OnHandshakeFailed, ReadNothing, ReadFails,
                    Reading, Runs
<1>5. ASSUME NEW n \in 0..Len(incoming), Read(n) PROVE Caught(todo')
  BY <1>0, <1>5, CaughtByRead
<1>6. CASE WriteOut \/ ControlSSLReading \/ CallEof
  BY <1>1, <1>6 DEF WriteOut, ControlSSLReading, CallEof, Runs
<1>7. CASE ControlAppWriting \/ ResumedWriting
  BY <1>1, <1>7, Controlled DEF ResumedWriting, Runs
<1>8. CASE StartShutdown
  BY <1>1, <1>8 DEF StartShutdown, Runs
<1>9. CASE DoFlush \/ DoShutdown
  <2>1. todo # <<>>
    BY <1>9 DEF DoFlush, DoShutdown, Runs
  <2>2. PICK s \in {<<"call_eof">>, <<>>},
             t \in {<<"flush_write", "flushed">>, <<"unwrap">>} : Then(s \o t)
    BY <1>9 DEF DoFlush, DoShutdown, IntoVoid
  <2>3. s \in Seq(Harmless) /\ t \in Seq(Harmless)
    <3>1. <<"call_eof">> \in Seq(Harmless) /\ <<>> \in Seq(Harmless)
      OBVIOUS
    <3>2. <<"flush_write", "flushed">> \in Seq(Harmless)
      OBVIOUS
    <3>3. <<"unwrap">> \in Seq(Harmless)
      OBVIOUS
    <3> QED
      BY <3>1, <3>2, <3>3
  <2>4. s \o t \in Seq(Harmless)
    BY <2>3
  <2> QED
    BY <1>1, <2>1, <2>2, <2>4
<1>10. CASE Unwrap
  BY <1>1, <1>10 DEF Unwrap, Runs
<1>11. CASE VoidFails \/ ShutdownComplete \/ UserReturns \/ Returns \/ Written
  BY <1>1, <1>11 DEF VoidFails, ShutdownComplete, UserReturns, Returns, Written,
                     Runs, Idle
<1>12. CASE EndFlush \/ UserRaises
  <2>1. todo # <<>>
    BY <1>12 DEF EndFlush, UserRaises, Runs
  <2>2. Then(<<>>) \/ Then(<<"do_shutdown">>) \/ Raise(Tail(todo))
    BY <1>12 DEF EndFlush, UserRaises
  <2>3. CASE Raise(Tail(todo))
    BY <1>0, <2>1, <2>3, CaughtRaise
  <2> QED
    BY <1>1, <2>1, <2>2, <2>3
<1>13. CASE WriteData \/ Close \/ \E l \in WriteLimits : SetWriteLimits(l)
  <2>1. PICK x \in {"control_app_writing", "start_shutdown"} :
          todo' = <<x>> \o todo
    BY <1>13 DEF WriteData, Close, SetWriteLimits
  <2>2. x \in Items \ {"data_received", "connection_made"}
    BY DEF Harmless
  <2> QED
    BY <1>0, <2>1, <2>2, CaughtCalled
<1>14. ASSUME NEW t \in Seq(Harmless), todo' = t PROVE Caught(todo')
  BY <1>14, CaughtHarmless
<1>15. CASE CancelledCloses \/ RunDoRead \/ EofReceived
  <2>1. \/ todo' \in {<<"start_shutdown">>, <<"do_read">>,
                      <<"handshake_failed", "returns">>}
        \/ todo' = todo
    BY <1>15 DEF CancelledCloses, RunDoRead, EofReceived
  <2> QED
    BY <1>14, <2>1
<1>16. CASE Drain \/ \E s \in Chunks : BufferUpdated(s)
  <2>1. PICK y \in {"written", "returns"},
             a \in {<<>>, <<"resumed">>, <<"do_flush">>, <<"do_shutdown">>,
                    <<"do_handshake">>, <<"do_read">>} : todo' = a \o <<y>>
    BY <1>0, <1>16 DEF Drain, BufferUpdated, TypeOK, Controls
  <2>2. a \in Seq(Harmless) /\ <<y>> \in Seq(Harmless)
    OBVIOUS
  <2>3. a \o <<y>> \in Seq(Harmless)
    BY <2>2
  <2> QED
    BY <1>14, <2>1, <2>3
<1>17. CASE HandshakeTimeout \/ ShutdownTimeout \/ UserAborts \/ PauseReading
            \/ ResumeReading \/ CancelWait \/ TransportFails \/ ConnectionLost
            \/ RunLost
  BY <1>17 DEF HandshakeTimeout, ShutdownTimeout, UserAborts,
     PauseReading, ResumeReading, CancelWait, TransportFails, ConnectionLost,
     RunLost
<1>18. ASSUME NEW l \in ReadLimits, SetReadLimits(l) PROVE Caught(todo')
  BY <1>18 DEF SetReadLimits
<1>19. CASE UNCHANGED vars
  BY <1>19 DEF vars
<1> QED
  BY <1>2, <1>3, <1>4, <1>5, <1>6, <1>7, <1>8, <1>9, <1>10, <1>11, <1>12,
     <1>13, <1>15, <1>16, <1>17, <1>18, <1>19 DEF Next, Code, User

-----------------------------------------------------------------------------
(* What waits                                                               *)

\* Whoever was on the stack for what waits is still there.
Below ==
    \A S \in {Sends, Encrypts, Resumes, Decrypts, Reopens} :
        Has(todo, S) => Has(todo', S)

\* A method goes on for which nothing waits.
LEMMA BelowThen ==
    ASSUME TypeOK, todo # <<>>, Head(todo) \notin Resumes \union {"end_read"},
           NEW t \in Seq(Items), Then(t)
    PROVE  Below
<1>1. todo \in Seq(Items) /\ todo' = t \o Tail(todo)
  BY DEF TypeOK, Controls, Then
<1>2. \A S \in {Sends, Encrypts, Resumes, Decrypts, Reopens} : Head(todo) \notin S
  BY DEF Sends, Encrypts, Resumes, Decrypts, Reopens
<1> QED
  BY <1>1, <1>2, HasStays DEF Below

\* The application calls a method.
LEMMA BelowCalled ==
    ASSUME TypeOK, NEW x \in Items, todo' = <<x>> \o todo
    PROVE  Below /\ \A S : x \in S => Has(todo', S)
<1>1. todo \in Seq(Items)
  BY DEF TypeOK, Controls
<1> QED
  BY <1>1, HasCalled DEF Below

\* Nothing is on an empty stack.
LEMMA NothingRuns ==
    ASSUME todo = <<>>
    PROVE  Below /\ \A S : ~Has(todo, S)
<1>1. \A S : ~Has(todo, S)
  BY DEF Has
<1> QED
  BY <1>1 DEF Below

\* Steps with which nothing begins to wait.
LEMMA WaitsKept ==
    ASSUME Live => Waits, Live', Below,
           UNCHANGED <<state, tr, reads, outgoing, backlog, busy, incoming>>,
           paused' = paused
    PROVE  Waits'
<1>1. Live /\ Waits
  BY DEF Live
<1> QED
  BY <1>1 DEF Waits, Below

\* The methods that have nothing to do with the buffers.
LEMMA FlowOfCalls ==
    ASSUME TypeOK, Live => Waits, Live',
           \/ CallEof \/ Returns \/ Written \/ UserReturns \/ Close
           \/ (\E l \in WriteLimits : SetWriteLimits(l)) \/ CancelWait
           \/ CancelledCloses \/ RunLost \/ HandshakeTimeout \/ ShutdownTimeout
           \/ UNCHANGED vars
    PROVE  Waits'
<1>0. todo \in Seq(Items)
  BY DEF TypeOK, Controls
<1>1. CASE CallEof
  <2>1. UNCHANGED <<state, tr, reads, paused, outgoing, backlog, busy, incoming>>
    BY <1>1 DEF CallEof, flowVars, loopVars, outVars, sslVars, trVars
  <2>2. /\ todo # <<>> /\ Head(todo) = "call_eof"
        /\ Then(<<"eof_received">>) \/ Then(<<>>)
    BY <1>1 DEF CallEof, Runs
  <2>3. "call_eof" \notin Resumes \union {"end_read"}
    BY DEF Resumes, Sends, Encrypts, Decrypts
  <2>4. Below
    BY <2>2, <2>3, BelowThen, Fixed
  <2> QED
    BY <2>1, <2>4, WaitsKept
<1>2. CASE Returns \/ Written \/ UserReturns
  <2>1. UNCHANGED <<state, reads, paused, outgoing, backlog, busy, incoming>>
    BY <1>2 DEF Returns, Written, UserReturns, flowVars, loopVars, outVars,
       sslVars, trVars
  <2>2. UNCHANGED tr
    BY <1>2 DEF Returns, Written, UserReturns, trVars, Live
  <2>3. /\ todo # <<>> /\ Head(todo) \in Callbacks \union {"returns", "written"}
        /\ Then(<<>>)
    BY <1>2 DEF Returns, Written, UserReturns, Runs, Idle
  <2>4. Head(todo) \notin Resumes \union {"end_read"}
    BY <2>3 DEF Resumes, Sends, Encrypts, Decrypts, Callbacks
  <2>5. Below
    BY <2>3, <2>4, BelowThen, Fixed
  <2> QED
    BY <2>1, <2>2, <2>5, WaitsKept
<1>3. CASE Close \/ \E l \in WriteLimits : SetWriteLimits(l)
  <2>1. UNCHANGED <<state, tr, reads, paused, outgoing, backlog, busy, incoming>>
    BY <1>3 DEF Close, SetWriteLimits, flowVars, loopVars, outVars, sslVars,
       trVars
  <2>2. PICK x \in {"start_shutdown", "control_app_writing"} : todo' = <<x>> \o todo
    BY <1>3 DEF Close, SetWriteLimits
  <2>3. x \in Items
    BY DEF Items
  <2> QED
    BY <2>1, <2>2, <2>3, BelowCalled, WaitsKept
<1>4. CASE CancelledCloses
  <2>1. UNCHANGED <<state, tr, reads, paused, outgoing, backlog, busy, incoming>>
    BY <1>4 DEF CancelledCloses, flowVars, loopVars, outVars, sslVars, trVars
  <2> QED
    BY <1>4, <2>1, NothingRuns, WaitsKept DEF CancelledCloses, Idle
<1>5. ASSUME todo' = todo PROVE Below
  BY <1>5 DEF Below
<1>6. CASE CancelWait \/ RunLost \/ UNCHANGED vars
  <2>1. UNCHANGED <<state, tr, reads, paused, outgoing, backlog, busy, incoming, todo>>
    BY <1>6 DEF CancelWait, RunLost, vars, flowVars, loopVars, outVars, sslVars,
       trVars
  <2> QED
    BY <1>5, <2>1, WaitsKept
<1>7. CASE HandshakeTimeout \/ ShutdownTimeout
  <2>1. UNCHANGED <<reads, paused, outgoing, backlog, busy, incoming, todo>>
    BY <1>7 DEF HandshakeTimeout, ShutdownTimeout, flowVars, outVars, sslVars
  <2>2. UNCHANGED <<state, tr>>
    BY <1>7 DEF HandshakeTimeout, ShutdownTimeout, Abort, Live
  <2> QED
    BY <1>5, <2>1, <2>2, WaitsKept
<1> QED
  BY <1>1, <1>2, <1>3, <1>4, <1>6, <1>7

\* The methods that read.
LEMMA FlowOfReads ==
    ASSUME TypeOK, Live => Waits, Live', NEW n \in 0..Len(incoming), Read(n)
    PROVE  Waits'
<1>1. /\ todo \in Seq(Items) /\ todo # <<>> /\ Len(incoming) \in Nat /\ reads \in Nat
      /\ incoming \in Seq({"data", "close"})
  <2>1. Reading
    BY Zenon DEF Read
  <2>2. todo # <<>>
    BY <2>1, Zenon DEF Reading, Runs
  <2>3. /\ todo \in Seq(Items) /\ reads \in Nat
        /\ incoming \in Seq({"data", "close"})
    BY Zenon DEF TypeOK, Controls, Data
  <2> QED
    BY <2>2, <2>3
<1>2. n = Len(incoming)
  <2>1. n < Len(incoming) => reads' = reads + 1
    BY DEF Read
  <2>2. reads' = 0
    BY DEF Live
  <2> QED
    BY <1>1, <2>1, <2>2
<1>3. incoming' = <<>>
  <2>1. incoming' = SubSeq(incoming, n + 1, Len(incoming))
    BY DEF Read
  <2>2. Len(incoming') = 0 /\ incoming' \in Seq({"data", "close"})
    BY <1>1, <1>2, <2>1
  <2> QED
    BY <2>2
<1>4. PICK a \in {<<"data_received">>, <<>>},
           b \in {<<"call_eof", "start_shutdown", "after_read", "end_read">>,
                  <<"after_read", "end_read">>} : Then(a \o b)
  BY DEF Read
<1>5. /\ a \o b \in Seq(Items) /\ a \in Seq(Items) /\ b \in Seq(Items)
  <2>1. <<"data_received">> \in Seq(Items) /\ <<>> \in Seq(Items)
    BY Fixed
  <2>2. /\ <<"call_eof", "start_shutdown", "after_read", "end_read">> \in Seq(Items)
        /\ <<"after_read", "end_read">> \in Seq(Items)
    BY Fixed
  <2>3. a \in Seq(Items)
    BY <2>1
  <2>4. b \in Seq(Items)
    BY <2>2
  <2> QED
    BY <2>3, <2>4
<1>6. \E i, j \in 1..Len(b) : b[i] = "after_read" /\ b[j] = "end_read"
  <2>1. /\ Len(<<"after_read", "end_read">>) = 2
        /\ <<"after_read", "end_read">>[1] = "after_read"
        /\ <<"after_read", "end_read">>[2] = "end_read"
    OBVIOUS
  <2>2. /\ Len(<<"call_eof", "start_shutdown", "after_read", "end_read">>) = 4
        /\ <<"call_eof", "start_shutdown", "after_read", "end_read">>[3] = "after_read"
        /\ <<"call_eof", "start_shutdown", "after_read", "end_read">>[4] = "end_read"
    OBVIOUS
  <2>3. CASE b = <<"after_read", "end_read">>
    <3>1. 1 \in 1..Len(b) /\ 2 \in 1..Len(b)
      BY <2>1, <2>3
    <3> QED
      BY <2>1, <2>3, <3>1
  <2>4. CASE b = <<"call_eof", "start_shutdown", "after_read", "end_read">>
    <3>1. 3 \in 1..Len(b) /\ 4 \in 1..Len(b)
      BY <2>2, <2>4
    <3> QED
      BY <2>2, <2>4, <3>1
  <2> QED
    BY <2>3, <2>4
<1>7. \A S : Has(b, S) => Has(todo', S)
  <2> TAKE S
  <2>1. ASSUME NEW i \in 1..Len(b), b[i] \in S PROVE Has(a \o b, S)
    <3>1. /\ Len(a \o b) = Len(a) + Len(b) /\ Len(a) \in Nat /\ Len(b) \in Nat
          /\ \A k \in 1..Len(a) + Len(b) :
               (a \o b)[k] = IF k <= Len(a) THEN a[k] ELSE b[k - Len(a)]
      BY <1>5, ConcatProperties
    <3>2. i + Len(a) \in 1..Len(a) + Len(b) /\ ~(i + Len(a) <= Len(a))
          /\ (i + Len(a)) - Len(a) = i
      BY <3>1
    <3>3. (a \o b)[i + Len(a)] \in S /\ i + Len(a) \in 1..Len(a \o b)
      BY <3>1, <3>2, <2>1
    <3> QED
      BY <3>3 DEF Has
  <2>2. Has(b, S) => Has(a \o b, S)
    BY <2>1 DEF Has
  <2>3. Has(a \o b, S) => Has((a \o b) \o Tail(todo), S)
    BY <1>1, <1>5, HasStays
  <2> QED
    BY <2>2, <2>3, <1>4 DEF Then
<1>8. Has(b, Sends) /\ Has(b, Encrypts) /\ Has(b, Resumes) /\ Has(b, Reopens)
  <2>1. /\ "after_read" \in Sends /\ "after_read" \in Encrypts
        /\ "after_read" \in Resumes /\ "end_read" \in Reopens
    BY DEF Sends, Encrypts, Resumes, Decrypts, Reopens
  <2> QED
    BY <1>6, <2>1 DEF Has
<1> QED
  BY <1>3, <1>7, <1>8 DEF Waits

\* _process_outgoing() empties the BIO unless the transport is full.
LEMMA ProcessEmpties ==
    ASSUME NEW out, Process(out)
    PROVE  /\ outgoing' = <<>> \/ "ssl writing" \in paused'
           /\ "ssl writing" \notin paused' => "ssl writing" \notin paused
           /\ \A x \in {"app writing", "app reading", "ssl reading"} :
                x \in paused' <=> x \in paused
<1>1. CASE "ssl writing" \in paused \/ out = <<>>
  BY <1>1 DEF Process
<1>2. CASE ~("ssl writing" \in paused \/ out = <<>>)
  <2>1. outgoing' = <<>> /\ paused' \in {paused, paused \union {"ssl writing"}}
    BY <1>2 DEF Process
  <2> QED
    BY <2>1
<1> QED
  BY <1>1, <1>2

\* _do_write() and what follows it.
LEMMA FlowOfWrites ==
    ASSUME TypeOK, Live => Waits, Live', WriteOut \/ WriteData
    PROVE  Waits'
<1>1. todo \in Seq(Items) /\ "control_app_writing" \in Items /\ "control_app_writing" \in Resumes
  BY DEF TypeOK, Controls, Items, Resumes
<1>2. /\ UNCHANGED <<state, tr, reads, busy, incoming>>
      /\ \E out : Process(out)
      /\ \E m : backlog' = BacklogLeft(m)
  <2>1. CASE WriteOut
    BY <2>1 DEF WriteOut, loopVars, sslVars
  <2>2. CASE WriteData
    BY <2>2 DEF WriteData, loopVars, sslVars
  <2> QED
    BY <2>1, <2>2
<1>3. /\ outgoing' = <<>> \/ "ssl writing" \in paused'
      /\ "ssl writing" \notin paused' => "ssl writing" \notin paused
      /\ \A x \in {"app writing", "app reading", "ssl reading"} :
           x \in paused' <=> x \in paused
  BY <1>2, ProcessEmpties
<1>4. ~busy => backlog' = 0
  BY <1>2 DEF BacklogLeft
<1>5. Live /\ Waits
  BY <1>2, <1>3 DEF Live
<1>6. ASSUME Has(todo', Resumes) \/ (Has(todo, Resumes) => Has(todo', Resumes)),
             Has(todo, Decrypts) => Has(todo', Decrypts),
             Has(todo, Reopens) => Has(todo', Reopens)
      PROVE  Waits'
  <2>1. outgoing' # <<>> /\ "ssl writing" \notin paused' => Has(todo', Sends)
    BY <1>3
  <2>2. backlog' > 0 /\ ~busy' => Has(todo', Encrypts)
    <3>1. ~busy => ~(backlog' > 0)
      BY <1>4
    <3> QED
      BY <1>2, <3>1, Zenon
  <2>3. /\ "app writing" \in paused' <=> "app writing" \in paused
        /\ "ssl reading" \in paused' <=> "ssl reading" \in paused
    BY <1>3
  <2>4. "app writing" \in paused' /\ "ssl writing" \notin paused' /\ ~busy' =>
          Has(todo', Resumes)
    BY <1>2, <1>3, <1>5, <1>6, <2>3, Zenon DEF Waits
  <2>5. /\ incoming' # <<>> => Has(todo', Decrypts)
        /\ "ssl reading" \in paused' => Has(todo', Reopens)
    BY <1>2, <1>5, <1>6, <2>3, Zenon DEF Waits
  <2> QED
    BY <2>1, <2>2, <2>4, <2>5 DEF Waits
<1>7. CASE WriteOut /\ Runs("after_read")
  <2>1. /\ todo # <<>> /\ Head(todo) = "after_read"
        /\ Then(<<"control_app_writing">>)
    BY <1>7 DEF WriteOut, Runs
  <2>2. "after_read" \notin Decrypts /\ "after_read" \notin Reopens
    BY DEF Decrypts, Reopens
  <2>3. /\ <<"control_app_writing">> \in Seq(Items)
        /\ Has(<<"control_app_writing">>, Resumes)
    BY <1>1 DEF Has
  <2> QED
    BY <2>1, <2>2, <2>3, <1>1, <1>6, HasStays DEF Then
<1>8. CASE WriteOut /\ Runs("flush_write")
  <2>1. /\ todo # <<>> /\ Head(todo) = "flush_write"
        /\ Then(<<"control_ssl_reading">>)
    BY <1>8 DEF WriteOut, Runs
  <2>2. "flush_write" \notin Resumes \union {"end_read"}
    BY DEF Resumes, Sends, Encrypts, Decrypts
  <2>3. Below
    BY <2>1, <2>2, BelowThen, Fixed
  <2> QED
    BY <2>3, <1>6 DEF Below
<1>9. CASE WriteData
  <2>1. todo' = <<"control_app_writing">> \o todo
    BY <1>9 DEF WriteData
  <2>2. Below /\ Has(todo', Resumes)
    BY <2>1, <1>1, BelowCalled
  <2> QED
    BY <2>2, <1>6 DEF Below
<1> QED
  BY <1>7, <1>8, <1>9 DEF WriteOut

\* resume_writing() of SSLProtocol.
LEMMA FlowOfResumed ==
    ASSUME TypeOK, Live => Waits, Live', ResumedWriting
    PROVE  Waits'
<1>1. /\ todo \in Seq(Items) /\ "control_app_writing" \in Items
      /\ "control_app_writing" \in Resumes
  BY DEF TypeOK, Controls, Items, Resumes
<1>2. /\ UNCHANGED <<state, tr, reads, busy, incoming, backlog>>
      /\ Process(outgoing) /\ todo # <<>> /\ Head(todo) = "resumed"
      /\ Then(<<"control_app_writing">>)
  BY DEF ResumedWriting, loopVars, sslVars, Runs
<1>3. /\ outgoing' = <<>> \/ "ssl writing" \in paused'
      /\ "ssl writing" \notin paused' => "ssl writing" \notin paused
      /\ \A x \in {"app writing", "app reading", "ssl reading"} :
           x \in paused' <=> x \in paused
  BY <1>2, ProcessEmpties
<1>4. Live /\ Waits
  BY <1>2, <1>3 DEF Live
<1>5. "resumed" \notin Encrypts /\ "resumed" \notin Decrypts /\ "resumed" \notin Reopens
  BY DEF Encrypts, Decrypts, Reopens
<1>6. /\ <<"control_app_writing">> \in Seq(Items)
      /\ Has(<<"control_app_writing">>, Resumes)
  BY <1>1 DEF Has
<1>7. /\ Has(todo', Resumes)
      /\ Has(todo, Encrypts) => Has(todo', Encrypts)
      /\ Has(todo, Decrypts) => Has(todo', Decrypts)
      /\ Has(todo, Reopens) => Has(todo', Reopens)
  BY <1>1, <1>2, <1>5, <1>6, HasStays DEF Then
<1> QED
  BY <1>2, <1>3, <1>4, <1>7 DEF Waits

\* _control_app_writing(): a protocol that is paused, or is not resumed, has
\* more bytes in the buffers than none.
LEMMA FlowOfPauses ==
    ASSUME TypeOK, LimitsInv, PositiveLimits, Live => Waits, Live',
           ControlAppWriting
    PROVE  Waits'
<1>1. /\ todo \in Seq(Items) /\ backlog \in Nat /\ Len(outgoing) \in Nat
      /\ outgoing # <<>> <=> Len(outgoing) > 0
      /\ writeLimits[1] \in Nat /\ writeLimits[2] \in Nat /\ writeLimits[1] > 0
  <2>1. writeLimits \in Nat \X Nat /\ writeLimits[1] > 0
    BY SSLAssumption DEF LimitsInv, PositiveLimits, Positive
  <2>2. /\ todo \in Seq(Items) /\ backlog \in Nat
        /\ outgoing \in Seq({"handshake", "app", "close"})
    BY DEF TypeOK, Controls, Data
  <2> QED
    BY <2>1, <2>2
<1>2. UNCHANGED <<state, tr, reads, busy, incoming, outgoing, backlog>>
  BY DEF ControlAppWriting, loopVars, outVars, sslVars, trVars
<1>3. /\ todo # <<>> /\ Head(todo) = "control_app_writing"
      /\ \E t \in {<<"pause_writing">>, <<"resume_writing">>, <<>>} : Then(t)
  BY Controlled
<1>4. /\ paused' \in {paused, paused \union {"app writing"},
                      paused \ {"app writing"}}
  BY DEF ControlAppWriting
<1>5. "app writing" \in paused' => WriteSize > 0
  <2>1. WriteSize \in Nat
    BY <1>1 DEF WriteSize
  <2>2. WriteSize >= writeLimits[1] => WriteSize > 0
    BY <1>1, <2>1
  <2>3. ~(WriteSize <= writeLimits[2]) => WriteSize > 0
    BY <1>1, <2>1
  <2>4. \/ WriteSize >= writeLimits[1] /\ "app writing" \notin paused
        \/ WriteSize <= writeLimits[2] /\ paused' = paused \ {"app writing"}
        \/ ~(WriteSize <= writeLimits[2])
        \/ "app writing" \notin paused /\ paused' = paused
    BY Zenon DEF ControlAppWriting
  <2> QED
    BY <2>2, <2>3, <2>4, Zenon
<1>6. Live /\ Waits
  BY <1>2, <1>4 DEF Live
<1>7. \A S \in {Sends, Encrypts, Decrypts, Reopens} :
        Has(todo, S) => Has(todo', S)
  <2>1. \A S \in {Sends, Encrypts, Decrypts, Reopens} :
          "control_app_writing" \notin S
    BY DEF Sends, Encrypts, Decrypts, Reopens
  <2>2. {<<"pause_writing">>, <<"resume_writing">>, <<>>} \subseteq Seq(Items)
    BY Fixed
  <2> QED
    BY <2>1, <2>2, <1>1, <1>3, HasStays DEF Then
<1>8. /\ Has(todo', Sends) => Has(todo', Resumes)
      /\ Has(todo', Encrypts) => Has(todo', Resumes)
  <2>1. Sends \subseteq Resumes /\ Encrypts \subseteq Resumes
    BY DEF Sends, Resumes
  <2> QED
    BY <2>1 DEF Has
<1>10. WriteSize > 0 => outgoing # <<>> \/ backlog > 0
  BY <1>1 DEF WriteSize
<1>9. "app writing" \in paused' /\ "ssl writing" \notin paused' /\ ~busy' =>
        Has(todo', Resumes)
  <2> SUFFICES ASSUME "app writing" \in paused', "ssl writing" \notin paused',
                      ~busy'
               PROVE  Has(todo', Sends) \/ Has(todo', Encrypts)
    BY <1>8
  <2>1. "ssl writing" \notin paused /\ ~busy
    BY <1>2, <1>4
  <2>2. outgoing # <<>> \/ backlog > 0
    BY <1>5, <1>10, Zenon
  <2>3. Has(todo, Sends) \/ Has(todo, Encrypts)
    BY <2>1, <2>2, <1>6 DEF Waits
  <2> QED
    BY <2>3, <1>7
<1> QED
  BY <1>2, <1>4, <1>6, <1>7, <1>9 DEF Waits

\* _control_ssl_reading(), at the end of _do_read() and for new limits.
LEMMA ReadsAgain ==
    ASSUME TypeOK, NEW l \in ReadLimits, PositiveLimits,
           paused' = SSLReading(l)
    PROVE  /\ "ssl reading" \in paused' => incoming # <<>>
           /\ \A x \in {"app writing", "app reading", "ssl writing"} :
                x \in paused' <=> x \in paused
<1>1. l \in Nat \X Nat /\ l[1] > 0
  BY SSLAssumption DEF PositiveLimits, Positive
<1>2. l[1] \in Nat /\ l[2] \in Nat
  BY <1>1
<1>3. incoming = <<>> => Len(incoming) = 0
  OBVIOUS
<1>4. incoming = <<>> => SSLReading(l) = paused \ {"ssl reading"}
  <2> SUFFICES ASSUME incoming = <<>> PROVE SSLReading(l) = paused \ {"ssl reading"}
    OBVIOUS
  <2>1. ~(Len(incoming) >= l[1]) /\ Len(incoming) <= l[2]
    BY <1>1, <1>2, <1>3
  <2> QED
    BY <2>1 DEF SSLReading
<1>5. SSLReading(l) \in {paused, paused \union {"ssl reading"},
                         paused \ {"ssl reading"}}
  BY DEF SSLReading
<1> QED
  BY <1>4, <1>5

\* Who may read goes on, and pauses the transport only with records to read.
LEMMA FlowOfReading ==
    ASSUME TypeOK, LimitsInv, PositiveLimits, Live => Waits, Live',
           ControlSSLReading \/ \E l \in ReadLimits : SetReadLimits(l)
    PROVE  Waits'
<1>1. todo \in Seq(Items)
  BY DEF TypeOK, Controls
<1>2. /\ UNCHANGED <<state, tr, reads, busy, incoming, outgoing, backlog>>
      /\ \E l \in ReadLimits : paused' = SSLReading(l)
  <2>1. CASE ControlSSLReading
    BY <2>1 DEF ControlSSLReading, LimitsInv, loopVars, outVars, sslVars, trVars
  <2>2. CASE \E l \in ReadLimits : SetReadLimits(l)
    BY <2>2 DEF SetReadLimits, loopVars, outVars, sslVars, trVars
  <2> QED
    BY <2>1, <2>2
<1>3. /\ "ssl reading" \in paused' => incoming # <<>>
      /\ \A x \in {"app writing", "app reading", "ssl writing"} :
           x \in paused' <=> x \in paused
  BY <1>2, ReadsAgain
<1>4. Live /\ Waits
  BY <1>2, <1>3 DEF Live
<1>5. \A S \in {Sends, Encrypts, Resumes, Decrypts} : Has(todo, S) => Has(todo', S)
  <2>1. CASE ControlSSLReading
    <3>1. /\ todo # <<>> /\ Head(todo) \in {"end_read", "control_ssl_reading"}
          /\ Then(<<>>)
      BY <2>1 DEF ControlSSLReading, Runs
    <3>2. \A S \in {Sends, Encrypts, Resumes, Decrypts} : Head(todo) \notin S
      BY <3>1 DEF Sends, Encrypts, Resumes, Decrypts
    <3> QED
      BY <3>1, <3>2, <1>1, HasStays, Fixed DEF Then
  <2>2. CASE \E l \in ReadLimits : SetReadLimits(l)
    BY <2>2 DEF SetReadLimits
  <2> QED
    BY <2>1, <2>2
<1>6. "ssl reading" \in paused' => Has(todo', Reopens)
  <2>1. Has(todo', Decrypts) => Has(todo', Reopens)
    BY DEF Has, Reopens
  <2> QED
    BY <2>1, <1>3, <1>4, <1>5 DEF Waits
<1> QED
  BY <1>2, <1>3, <1>4, <1>5, <1>6 DEF Waits

\* Whatever waits, a _do_read() that is to come takes it on.
LEMMA ReadsAll ==
    ASSUME Has(todo', Decrypts)
    PROVE  Waits'
<1>1. PICK i \in 1..Len(todo') : todo'[i] \in Decrypts
  BY DEF Has
<1>2. \A S \in {Sends, Encrypts, Resumes, Decrypts, Reopens} : todo'[i] \in S
  BY <1>1 DEF Sends, Encrypts, Resumes, Decrypts, Reopens
<1>3. \A S \in {Sends, Encrypts, Resumes, Decrypts, Reopens} : Has(todo', S)
  BY <1>1, <1>2 DEF Has
<1> QED
  BY <1>3, Zenon DEF Waits

\* The steps that schedule or begin to read.
LEMMA FlowOfNewReads ==
    ASSUME TypeOK, Live',
           \/ OnHandshakeComplete \/ RunDoRead
           \/ \E s \in Chunks : BufferUpdated(s)
    PROVE  Waits'
<1>0. todo \in Seq(Items) /\ state' = "WRAPPED"
  BY Zenon DEF TypeOK, Controls, Live
<1>1. CASE OnHandshakeComplete
  <2>1. todo # <<>> /\ (\/ Then(<<"connection_made", "wakeup_waiter">>)
                        \/ Then(<<"wakeup_waiter">>))
    BY <1>1 DEF OnHandshakeComplete, Runs
  <2>2. PICK t \in {<<"connection_made", "wakeup_waiter">>, <<"wakeup_waiter">>} :
          Then(t)
    BY <2>1
  <2>3. t \in Seq(Items)
    BY Fixed
  <2>4. Has(t, Decrypts)
    <3>1. /\ Len(<<"connection_made", "wakeup_waiter">>) = 2
          /\ <<"connection_made", "wakeup_waiter">>[2] = "wakeup_waiter"
          /\ Len(<<"wakeup_waiter">>) = 1 /\ <<"wakeup_waiter">>[1] = "wakeup_waiter"
      OBVIOUS
    <3>2. \E i \in 1..Len(t) : t[i] = "wakeup_waiter"
      <4>1. CASE t = <<"wakeup_waiter">>
        <5>1. 1 \in 1..Len(t) /\ t[1] = "wakeup_waiter"
          BY <3>1, <4>1
        <5> QED
          BY <5>1
      <4>2. CASE t = <<"connection_made", "wakeup_waiter">>
        <5>1. 2 \in 1..Len(t) /\ t[2] = "wakeup_waiter"
          BY <3>1, <4>2
        <5> QED
          BY <5>1
      <4> QED
        BY <4>1, <4>2
    <3> QED
      BY <3>2 DEF Has, Decrypts
  <2> QED
    BY <1>0, <2>1, <2>2, <2>3, <2>4, HasStays, ReadsAll DEF Then
<1>2. ASSUME NEW u \in Seq(Items), todo' = <<"do_read">> \o u PROVE Waits'
  <2>1. "do_read" \in Items /\ "do_read" \in Decrypts
    BY DEF Items, Decrypts
  <2> QED
    BY <1>2, <2>1, HasCalled, ReadsAll
<1>3. CASE RunDoRead
  <2>1. todo' = <<"do_read">> /\ todo = <<>>
    BY <1>3 DEF RunDoRead, Idle
  <2>2. todo' = <<"do_read">> \o todo
    BY <2>1
  <2> QED
    BY <1>0, <1>2, <2>2
<1>4. CASE \E s \in Chunks : BufferUpdated(s)
  <2>1. state = "WRAPPED"
    BY <1>0, <1>4 DEF BufferUpdated
  <2>2. todo' = <<"do_read">> \o <<"returns">>
    BY <1>4, <2>1 DEF BufferUpdated
  <2> QED
    BY <1>2, <2>2, Fixed
<1> QED
  BY <1>1, <1>3, <1>4

\* The transport takes what it had: resume_writing() of SSLProtocol sends.
LEMMA FlowOfDrain ==
    ASSUME TypeOK, Live => Waits, Live', Drain
    PROVE  Waits'
<1>1. /\ todo = <<>> /\ paused' = paused \ {"ssl writing"} /\ state' = "WRAPPED"
      /\ UNCHANGED <<state, tr, reads, busy, incoming, outgoing, backlog>>
  BY Zenon DEF Drain, Idle, Live, loopVars, outVars, sslVars
<1>2. \A S : ~Has(todo, S)
  BY <1>1, NothingRuns
<1>3. /\ "ssl writing" \notin paused'
      /\ \A x \in {"app writing", "app reading", "ssl reading"} :
           x \in paused' <=> x \in paused
  BY <1>1, Zenon
<1>4. Live /\ Waits
  BY <1>1, <1>3, Zenon DEF Live
<1>5. /\ ~(backlog' > 0 /\ ~busy')
      /\ ~(incoming' # <<>>)
      /\ "ssl reading" \notin paused'
  BY <1>1, <1>2, <1>3, <1>4, Zenon DEF Waits
<1>6. CASE "ssl writing" \in paused
  <2>1. todo' = <<"resumed">> \o <<"written">>
    BY <1>1, <1>6, Zenon DEF Drain
  <2>2. "resumed" \in Items /\ "resumed" \in Sends /\ "resumed" \in Resumes
    BY DEF Items, Sends, Resumes
  <2>3. Has(todo', Sends) /\ Has(todo', Resumes)
    BY <2>1, <2>2, HasCalled, Fixed
  <2> QED
    BY <1>5, <2>3, Zenon DEF Waits
<1>7. CASE "ssl writing" \notin paused
  <2>1. ~(outgoing' # <<>>)
    BY <1>1, <1>2, <1>4, <1>7, Zenon DEF Waits
  <2>2. ~("app writing" \in paused' /\ ~busy')
    BY <1>1, <1>2, <1>3, <1>4, <1>7, Zenon DEF Waits
  <2> QED
    BY <1>5, <2>1, <2>2, Zenon DEF Waits
<1> QED
  BY <1>6, <1>7

\* No step of a handshake or of a shutdown runs in WRAPPED.
LEMMA NotInWrapped ==
    ASSUME FlushInv, state = "WRAPPED", NEW x, Runs(x)
    PROVE  x \notin HandshakeItems \union {"do_flush", "do_shutdown", "flushed", "unwrap"}
<1>1. todo \in Seq(Items) /\ Ordered(todo) /\ ~InShutdown(todo)
  BY DEF FlushInv, IInv, TypeOK, Controls, WrappedInv, ShutInv, Done
<1>2. 1 \in 1..Len(todo) /\ todo[1] = x
  BY <1>1 DEF Runs
<1> QED
  BY <1>1, <1>2 DEF Ordered, InShutdown

\* Steps that leave WRAPPED, close the transport, or schedule a _do_read().
LEMMA FlowOfEnds ==
    ASSUME FlushInv, Caught(todo),
           \/ HandshakeAgain \/ HandshakeDone \/ HandshakeFails
           \/ OnHandshakeFailed \/ WakeupWaiter \/ ReadFails \/ VoidFails
           \/ StartShutdown \/ DoFlush \/ EndFlush \/ DoShutdown \/ Unwrap
           \/ ShutdownComplete \/ UserAborts \/ UserRaises \/ PauseReading
           \/ ResumeReading \/ EofReceived \/ TransportFails \/ ConnectionLost
    PROVE  ~Live'
<1> SUFFICES ASSUME Live' PROVE FALSE
  OBVIOUS
<1>0. TypeOK /\ reads \in Nat
  BY Zenon DEF FlushInv, IInv, TypeOK, Data
<1>1. state' = "WRAPPED" /\ tr' = "open" /\ reads' = 0 /\ "app reading" \notin paused'
  BY Zenon DEF Live
<1>2. CASE HandshakeAgain \/ HandshakeDone \/ HandshakeFails
  <2>1. Runs("do_handshake") /\ state = "WRAPPED"
    BY <1>1, <1>2, Zenon DEF HandshakeAgain, HandshakeDone, HandshakeFails
  <2> QED
    BY <2>1, NotInWrapped DEF HandshakeItems
<1>3. CASE \/ OnHandshakeFailed \/ ReadFails \/ VoidFails \/ UserAborts
  <2>1. state' = "UNWRAPPED"
    BY <1>3, Zenon DEF OnHandshakeFailed, ReadFails, VoidFails, UserAborts, Abort
  <2> QED
    BY <1>1, <2>1
<1>4. CASE WakeupWaiter \/ ResumeReading
  <2>1. reads' = reads + 1
    BY <1>4, Zenon DEF WakeupWaiter, ResumeReading
  <2>2. ~(reads + 1 = 0)
    BY <1>0
  <2> QED
    BY <1>1, <2>1, <2>2, Zenon
<1>5. CASE StartShutdown
  <2>1. state' \in {"FLUSHING", "SHUTDOWN", "UNWRAPPED"}
    BY <1>5 DEF StartShutdown, Abort
  <2> QED
    BY <1>1, <2>1
<1>6. CASE DoFlush \/ DoShutdown \/ Unwrap
  <2>1. /\ Runs("do_flush") \/ Runs("do_shutdown") \/ Runs("unwrap")
        /\ state = "WRAPPED"
    BY <1>1, <1>6, Zenon DEF DoFlush, DoShutdown, Unwrap
  <2> QED
    BY <2>1, NotInWrapped
<1>7. CASE EndFlush
  <2>1. Runs("flushed")
    BY <1>7 DEF EndFlush
  <2>2. state' \in {state, "SHUTDOWN", "UNWRAPPED"}
    <3>1. todo # <<>>
      BY <2>1 DEF Runs
    <3>2. state' = state \/ state' = "SHUTDOWN" \/ Raise(Tail(todo))
      BY <1>7, Zenon DEF EndFlush
    <3> QED
      BY <1>0, <3>1, <3>2, Raised
  <2> QED
    BY <1>1, <2>1, <2>2, NotInWrapped
<1>8. CASE ShutdownComplete \/ TransportFails \/ ConnectionLost
  <2>1. tr' # "open"
    BY <1>8 DEF ShutdownComplete, TransportFails, ConnectionLost, Closed
  <2> QED
    BY <1>1, <2>1
<1>9. CASE UserRaises
  <2>1. CASE Runs("eof_received")
    <3>1. state' = "UNWRAPPED"
      BY <1>9, <2>1, Zenon DEF UserRaises, Abort
    <3> QED
      BY <1>1, <3>1
  <2>2. CASE ~Runs("eof_received")
    <3>1. /\ Runs("data_received") \/ Runs("connection_made")
          /\ Raise(Tail(todo))
      BY <1>9, <2>2, Zenon DEF UserRaises
    <3> QED
      BY <1>0, <1>1, <3>1, RaiseEnds
  <2> QED
    BY <2>1, <2>2
<1>10. CASE PauseReading
  <2>1. "app reading" \in paused'
    BY <1>10, Zenon DEF PauseReading
  <2> QED
    BY <1>1, <2>1, Zenon
<1>11. CASE EofReceived
  <2>1. state' = "SHUTDOWN" \/ (state = "DO_HANDSHAKE" /\ state' = state)
    BY <1>11 DEF EofReceived
  <2> QED
    BY <1>1, <2>1
<1> QED
  BY <1>2, <1>3, <1>4, <1>5, <1>6, <1>7, <1>8, <1>9, <1>10, <1>11

\* _do_read() does nothing only when the application has paused, or not in
\* WRAPPED.
LEMMA FlowOfNoRead == ASSUME ReadNothing PROVE ~Live'
<1>1. UNCHANGED <<state, paused>>
  BY Zenon DEF ReadNothing, flowVars
<1>2. state # "WRAPPED" \/ "app reading" \in paused
  BY Zenon DEF ReadNothing, MayRead
<1> QED
  BY <1>1, <1>2, Zenon DEF Live

\* The limits are those that the application may set.
LEMMA LimitsStep ==
    ASSUME LimitsInv, [Next]_vars
    PROVE  LimitsInv'
<1>1. ASSUME UNCHANGED <<readLimits, writeLimits>> PROVE LimitsInv'
  BY <1>1 DEF LimitsInv
<1>2. ASSUME NEW l \in ReadLimits, SetReadLimits(l) PROVE LimitsInv'
  BY <1>2, Zenon DEF SetReadLimits, LimitsInv
<1>3. ASSUME NEW l \in WriteLimits, SetWriteLimits(l) PROVE LimitsInv'
  BY <1>3, Zenon DEF SetWriteLimits, LimitsInv
<1>4. ASSUME \/ HandshakeAgain \/ HandshakeDone \/ HandshakeFails
             \/ OnHandshakeComplete \/ WakeupWaiter \/ OnHandshakeFailed
             \/ ReadNothing \/ ReadFails \/ \E n \in 0..Len(incoming) : Read(n)
      PROVE  UNCHANGED <<readLimits, writeLimits>>
  BY <1>4, Zenon DEF HandshakeAgain, HandshakeDone, HandshakeFails,
     OnHandshakeComplete, WakeupWaiter, OnHandshakeFailed, ReadNothing,
     ReadFails, Read, flowVars
<1>5. ASSUME \/ WriteOut \/ ControlSSLReading \/ CallEof \/ ControlAppWriting
             \/ ResumedWriting \/ StartShutdown \/ DoFlush \/ DoShutdown
             \/ VoidFails \/ EndFlush \/ Unwrap \/ ShutdownComplete
             \/ Returns \/ Written
      PROVE  UNCHANGED <<readLimits, writeLimits>>
  BY <1>5, Zenon DEF WriteOut, ControlSSLReading, CallEof, ControlAppWriting,
     ResumedWriting, StartShutdown, DoFlush, DoShutdown, VoidFails, EndFlush,
     Unwrap, ShutdownComplete, Returns, Written, flowVars
<1>6. ASSUME \/ WriteData \/ Close \/ UserAborts \/ PauseReading \/ ResumeReading
             \/ CancelWait \/ UserReturns \/ UserRaises \/ CancelledCloses
             \/ HandshakeTimeout \/ ShutdownTimeout \/ UNCHANGED vars
      PROVE  UNCHANGED <<readLimits, writeLimits>>
  BY <1>6, Zenon DEF WriteData, Close, UserAborts, PauseReading, ResumeReading,
     CancelWait, UserReturns, UserRaises, CancelledCloses, HandshakeTimeout,
     ShutdownTimeout, flowVars, vars
<1>7. ASSUME \/ \E s \in Chunks : BufferUpdated(s)
             \/ EofReceived \/ Drain \/ TransportFails \/ ConnectionLost
             \/ RunDoRead \/ RunLost
      PROVE  UNCHANGED <<readLimits, writeLimits>>
  BY <1>7, Zenon DEF BufferUpdated, EofReceived, Drain, TransportFails,
     ConnectionLost, RunDoRead, RunLost, flowVars
<1> QED
  BY <1>1, <1>2, <1>3, <1>4, <1>5, <1>6, <1>7, Zenon DEF Next, Code, User

\* A method is on the stack for whatever waits, from the first state on ...
LEMMA FlowInit == ASSUME Init, PositiveLimits PROVE FlowInv
<1>1. /\ todo = <<"do_handshake", "returns">> /\ state = "DO_HANDSHAKE"
      /\ readLimits = Default(ReadLimits) /\ writeLimits = Default(WriteLimits)
  BY Zenon DEF Init
<1>2. ASSUME NEW limits, HasDefault(limits) PROVE Default(limits) \in limits
  BY <1>2, Zenon DEF HasDefault, Default
<1>3. LimitsInv
  BY <1>1, <1>2, Zenon DEF LimitsInv, PositiveLimits
<1>4. Caught(todo)
  BY <1>1, HarmlessFacts, CaughtHarmless
<1>5. ~Live
  BY <1>1 DEF Live
<1> QED
  BY <1>3, <1>4, <1>5, FlushInit, Zenon DEF FlowInv

\* ... and after every step.
LEMMA FlowStep ==
    ASSUME FlowInv, PositiveLimits, [Next]_vars
    PROVE  FlowInv'
<1>1. /\ FlushInv /\ IInv /\ TypeOK /\ LimitsInv /\ Caught(todo)
      /\ (Live => Waits)
  BY Zenon DEF FlowInv, FlushInv, IInv
<1>2. ASSUME Live' PROVE Waits'
  <2>1. ASSUME NEW n \in 0..Len(incoming), Read(n) PROVE Waits'
    BY <1>1, <1>2, <2>1, FlowOfReads
  <2>2. CASE WriteOut \/ WriteData
    BY <1>1, <1>2, <2>2, FlowOfWrites
  <2>3. CASE ResumedWriting
    BY <1>1, <1>2, <2>3, FlowOfResumed
  <2>4. CASE ControlAppWriting
    BY <1>1, <1>2, <2>4, FlowOfPauses
  <2>5. CASE ControlSSLReading \/ \E l \in ReadLimits : SetReadLimits(l)
    BY <1>1, <1>2, <2>5, FlowOfReading
  <2>6. CASE \/ OnHandshakeComplete \/ RunDoRead
             \/ \E s \in Chunks : BufferUpdated(s)
    BY <1>1, <1>2, <2>6, FlowOfNewReads
  <2>7. CASE Drain
    BY <1>1, <1>2, <2>7, FlowOfDrain
  <2>8. CASE \/ CallEof \/ Returns \/ Written \/ UserReturns \/ Close
             \/ (\E l \in WriteLimits : SetWriteLimits(l)) \/ CancelWait
             \/ CancelledCloses \/ RunLost \/ HandshakeTimeout \/ ShutdownTimeout
             \/ UNCHANGED vars
    BY <1>1, <1>2, <2>8, FlowOfCalls
  <2>9. CASE \/ HandshakeAgain \/ HandshakeDone \/ HandshakeFails
             \/ OnHandshakeFailed \/ WakeupWaiter \/ ReadFails \/ VoidFails
             \/ StartShutdown \/ DoFlush \/ EndFlush \/ DoShutdown \/ Unwrap
             \/ ShutdownComplete \/ UserAborts \/ UserRaises \/ PauseReading
             \/ ResumeReading \/ EofReceived \/ TransportFails \/ ConnectionLost
    BY <1>1, <1>2, <2>9, FlowOfEnds
  <2>10. CASE ReadNothing
    BY <1>2, <2>10, FlowOfNoRead
  <2> QED
    BY <2>1, <2>2, <2>3, <2>4, <2>5, <2>6, <2>7, <2>8, <2>9, <2>10, Zenon
       DEF Next, Code, User
<1> QED
  BY <1>1, <1>2, FlushStep, LimitsStep, CaughtStep, Zenon DEF FlowInv

\* What SSLProtocol holds back is always somebody's to send on: the transport's,
\* the SSL object's, a method's on the stack or a scheduled _do_read()'s.
THEOREM FlowInvariance == ASSUME PositiveLimits PROVE Spec => []FlowInv
  BY FlowInit, FlowStep, PTL DEF Spec

\* Flow control never stops for good (_control_app_writing(),
\* _control_ssl_reading()) with any limits but a high-water mark of 0: an idle
\* protocol has resumed the application, and the transport reads, unless there
\* is somebody else to wait for.
THEOREM FlowNeverStops == ASSUME PositiveLimits PROVE Spec => []FlowResumes
<1>1. ASSUME FlowInv PROVE FlowResumes
  <2> SUFFICES ASSUME Idle, Live
               PROVE  /\ "app writing" \in paused => "ssl writing" \in paused \/ busy
                      /\ "ssl reading" \notin paused
    BY Zenon DEF FlowResumes, Live
  <2>1. Waits /\ \A S : ~Has(todo, S)
    BY <1>1, NothingRuns DEF FlowInv, Idle
  <2> QED
    BY <2>1, Zenon DEF Waits
<1> QED
  BY <1>1, FlowInvariance, PTL
=============================================================================
