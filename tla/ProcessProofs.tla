--------------------------- MODULE ProcessProofs ---------------------------
(***************************************************************************)
(* The calls of a subprocess's protocol, for every set of pipes and any    *)
(* number of chunks.  None of the properties of Process is inductive: each *)
(* speaks of the calls that were made, or of their order alone.  IInv says *)
(* which calls are made, scheduled in _ready or held in _pending_calls     *)
(* (ContentInv), where each stage of the start-up leaves them (StartInv,   *)
(* MadeInv), and which may not stand behind which (OrderInv).              *)
(***************************************************************************)
EXTENDS Process, SequenceTheorems, FiniteSetTheorems, WellFoundedInduction,
        TLAPS

Elems(s) == {s[i] : i \in 1..Len(s)}
Told == ProtocolCalls \union {ConnectionMade}
Losses == {PipeLost(f) : f \in Fds}

ScalarOK ==
    /\ pipes \subseteq Fds /\ start \in Starts
    /\ sent \in [pipes -> 0..MaxData] /\ received \in [pipes -> 0..MaxData]
    /\ \A f \in pipes : received[f] <= sent[f]
    /\ pipe \in [pipes -> {"init", "open", "flushing", "closing", "lost"}]
    /\ disconnected \subseteq pipes /\ gathered \subseteq pipes
    /\ stdioReady \in BOOLEAN /\ finished \in BOOLEAN
    /\ returncode \in BOOLEAN /\ lateExit \in BOOLEAN
    /\ create \in {"waiting", "done", "failed", "cancelled"}
    /\ made \in {"no", "in", "returned", "raised", "escaped"}

QueueOK ==
    /\ calls \in Seq(Told) /\ ready \in Seq(Handles)
    /\ pending \in Seq(ProtocolCalls)

TypeOK == ScalarOK /\ QueueOK

\* The handles and calls in Loop._ready, and all that were or are to be made.
InReady == Elems(ready)
All == Elems(calls) \union Elems(ready) \union Elems(pending)

\* All calls there have been reasons for, and no others, are made or to be made.
ContentInv ==
    /\ \A f \in pipes, n \in 1..MaxData : Data(f, n) \in All <=> n <= received[f]
    /\ \A f \in Fds : PipeLost(f) \in All <=> f \in disconnected
    /\ Exited \in All <=> returncode
    /\ ConnectionLost \in All <=> finished
    /\ finished => returncode /\ pipes \subseteq disconnected

\* The chain of handles that starts the transport comes to each link once.
StartInv ==
    /\ \A f \in Fds :
         /\ PipeMade(f) \in InReady => f \notin gathered /\ Gathers(f) \notin InReady
         /\ Gathers(f) \in InReady => f \notin gathered /\ f \in pipes
         /\ PipeEnds(f) \in InReady => f \in pipes /\ pipe[f] = "closing"
    /\ \A f \in pipes : f \in disconnected <=> pipe[f] = "lost"
    /\ StdioInited \in InReady \/ CallMade \in InReady \/ made # "no" =>
         gathered = pipes
    /\ StdioInited \in InReady => CallMade \notin InReady /\ made = "no"
    /\ CallMade \in InReady => made = "no"
    /\ CreateWakes \in InReady => create \in {"cancelled", "failed"}

\* Calls wait in _pending_calls until stdio is ready, and in _ready after that.
MadeInv ==
    /\ ~stdioReady => InReady \intersect ProtocolCalls = {}
    /\ stdioReady => pending = <<>>
    /\ stdioReady /\ made = "no" => CallMade \in InReady
    /\ lateExit => stdioReady
    /\ made = "no" <=> calls = <<>>
    /\ calls # <<>> => calls[1] = ConnectionMade
    /\ \A i \in 2..Len(calls) : calls[i] \in ProtocolCalls

\* What cannot come behind x: x again, connection_made behind a call, data of a
\* pipe behind its loss or behind later data.
Wrong(x, y) ==
    \/ x = y
    \/ y = CallMade /\ x \in ProtocolCalls
    \/ \E f \in Fds, n \in 1..MaxData : x = PipeLost(f) /\ y = Data(f, n)
    \/ \E f \in Fds, n, m \in 1..MaxData :
         m <= n /\ x = Data(f, n) /\ y = Data(f, m)
Items == Handles \union {ConnectionMade}
Disorder == {p \in Items \X Items : Wrong(p[1], p[2])}

\* What comes too late behind connection_lost, and behind the loss of the only
\* pipe: process_exited finds that the process is finished.
TooLate == {ConnectionLost} \X (Losses \union {Exited})
Unfinished == Losses \X {Exited}

\* There is no pair of R in s, nor in what was called, is to be called and waits.
Free(s, R) == \A i, j \in 1..Len(s) : i < j => <<s[i], s[j]>> \notin R
Apart(S, T, R) == \A x \in S, y \in T : <<x, y>> \notin R
Ordered(a, b, c, R) ==
    /\ Free(a, R) /\ Free(b, R) /\ Free(c, R)
    /\ Apart(Elems(a), Elems(b), R)
    /\ Apart(Elems(a), Elems(c), R)
    /\ Apart(Elems(b), Elems(c), R)

OnePipe == \A f, g \in pipes : f = g

OrderInv ==
    /\ Ordered(calls, ready, pending, Disorder)
    /\ lateExit \/ OnePipe => Ordered(calls, ready, pending, TooLate)
    /\ OnePipe /\ ~finished => Ordered(calls, ready, pending, Unfinished)

IInv == TypeOK /\ ContentInv /\ StartInv /\ MadeInv /\ OrderInv

-----------------------------------------------------------------------------
(* Sequences *)

\* What is in a sequence, and in its parts.
LEMMA ElemsFacts ==
    /\ Elems(<<>>) = {}
    /\ \A x : Elems(<<x>>) = {x}
    /\ \A x, y : Elems(<<x, y>>) = {x, y}
<1>1. Elems(<<>>) = {}
  BY DEF Elems
<1>2. ASSUME NEW x PROVE Elems(<<x>>) = {x}
  <2>1. Len(<<x>>) = 1 /\ <<x>>[1] = x /\ 1..1 = {1}
    OBVIOUS
  <2> QED
    BY <2>1 DEF Elems
<1>3. ASSUME NEW x, NEW y PROVE Elems(<<x, y>>) = {x, y}
  <2>1. Len(<<x, y>>) = 2 /\ <<x, y>>[1] = x /\ <<x, y>>[2] = y /\ 1..2 = {1, 2}
    OBVIOUS
  <2> QED
    BY <2>1 DEF Elems
<1> QED
  BY <1>1, <1>2, <1>3

\* Two sequences, one behind the other.
LEMMA Joined ==
    ASSUME NEW S, NEW a \in Seq(S), NEW b \in Seq(S), NEW R
    PROVE  /\ a \o b \in Seq(S)
           /\ Elems(a \o b) = Elems(a) \union Elems(b)
           /\ Free(a, R) /\ Free(b, R) /\ Apart(Elems(a), Elems(b), R) =>
                Free(a \o b, R)
           /\ Free(a \o b, R) =>
                Free(a, R) /\ Free(b, R) /\ Apart(Elems(a), Elems(b), R)
           /\ Elems(a) \subseteq S
<1> DEFINE n == a \o b
<1>1. /\ n \in Seq(S) /\ Len(n) = Len(a) + Len(b) /\ Len(a) \in Nat /\ Len(b) \in Nat
      /\ \A i \in 1..Len(a) : n[i] = a[i]
      /\ \A i \in 1..Len(b) : n[Len(a) + i] = b[i]
  <2>1. \A i \in 1..Len(a) : n[i] = a[i]
    OBVIOUS
  <2>2. ASSUME NEW i \in 1..Len(b) PROVE n[Len(a) + i] = b[i]
    <3>1. Len(a) + i \in 1..Len(a) + Len(b) /\ Len(a) + i > Len(a)
      OBVIOUS
    <3> QED
      BY <3>1
  <2> QED
    BY <2>1, <2>2
<1>2. ASSUME NEW i \in 1..Len(n)
      PROVE  \/ i \in 1..Len(a) /\ n[i] = a[i]
             \/ \E k \in 1..Len(b) : i = Len(a) + k /\ n[i] = b[k]
  <2>1. i \in 1..Len(a) \/ (i - Len(a) \in 1..Len(b) /\ i = Len(a) + (i - Len(a)))
    BY <1>1
  <2> QED
    BY <2>1, <1>1
<1> HIDE DEF n
<1>3. Elems(n) = Elems(a) \union Elems(b)
  <2>1. ASSUME NEW i \in 1..Len(n) PROVE n[i] \in Elems(a) \union Elems(b)
    BY <1>2 DEF Elems
  <2>2. ASSUME NEW i \in 1..Len(a) PROVE a[i] \in Elems(n)
    <3>1. i \in 1..Len(n) /\ n[i] = a[i]
      BY <1>1
    <3> QED
      BY <3>1 DEF Elems
  <2>3. ASSUME NEW i \in 1..Len(b) PROVE b[i] \in Elems(n)
    <3>1. Len(a) + i \in 1..Len(n) /\ n[Len(a) + i] = b[i]
      BY <1>1
    <3> QED
      BY <3>1 DEF Elems
  <2> QED
    BY <2>1, <2>2, <2>3 DEF Elems
<1>4. ASSUME Free(a, R), Free(b, R), Apart(Elems(a), Elems(b), R) PROVE Free(n, R)
  <2> SUFFICES ASSUME NEW i \in 1..Len(n), NEW j \in 1..Len(n), i < j
               PROVE  <<n[i], n[j]>> \notin R
    BY DEF Free
  <2>1. CASE j \in 1..Len(a) /\ n[j] = a[j]
    <3>1. i \in 1..Len(a) /\ n[i] = a[i]
      BY <2>1, <1>1
    <3> QED
      BY <2>1, <3>1, <1>4 DEF Free
  <2>2. ASSUME NEW l \in 1..Len(b), j = Len(a) + l, n[j] = b[l]
        PROVE  <<n[i], n[j]>> \notin R
    <3>1. CASE i \in 1..Len(a) /\ n[i] = a[i]
      <4>1. n[i] \in Elems(a) /\ n[j] \in Elems(b)
        BY <2>2, <3>1 DEF Elems
      <4> QED
        BY <4>1, <1>4 DEF Apart
    <3>2. ASSUME NEW k \in 1..Len(b), i = Len(a) + k, n[i] = b[k]
          PROVE  <<n[i], n[j]>> \notin R
      <4>1. k < l
        BY <2>2, <3>2, <1>1
      <4> QED
        BY <4>1, <2>2, <3>2, <1>4 DEF Free
    <3> QED
      BY <3>1, <3>2, <1>2
  <2> QED
    BY <2>1, <2>2, <1>2
<1>5. ASSUME Free(n, R) PROVE Free(a, R) /\ Free(b, R) /\ Apart(Elems(a), Elems(b), R)
  <2>1. ASSUME NEW i \in 1..Len(a), NEW j \in 1..Len(a), i < j
        PROVE  <<a[i], a[j]>> \notin R
    <3>1. i \in 1..Len(n) /\ j \in 1..Len(n) /\ n[i] = a[i] /\ n[j] = a[j]
      BY <1>1
    <3> QED
      BY <3>1, <2>1, <1>5 DEF Free
  <2>2. ASSUME NEW i \in 1..Len(b), NEW j \in 1..Len(b), i < j
        PROVE  <<b[i], b[j]>> \notin R
    <3>1. /\ Len(a) + i \in 1..Len(n) /\ Len(a) + j \in 1..Len(n)
          /\ Len(a) + i < Len(a) + j
          /\ n[Len(a) + i] = b[i] /\ n[Len(a) + j] = b[j]
      BY <1>1, <2>2
    <3> QED
      BY <3>1, <1>5 DEF Free
  <2>3. ASSUME NEW i \in 1..Len(a), NEW j \in 1..Len(b)
        PROVE  <<a[i], b[j]>> \notin R
    <3>1. /\ i \in 1..Len(n) /\ Len(a) + j \in 1..Len(n) /\ i < Len(a) + j
          /\ n[i] = a[i] /\ n[Len(a) + j] = b[j]
      BY <1>1
    <3> QED
      BY <3>1, <1>5 DEF Free
  <2> QED
    BY <2>1, <2>2, <2>3 DEF Free, Apart, Elems
<1>6. Elems(a) \subseteq S
  BY DEF Elems
<1> QED
  BY <1>1, <1>3, <1>4, <1>5, <1>6 DEF n

\* The first of a sequence and the rest.
LEMMA Split ==
    ASSUME NEW S, NEW s \in Seq(S), s # <<>>
    PROVE  /\ Head(s) \in S /\ Tail(s) \in Seq(S) /\ <<Head(s)>> \in Seq(S)
           /\ s = <<Head(s)>> \o Tail(s)
           /\ Elems(s) = {Head(s)} \union Elems(Tail(s))
<1>1. /\ Head(s) \in S /\ Tail(s) \in Seq(S) /\ <<Head(s)>> \in Seq(S)
      /\ s = <<Head(s)>> \o Tail(s)
  OBVIOUS
<1> DEFINE u == <<Head(s)>>
           v == Tail(s)
<1>2. u \in Seq(S) /\ v \in Seq(S) /\ s = u \o v
  BY <1>1
<1> HIDE DEF u, v
<1>3. Elems(u \o v) = Elems(u) \union Elems(v)
  BY <1>2, Joined
<1>4. Elems(s) = Elems(u) \union Elems(v)
  BY <1>2, <1>3
<1>5. Elems(u) = {Head(s)}
  BY ElemsFacts DEF u
<1> QED
  BY <1>1, <1>4, <1>5 DEF v

\* Short sequences.
LEMMA ShortFree ==
    ASSUME NEW R
    PROVE  /\ Free(<<>>, R)
           /\ \A x : Free(<<x>>, R)
           /\ \A x, y : <<x, y>> \notin R => Free(<<x, y>>, R)
<1>1. Free(<<>>, R)
  BY DEF Free
<1>2. ASSUME NEW x PROVE Free(<<x>>, R)
  <2>1. Len(<<x>>) = 1
    OBVIOUS
  <2>2. \A i, j \in 1..1 : ~(i < j)
    OBVIOUS
  <2> QED
    BY <2>1, <2>2 DEF Free
<1>3. ASSUME NEW x, NEW y, <<x, y>> \notin R PROVE Free(<<x, y>>, R)
  <2>1. Len(<<x, y>>) = 2 /\ <<x, y>>[1] = x /\ <<x, y>>[2] = y
    OBVIOUS
  <2>2. \A i, j \in 1..2 : i < j => i = 1 /\ j = 2
    OBVIOUS
  <2> QED
    BY <1>3, <2>1, <2>2 DEF Free
<1> QED
  BY <1>1, <1>2, <1>3

\* A set of numbers has a least one.
LEMMA LeastOf ==
    ASSUME NEW I, I \subseteq Nat, I # {}
    PROVE  Min(I) \in I
<1> DEFINE R == OpToRel(<, Nat)
<1>1. IsWellFoundedOn(R, Nat)
  BY NatLessThanWellFounded, Zenon
<1>2. \A x, y \in Nat : y < x => <<y, x>> \in R
  BY DEF OpToRel
<1> HIDE DEF R
<1>3. PICK x \in I : \A y \in I : ~ (<<y, x>> \in R)
  <2>1. \A Q, S, T : /\ IsWellFoundedOn(Q, S) /\ T \subseteq S /\ T # {}
                     => \E x \in T : \A y \in T : ~ (<<y, x>> \in Q)
    BY WFMin
  <2> QED
    BY <1>1, <2>1
<1>4. ASSUME NEW y \in I PROVE x <= y
  <2>1. x \in Nat /\ y \in Nat
    OBVIOUS
  <2>2. ~ (y < x)
    BY <1>2, <1>3, <2>1, Zenon
  <2> QED
    BY <2>1, <2>2
<1> QED
  BY <1>4 DEF Min

-----------------------------------------------------------------------------
(* Handles and calls *)

\* Handles of the loop that are no calls, connection_made apart.
Plain ==
    {StdioInited, CreateWakes} \union {PipeMade(f) : f \in Fds}
        \union {PipeEnds(f) : f \in Fds} \union {Gathers(f) : f \in Fds}

\* What a handle is made of tells it from every other.
LEMMA HandleFacts ==
    /\ \A f : PipeMade(f).what = "PipeMade" /\ PipeMade(f).fd = f
    /\ \A f : PipeEnds(f).what = "PipeEnds" /\ PipeEnds(f).fd = f
    /\ \A f : Gathers(f).what = "Gathers" /\ Gathers(f).fd = f
    /\ StdioInited.what = "StdioInited"
    /\ CallMade.what = "CallMade"
    /\ CreateWakes.what = "CreateWakes"
    /\ ConnectionMade.what = "connection_made"
    /\ \A f, n : /\ Data(f, n).what = "pipe_data_received"
                 /\ Data(f, n).fd = f /\ Data(f, n).n = n
    /\ \A f : PipeLost(f).what = "pipe_connection_lost" /\ PipeLost(f).fd = f
    /\ Exited.what = "process_exited"
    /\ ConnectionLost.what = "connection_lost"
BY DEF Handle, PipeMade, PipeEnds, Gathers, StdioInited, CallMade, CreateWakes,
       ConnectionMade, Data, PipeLost, Exited, ConnectionLost

\* The kinds of calls, and what they are not.
LEMMA CallFacts ==
    /\ Exited \in ProtocolCalls /\ ConnectionLost \in ProtocolCalls
    /\ \A f \in Fds : PipeLost(f) \in ProtocolCalls
    /\ \A f \in Fds, n \in 1..MaxData : Data(f, n) \in ProtocolCalls
    /\ \A c \in ProtocolCalls :
         /\ \/ c = Exited \/ c = ConnectionLost
            \/ \E f \in Fds : c = PipeLost(f)
            \/ \E f \in Fds, n \in 1..MaxData : c = Data(f, n)
         /\ c # CallMade /\ c # ConnectionMade /\ c \notin Plain
         /\ c.what \in {"process_exited", "connection_lost",
                        "pipe_connection_lost", "pipe_data_received"}
    /\ ConnectionMade \notin Handles
    /\ CallMade \in Handles /\ CallMade \notin Plain
    /\ ProtocolCalls \subseteq Handles /\ Plain \subseteq Handles
    /\ \A x \in Handles : x \in ProtocolCalls \/ x \in Plain \/ x = CallMade
<1>1. ASSUME NEW c \in ProtocolCalls
      PROVE  /\ \/ c = Exited \/ c = ConnectionLost
                \/ \E f \in Fds : c = PipeLost(f)
                \/ \E f \in Fds, n \in 1..MaxData : c = Data(f, n)
             /\ c.what \in {"process_exited", "connection_lost",
                            "pipe_connection_lost", "pipe_data_received"}
  <2>1. \/ c = Exited \/ c = ConnectionLost
        \/ \E f \in Fds : c = PipeLost(f)
        \/ \E f \in Fds, n \in 1..MaxData : c = Data(f, n)
    BY DEF ProtocolCalls
  <2> QED
    BY <2>1, HandleFacts
<1>2. ASSUME NEW x \in Plain
      PROVE  x.what \in {"StdioInited", "CreateWakes", "PipeMade", "PipeEnds",
                         "Gathers"}
  BY HandleFacts DEF Plain
<1>3. \A c \in ProtocolCalls : c # CallMade /\ c # ConnectionMade /\ c \notin Plain
  BY <1>1, <1>2, HandleFacts
<1>4. CallMade \notin Plain /\ ConnectionMade \notin Plain /\ CallMade # ConnectionMade
  BY <1>2, HandleFacts
<1>5. /\ Exited \in ProtocolCalls /\ ConnectionLost \in ProtocolCalls
      /\ \A f \in Fds : PipeLost(f) \in ProtocolCalls
      /\ \A f \in Fds, n \in 1..MaxData : Data(f, n) \in ProtocolCalls
  BY DEF ProtocolCalls
<1>6. Handles = ProtocolCalls \union Plain \union {CallMade}
  BY DEF Handles, Plain
<1> QED
  BY <1>1, <1>3, <1>4, <1>5, <1>6

\* The pairs that are wrong.
LEMMA PairFacts ==
    /\ \A x, y : <<x, y>> \in Disorder <=> x \in Items /\ y \in Items /\ Wrong(x, y)
    /\ \A x, y : <<x, y>> \in TooLate <=>
         x = ConnectionLost /\ (y \in Losses \/ y = Exited)
    /\ \A x, y : <<x, y>> \in Unfinished <=> x \in Losses /\ y = Exited
<1>1. \A x, y : <<x, y>> \in Disorder <=> x \in Items /\ y \in Items /\ Wrong(x, y)
  <2> SUFFICES ASSUME NEW x, NEW y
               PROVE  <<x, y>> \in Disorder <=> x \in Items /\ y \in Items /\ Wrong(x, y)
    OBVIOUS
  <2>1. <<x, y>>[1] = x /\ <<x, y>>[2] = y
    OBVIOUS
  <2>2. <<x, y>> \in Items \X Items <=> x \in Items /\ y \in Items
    OBVIOUS
  <2> QED
    BY <2>1, <2>2, Zenon DEF Disorder
<1>2. \A x, y : <<x, y>> \in TooLate <=>
        x = ConnectionLost /\ (y \in Losses \/ y = Exited)
  BY DEF TooLate
<1>3. \A x, y : <<x, y>> \in Unfinished <=> x \in Losses /\ y = Exited
  BY DEF Unfinished
<1> QED
  BY <1>1, <1>2, <1>3

Orders == {Disorder, TooLate, Unfinished}

\* New handles of the loop are in no wrong order with what is there.
LEMMA PlainApart ==
    ASSUME NEW S, NEW T, T \subseteq Plain, S \intersect T = {}, NEW R \in Orders
    PROVE  Apart(S, T, R) /\ Apart(T, S, R)
<1>1. ASSUME NEW x \in S, NEW y \in T
      PROVE  /\ <<x, y>> \notin Disorder /\ <<y, x>> \notin Disorder
             /\ <<x, y>> \notin TooLate /\ <<y, x>> \notin TooLate
             /\ <<x, y>> \notin Unfinished /\ <<y, x>> \notin Unfinished
  <2>1. /\ y # x /\ y # CallMade /\ y \notin ProtocolCalls
        /\ y # ConnectionLost /\ y # Exited /\ \A f \in Fds : y # PipeLost(f)
        /\ \A f \in Fds, n \in 1..MaxData : y # Data(f, n)
    BY CallFacts
  <2>2. y \notin Losses
    BY <2>1 DEF Losses
  <2>3. ~Wrong(x, y) /\ ~Wrong(y, x)
    BY <2>1 DEF Wrong
  <2> QED
    BY <2>1, <2>2, <2>3, PairFacts
<1> QED
  BY <1>1 DEF Apart, Orders

-----------------------------------------------------------------------------
(* Calls made, in the loop and waiting: what keeps them ordered *)

\* Pairs of a set, of a part of it and of a union.
LEMMA ApartFacts ==
    ASSUME NEW R
    PROVE  /\ \A S, T, U : Apart(S \union T, U, R) <=> Apart(S, U, R) /\ Apart(T, U, R)
           /\ \A S, T, U : Apart(U, S \union T, R) <=> Apart(U, S, R) /\ Apart(U, T, R)
           /\ \A S, T, U : Apart(S, U, R) /\ T \subseteq S => Apart(T, U, R)
           /\ \A S : Apart({}, S, R) /\ Apart(S, {}, R)
BY DEF Apart

\* The handle at the head leaves the loop.
LEMMA Drop ==
    ASSUME NEW S, NEW a, NEW b \in Seq(S), NEW c, NEW R, b # <<>>,
           Ordered(a, b, c, R)
    PROVE  /\ Ordered(a, Tail(b), c, R)
           /\ Apart(Elems(a), {Head(b)}, R)
           /\ Apart({Head(b)}, Elems(Tail(b)), R)
           /\ Apart({Head(b)}, Elems(c), R)
<1> DEFINE u == <<Head(b)>>
           v == Tail(b)
<1>1. u \in Seq(S) /\ v \in Seq(S) /\ b = u \o v /\ Elems(u) = {Head(b)}
  BY Split, ElemsFacts
<1> HIDE DEF u, v
<1>2. Free(u, R) /\ Free(v, R) /\ Apart(Elems(u), Elems(v), R)
  <2>1. Free(u \o v, R)
    BY <1>1 DEF Ordered
  <2> QED
    BY <2>1, <1>1, Joined
<1>3. Elems(b) = Elems(u) \union Elems(v)
  <2>1. u \in Seq(S) /\ v \in Seq(S)
    BY <1>1
  <2>2. Elems(u \o v) = Elems(u) \union Elems(v)
    BY <2>1, Joined
  <2> QED
    BY <2>2, <1>1
<1>4. /\ Apart(Elems(a), Elems(u), R) /\ Apart(Elems(a), Elems(v), R)
      /\ Apart(Elems(u), Elems(c), R) /\ Apart(Elems(v), Elems(c), R)
  BY <1>3, ApartFacts DEF Ordered
<1>5. Ordered(a, v, c, R)
  BY <1>2, <1>4 DEF Ordered
<1> QED
  BY <1>1, <1>2, <1>4, <1>5 DEF v

\* Handles are appended to the loop's.
LEMMA Grow ==
    ASSUME NEW S, NEW a, NEW b \in Seq(S), NEW c, NEW t \in Seq(S), NEW R,
           Ordered(a, b, c, R), Free(t, R),
           Apart(Elems(a), Elems(t), R), Apart(Elems(b), Elems(t), R),
           Apart(Elems(t), Elems(c), R)
    PROVE  Ordered(a, b \o t, c, R)
<1>1. Elems(b \o t) = Elems(b) \union Elems(t)
  BY Joined
<1>2. Free(b \o t, R)
  BY Joined DEF Ordered
<1>3. Apart(Elems(a), Elems(b \o t), R) /\ Apart(Elems(b \o t), Elems(c), R)
  BY <1>1, ApartFacts DEF Ordered
<1> QED
  BY <1>2, <1>3 DEF Ordered

\* Calls are appended to those that wait.
LEMMA GrowLast ==
    ASSUME NEW S, NEW a, NEW b, NEW c \in Seq(S), NEW t \in Seq(S), NEW R,
           Ordered(a, b, c, R), Free(t, R),
           Apart(Elems(a), Elems(t), R), Apart(Elems(b), Elems(t), R),
           Apart(Elems(c), Elems(t), R)
    PROVE  Ordered(a, b, c \o t, R)
<1>1. Elems(c \o t) = Elems(c) \union Elems(t)
  BY Joined
<1>2. Free(c \o t, R)
  BY Joined DEF Ordered
<1>3. Apart(Elems(a), Elems(c \o t), R) /\ Apart(Elems(b), Elems(c \o t), R)
  BY <1>1, ApartFacts DEF Ordered
<1> QED
  BY <1>2, <1>3 DEF Ordered

\* A call is made.
LEMMA GrowFirst ==
    ASSUME NEW S, NEW a \in Seq(S), NEW b, NEW c, NEW x \in S, NEW R,
           Ordered(a, b, c, R), Apart(Elems(a), {x}, R),
           Apart({x}, Elems(b), R), Apart({x}, Elems(c), R)
    PROVE  Ordered(Append(a, x), b, c, R)
<1> DEFINE u == <<x>>
<1>1. u \in Seq(S) /\ Append(a, x) = a \o u
  OBVIOUS
<1>2. Elems(u) = {x} /\ Free(u, R)
  BY ElemsFacts, ShortFree
<1> HIDE DEF u
<1>3. Elems(a \o u) = Elems(a) \union Elems(u) /\ Free(a \o u, R)
  <2>1. Free(a, R) /\ Free(u, R) /\ Apart(Elems(a), Elems(u), R)
    BY <1>2 DEF Ordered
  <2>2. u \in Seq(S)
    BY <1>1
  <2> QED
    BY <2>1, <2>2, Joined
<1>4. Apart(Elems(a \o u), Elems(b), R) /\ Apart(Elems(a \o u), Elems(c), R)
  BY <1>2, <1>3, ApartFacts DEF Ordered
<1> QED
  BY <1>1, <1>3, <1>4 DEF Ordered

\* What waits is moved into the loop.
LEMMA Moved ==
    ASSUME NEW S, NEW a, NEW b \in Seq(S), NEW c \in Seq(S), NEW R,
           Ordered(a, b, c, R)
    PROVE  Ordered(a, b \o c, <<>>, R)
<1>1. Elems(b \o c) = Elems(b) \union Elems(c) /\ Free(b \o c, R)
  BY Joined DEF Ordered
<1>2. Apart(Elems(a), Elems(b \o c), R)
  BY <1>1, ApartFacts DEF Ordered
<1> QED
  BY <1>1, <1>2, ElemsFacts, ShortFree, ApartFacts DEF Ordered

\* A call comes between two others of those that wait.
LEMMA Inserted ==
    ASSUME NEW S, NEW u \in Seq(S), NEW v \in Seq(S), NEW x \in S, NEW R,
           NEW a, NEW b, Ordered(a, b, u \o v, R),
           Apart(Elems(a), {x}, R), Apart(Elems(b), {x}, R),
           Apart(Elems(u), {x}, R), Apart({x}, Elems(v), R)
    PROVE  Ordered(a, b, u \o <<x>> \o v, R)
<1> DEFINE m == <<x>>
           w == u \o m
<1>1. m \in Seq(S) /\ Elems(m) = {x} /\ Free(m, R)
  <2>1. m \in Seq(S)
    OBVIOUS
  <2> QED
    BY <2>1, ElemsFacts, ShortFree
<1>2. /\ Free(u, R) /\ Free(v, R) /\ Apart(Elems(u), Elems(v), R)
      /\ Elems(u \o v) = Elems(u) \union Elems(v)
  BY Joined DEF Ordered
<1> HIDE DEF m
<1>3. w \in Seq(S) /\ Elems(w) = Elems(u) \union Elems(m) /\ Free(w, R)
  <2>1. Free(u, R) /\ Free(m, R) /\ Apart(Elems(u), Elems(m), R)
    BY <1>1, <1>2
  <2>2. /\ u \o m \in Seq(S) /\ Elems(u \o m) = Elems(u) \union Elems(m)
        /\ Free(u \o m, R)
    <3>1. m \in Seq(S)
      BY <1>1
    <3> QED
      BY <2>1, <3>1, Joined
  <2> QED
    BY <2>2
<1> HIDE DEF w
<1>4. Apart(Elems(w), Elems(v), R)
  BY <1>1, <1>2, <1>3, ApartFacts
<1>5. Elems(w \o v) = Elems(w) \union Elems(v) /\ Free(w \o v, R)
  <2>1. w \in Seq(S) /\ Free(w, R) /\ Free(v, R)
    BY <1>2, <1>3
  <2> QED
    BY <2>1, <1>4, Joined
<1>6. Elems(w \o v) = Elems(u \o v) \union {x}
  BY <1>1, <1>2, <1>3, <1>5
<1>7. Apart(Elems(a), Elems(w \o v), R) /\ Apart(Elems(b), Elems(w \o v), R)
  <2>1. Apart(Elems(a), Elems(u \o v), R) /\ Apart(Elems(b), Elems(u \o v), R)
    BY DEF Ordered
  <2> DEFINE E == Elems(u \o v)
             F == Elems(w \o v)
  <2>2. F = E \union {x}
    BY <1>6
  <2>3. Apart(Elems(a), E, R) /\ Apart(Elems(b), E, R)
    BY <2>1
  <2> HIDE DEF E, F
  <2>4. Apart(Elems(a), F, R) /\ Apart(Elems(b), F, R)
    BY <2>2, <2>3, ApartFacts
  <2> QED
    BY <2>4 DEF F
<1>8. Ordered(a, b, w \o v, R)
  BY <1>5, <1>7 DEF Ordered
<1> QED
  BY <1>8 DEF w, m

\* New handles of the loop disturb no order.
LEMMA PlainGrow ==
    ASSUME NEW a, NEW b \in Seq(Handles), NEW c, NEW t \in Seq(Handles),
           NEW R \in Orders, Ordered(a, b, c, R), Free(t, R),
           Elems(t) \subseteq Plain,
           (Elems(a) \union Elems(b) \union Elems(c)) \intersect Elems(t) = {}
    PROVE  Ordered(a, b \o t, c, R)
<1>1. /\ Apart(Elems(a), Elems(t), R) /\ Apart(Elems(b), Elems(t), R)
      /\ Apart(Elems(t), Elems(c), R)
  BY PlainApart
<1> QED
  BY <1>1, Grow

\* Nothing is there twice.
LEMMA Unique ==
    ASSUME NEW S, S \subseteq Items, NEW a, NEW b \in Seq(S), NEW c, b # <<>>,
           Ordered(a, b, c, Disorder)
    PROVE  /\ Head(b) \notin Elems(a) /\ Head(b) \notin Elems(c)
           /\ Elems(Tail(b)) = Elems(b) \ {Head(b)}
<1>1. Head(b) \in Items /\ Elems(b) = {Head(b)} \union Elems(Tail(b))
  BY Split
<1>2. <<Head(b), Head(b)>> \in Disorder
  BY <1>1, PairFacts DEF Wrong
<1>3. /\ Apart(Elems(a), {Head(b)}, Disorder)
      /\ Apart({Head(b)}, Elems(Tail(b)), Disorder)
      /\ Apart({Head(b)}, Elems(c), Disorder)
  BY Drop
<1>4. Head(b) \notin Elems(a) /\ Head(b) \notin Elems(c) /\ Head(b) \notin Elems(Tail(b))
  BY <1>2, <1>3 DEF Apart
<1> QED
  BY <1>1, <1>4

-----------------------------------------------------------------------------
(* What a step does to the handles and calls *)

\* The kinds of handles in each sequence.
LEMMA Kinds ==
    ASSUME TypeOK
    PROVE  /\ Elems(calls) \subseteq Told /\ InReady \subseteq Handles
           /\ Elems(pending) \subseteq ProtocolCalls
           /\ Elems(calls) \intersect Plain = {} /\ Elems(pending) \intersect Plain = {}
           /\ pending \in Seq(Handles)
           /\ All \subseteq Items
           /\ Handles \subseteq Items /\ Told \subseteq Items
<1>1. calls \in Seq(Told) /\ ready \in Seq(Handles) /\ pending \in Seq(ProtocolCalls)
  BY DEF TypeOK, ScalarOK, QueueOK
<1>2. /\ Elems(calls) \subseteq Told /\ InReady \subseteq Handles
      /\ Elems(pending) \subseteq ProtocolCalls
  BY <1>1 DEF InReady, Elems
<1>3. ConnectionMade \notin Plain /\ ProtocolCalls \subseteq Handles
      /\ \A c \in ProtocolCalls : c \notin Plain
  BY CallFacts
<1>4. pending \in Seq(Handles)
  BY <1>1, <1>3
<1> QED
  BY <1>2, <1>3, <1>4 DEF Told, Items, All, InReady

\* What is left of the loop's handles when the first of them runs.
LEMMA Taken ==
    ASSUME TypeOK, OrderInv, ready # <<>>
    PROVE  /\ Head(ready) \in Handles /\ Head(ready) \in InReady
           /\ Tail(ready) \in Seq(Handles)
           /\ Elems(Tail(ready)) = InReady \ {Head(ready)}
           /\ Head(ready) \notin Elems(calls) /\ Head(ready) \notin Elems(pending)
           /\ \A R : Ordered(calls, ready, pending, R) =>
                Ordered(calls, Tail(ready), pending, R)
<1>1. ready \in Seq(Handles) /\ Ordered(calls, ready, pending, Disorder)
  BY DEF TypeOK, ScalarOK, QueueOK, OrderInv
<1>2. /\ Head(ready) \in Handles /\ Tail(ready) \in Seq(Handles)
      /\ Elems(ready) = {Head(ready)} \union Elems(Tail(ready))
  BY <1>1, Split
<1>3. /\ Head(ready) \notin Elems(calls) /\ Head(ready) \notin Elems(pending)
      /\ Elems(Tail(ready)) = Elems(ready) \ {Head(ready)}
  BY <1>1, Kinds, Unique
<1>4. ASSUME NEW R, Ordered(calls, ready, pending, R)
      PROVE  Ordered(calls, Tail(ready), pending, R)
  BY <1>1, <1>4, Drop
<1> QED
  BY <1>2, <1>3, <1>4 DEF InReady

\* A step after which whatever was ordered is.
LEMMA KeepsOrder ==
    ASSUME OrderInv, pipes' = pipes, lateExit' = lateExit, finished => finished',
           \A R \in Orders : Ordered(calls, ready, pending, R) =>
                                 Ordered(calls', ready', pending', R)
    PROVE  OrderInv'
<1>1. OnePipe' <=> OnePipe
  BY DEF OnePipe
<1> QED
  BY <1>1 DEF OrderInv, Orders

\* A step that neither makes calls known nor learns anything.
LEMMA KeepsContent ==
    ASSUME TypeOK, ContentInv,
           UNCHANGED <<pipes, received, disconnected, returncode, finished>>,
           All' \intersect ProtocolCalls = All \intersect ProtocolCalls
    PROVE  ContentInv'
<1>1. \A c \in ProtocolCalls : c \in All' <=> c \in All
  OBVIOUS
<1>2. pipes \subseteq Fds
  BY DEF TypeOK, ScalarOK, QueueOK
<1>3. /\ \A f \in pipes, n \in 1..MaxData : Data(f, n) \in All <=> n <= received[f]
      /\ \A f \in Fds : PipeLost(f) \in All <=> f \in disconnected
      /\ Exited \in All <=> returncode
      /\ ConnectionLost \in All <=> finished
      /\ finished => returncode /\ pipes \subseteq disconnected
  BY DEF ContentInv
<1> QED
  BY <1>1, <1>2, <1>3, CallFacts DEF ContentInv

\* A step that touches neither the calls nor the loop's handles.
LEMMA QuietStep ==
    ASSUME IInv, TypeOK',
           UNCHANGED <<pipes, received, pipe, disconnected, gathered, stdioReady,
                       pending, finished, returncode, lateExit, create, ready,
                       calls>>,
           made' = made \/ (made = "in" /\ made' = "escaped")
    PROVE  IInv'
<1>1. ContentInv'
  BY DEF IInv, ContentInv, All
<1>2. StartInv'
  BY DEF IInv, StartInv, InReady
<1>3. MadeInv'
  BY DEF IInv, MadeInv, InReady
<1>4. OrderInv'
  BY KeepsOrder DEF IInv
<1> QED
  BY <1>1, <1>2, <1>3, <1>4 DEF IInv

\* Handles of the loop are appended to b, what is there or left of it.
LEMMA PlainStep ==
    ASSUME TypeOK, ContentInv, OrderInv,
           NEW b \in Seq(Handles), Elems(b) \subseteq InReady,
           InReady \intersect ProtocolCalls \subseteq Elems(b),
           \A R \in Orders : Ordered(calls, ready, pending, R) =>
                                 Ordered(calls, b, pending, R),
           NEW t \in Seq(Handles), Elems(t) \subseteq Plain,
           Elems(b) \intersect Elems(t) = {}, \A R \in Orders : Free(t, R),
           UNCHANGED <<pipes, received, disconnected, returncode, finished,
                       lateExit, calls, pending>>,
           ready' = b \o t
    PROVE  /\ ContentInv' /\ OrderInv'
           /\ ready' \in Seq(Handles) /\ InReady' = Elems(b) \union Elems(t)
<1>1. ready' \in Seq(Handles) /\ InReady' = Elems(b) \union Elems(t)
  <2>1. b \o t \in Seq(Handles) /\ Elems(b \o t) = Elems(b) \union Elems(t)
    BY Joined
  <2> QED
    BY <2>1 DEF InReady
<1>2. All' = Elems(calls) \union (Elems(b) \union Elems(t)) \union Elems(pending)
  BY <1>1 DEF All, InReady
<1>3. All' \intersect ProtocolCalls = All \intersect ProtocolCalls
  <2>1. Elems(t) \intersect ProtocolCalls = {}
    BY CallFacts
  <2> QED
    BY <1>2, <2>1 DEF All, InReady
<1>4. ContentInv'
  BY <1>3, KeepsContent
<1>5. OrderInv'
  <2>1. ASSUME NEW R \in Orders, Ordered(calls, ready, pending, R)
        PROVE  Ordered(calls', ready', pending', R)
    <3>1. Ordered(calls, b, pending, R) /\ Free(t, R)
      BY <2>1
    <3>2. (Elems(calls) \union Elems(b) \union Elems(pending)) \intersect Elems(t) = {}
      BY Kinds
    <3>3. Ordered(calls, b \o t, pending, R)
      BY <3>1, <3>2, PlainGrow
    <3> QED
      BY <3>3
  <2> QED
    BY <2>1, KeepsOrder
<1> QED
  BY <1>1, <1>4, <1>5

\* The pipes of which a sequence has a handle each.
LEMMA ForPipesFacts ==
    ASSUME NEW S, S \subseteq Fds, NEW what \in {"PipeMade", "PipeEnds"}
    PROVE  /\ ForPipes(S, what) \in Seq(Handles)
           /\ Elems(ForPipes(S, what)) = {Handle(what, f, 0) : f \in S}
           /\ Elems(ForPipes(S, what)) \subseteq Plain
           /\ \A R \in Orders : Free(ForPipes(S, what), R)
<1> DEFINE One(f) == IF f \in S THEN <<Handle(what, f, 0)>> ELSE <<>>
           In(f) == IF f \in S THEN {Handle(what, f, 0)} ELSE {}
           H == {Handle(what, f, 0) : f \in Fds}
<1>1. H \subseteq Plain /\ Plain \subseteq Handles
  BY CallFacts DEF Plain, PipeMade, PipeEnds
<1>2. ASSUME NEW f \in Fds
      PROVE  /\ One(f) \in Seq(Handles) /\ Elems(One(f)) = In(f)
             /\ \A R : Free(One(f), R)
  <2>1. Handle(what, f, 0) \in Handles
    BY <1>1
  <2>2. CASE f \in S
    <3>1. <<Handle(what, f, 0)>> \in Seq(Handles)
      BY <2>1
    <3> QED
      BY <3>1, <2>2, ElemsFacts, ShortFree
  <2>3. CASE f \notin S
    BY <2>3, ElemsFacts, ShortFree
  <2> QED
    BY <2>2, <2>3
<1>3. ASSUME NEW f \in Fds, NEW g \in Fds, f # g, NEW R \in Orders
      PROVE  Apart(In(f), In(g), R)
  <2>1. In(f) \subseteq H /\ In(g) \subseteq H
    OBVIOUS
  <2>2. In(f) \intersect In(g) = {}
    BY <1>3 DEF Handle
  <2> QED
    BY <1>1, <2>1, <2>2, PlainApart
<1>4. 0 \in Fds /\ 1 \in Fds /\ 2 \in Fds /\ Fds = {0, 1, 2}
  BY DEF Fds
<1> HIDE DEF One, In
<1>5. /\ One(0) \o One(1) \in Seq(Handles)
      /\ Elems(One(0) \o One(1)) = In(0) \union In(1)
      /\ \A R \in Orders : Free(One(0) \o One(1), R)
  <2>1. \A R \in Orders : Apart(Elems(One(0)), Elems(One(1)), R)
    BY <1>2, <1>3, <1>4
  <2>2. One(0) \in Seq(Handles) /\ One(1) \in Seq(Handles)
    BY <1>2, <1>4
  <2>3. \A R \in Orders : Free(One(0), R) /\ Free(One(1), R)
    BY <1>2, <1>4
  <2>4. One(0) \o One(1) \in Seq(Handles) /\ \A R \in Orders : Free(One(0) \o One(1), R)
    BY <2>1, <2>2, <2>3, Joined
  <2>5. Elems(One(0) \o One(1)) = Elems(One(0)) \union Elems(One(1))
    BY <2>2, Joined
  <2> QED
    BY <2>4, <2>5, <1>2, <1>4
<1> DEFINE Two == One(0) \o One(1)
<1>6. Two \in Seq(Handles) /\ Elems(Two) = In(0) \union In(1) /\ \A R \in Orders : Free(Two, R)
  BY <1>5
<1> HIDE DEF Two
<1>7. /\ Two \o One(2) \in Seq(Handles)
      /\ Elems(Two \o One(2)) = In(0) \union In(1) \union In(2)
      /\ \A R \in Orders : Free(Two \o One(2), R)
  <2>1. \A R \in Orders : Apart(In(0), In(2), R) /\ Apart(In(1), In(2), R)
    BY <1>3, <1>4
  <2>2. \A R \in Orders : Apart(Elems(Two), Elems(One(2)), R)
    BY <2>1, <1>2, <1>4, <1>6, ApartFacts
  <2>3. One(2) \in Seq(Handles) /\ Elems(One(2)) = In(2) /\ \A R \in Orders : Free(One(2), R)
    BY <1>2, <1>4
  <2>4. Two \o One(2) \in Seq(Handles) /\ \A R \in Orders : Free(Two \o One(2), R)
    <3>1. Two \in Seq(Handles) /\ One(2) \in Seq(Handles)
      BY <2>3, <1>6
    <3>2. \A R \in Orders : Free(Two, R) /\ Free(One(2), R)
      BY <2>3, <1>6
    <3> QED
      BY <2>2, <3>1, <3>2, Joined
  <2>5. Elems(Two \o One(2)) = Elems(Two) \union Elems(One(2))
    BY <2>3, <1>6, Joined
  <2> QED
    BY <2>3, <2>4, <2>5, <1>6
<1>8. In(0) \union In(1) \union In(2) = {Handle(what, f, 0) : f \in S}
  BY <1>4 DEF In
<1>9. ForPipes(S, what) = Two \o One(2)
  BY DEF ForPipes, Two, One
<1>10. {Handle(what, f, 0) : f \in S} \subseteq H
  OBVIOUS
<1> QED
  BY <1>1, <1>7, <1>8, <1>9, <1>10

-----------------------------------------------------------------------------
(* Types *)

\* Every step keeps the types of what is no sequence.
LEMMA ScalarStep ==
    ASSUME ScalarOK, Next
    PROVE  ScalarOK'
<1>0. MaxData \in Nat
  BY ProcessAssumption
<1>1. CASE ChildExits
  BY <1>1 DEF ScalarOK, ChildExits, pipeVars, finishVars, initVars, exitVars
<1>2. ASSUME NEW f \in pipes, ChildWrites(f) PROVE ScalarOK'
  BY <1>0, <1>2 DEF ScalarOK, ChildWrites, pipeVars, finishVars, initVars, exitVars
<1>3. ASSUME NEW f \in pipes, ChildCloses(f) PROVE ScalarOK'
  BY <1>3 DEF ScalarOK, ChildCloses, pipeVars, finishVars, initVars, exitVars
<1>4. CASE OnExit
  BY <1>4 DEF ScalarOK, OnExit, AndFinish, TryFinish, childVars, pipeVars, initVars
<1>5. CASE Flushed
  BY <1>5 DEF ScalarOK, Flushed, childVars, finishVars, initVars, exitVars
<1>6. ASSUME NEW f \in pipes, ReadData(f) PROVE ScalarOK'
  BY <1>0, <1>6 DEF ScalarOK, ReadData, childVars, initVars, exitVars
<1>7. ASSUME NEW f \in pipes, ReadEof(f) PROVE ScalarOK'
  BY <1>7 DEF ScalarOK, ReadEof, childVars, finishVars, initVars, exitVars
<1>8. CASE BatchStarts
  BY <1>8 DEF ScalarOK, BatchStarts, childVars, pipeVars, finishVars, initVars, exitVars
<1>9. ASSUME NEW f \in pipes, RunPipeMade(f) PROVE ScalarOK'
  BY <1>9 DEF ScalarOK, RunPipeMade, childVars, finishVars, initVars, exitVars
<1>10. ASSUME NEW f \in pipes, RunGathers(f) PROVE ScalarOK'
  BY <1>10 DEF ScalarOK, RunGathers, childVars, pipeVars, finishVars, exitVars
<1>11. ASSUME NEW f \in pipes, RunPipeEnds(f) PROVE ScalarOK'
  BY <1>11 DEF ScalarOK, RunPipeEnds, LostIsScheduled, TryFinish, childVars,
               initVars, exitVars
<1>12. CASE RunStdioInited
  BY <1>12 DEF ScalarOK, RunStdioInited, childVars, pipeVars, finishVars, initVars,
               exitVars
<1>13. CASE RunCallMade
  BY <1>13 DEF ScalarOK, RunCallMade, childVars, pipeVars, finishVars, exitVars
<1>14. CASE RunCreateWakes
  BY <1>14 DEF ScalarOK, RunCreateWakes, Closing, finishVars, initVars, exitVars
<1>15. ASSUME NEW c \in ProtocolCalls, RunCall(c) PROVE ScalarOK'
  BY <1>15 DEF ScalarOK, RunCall, childVars, pipeVars, finishVars, initVars, exitVars
<1>16. CASE MadeReturns
  BY <1>16 DEF ScalarOK, MadeReturns, StdioIsReady, FinishesInReplay, TryFinish,
               childVars, pipeVars, exitVars
<1>17. CASE MadeRaises
  BY <1>17 DEF ScalarOK, MadeRaises, StdioIsReady, FinishesInReplay, TryFinish,
               childVars, pipeVars, finishVars, exitVars
<1>18. CASE MadeInterrupted
  BY <1>18 DEF ScalarOK, MadeInterrupted, childVars, pipeVars, finishVars, exitVars
<1>19. CASE Close
  BY <1>19 DEF ScalarOK, Close, Closing, finishVars, initVars, exitVars
<1>20. CASE Wait
  BY <1>20 DEF ScalarOK, Wait, childVars, pipeVars, finishVars, initVars
<1>21. CASE CancelCreate
  BY <1>21 DEF ScalarOK, CancelCreate, childVars, pipeVars, finishVars, exitVars
<1>22. ASSUME NEW f \in pipes, ClosePipe(f) PROVE ScalarOK'
  BY <1>22 DEF ScalarOK, ClosePipe, childVars, finishVars, initVars, exitVars
<1> QED
  BY <1>1, <1>2, <1>3, <1>4, <1>5, <1>6, <1>7, <1>8, <1>9, <1>10, <1>11, <1>12,
     <1>13, <1>14, <1>15, <1>16, <1>17, <1>18, <1>19, <1>20, <1>21, <1>22
     DEF Next, Child, RunHandle, User

-----------------------------------------------------------------------------
(* Calls that become known *)

\* A step after which the handles that are no calls are where they were.
LEMMA KeepsStart ==
    ASSUME StartInv, UNCHANGED <<pipes, pipe, disconnected, gathered, create, made>>,
           \A x \in Plain \union {CallMade} : x \in InReady' <=> x \in InReady
    PROVE  StartInv'
<1>1. /\ StdioInited \in Plain /\ CreateWakes \in Plain
      /\ \A f \in Fds : PipeMade(f) \in Plain /\ PipeEnds(f) \in Plain
                        /\ Gathers(f) \in Plain
  BY DEF Plain
<1>2. /\ StdioInited \in InReady' <=> StdioInited \in InReady
      /\ CallMade \in InReady' <=> CallMade \in InReady
      /\ CreateWakes \in InReady' <=> CreateWakes \in InReady
      /\ \A f \in Fds : /\ PipeMade(f) \in InReady' <=> PipeMade(f) \in InReady
                        /\ PipeEnds(f) \in InReady' <=> PipeEnds(f) \in InReady
                        /\ Gathers(f) \in InReady' <=> Gathers(f) \in InReady
  BY <1>1
<1> QED
  BY <1>2 DEF StartInv

\* Where _pipe_data_received() and the others put a call.
LEMMA DeliverStep ==
    ASSUME TypeOK, MadeInv, NEW s \in Seq(ProtocolCalls), Deliver(s),
           UNCHANGED <<calls, stdioReady, made>>, lateExit' => stdioReady'
    PROVE  /\ QueueOK' /\ MadeInv' /\ All' = All \union Elems(s)
           /\ \A x \in Plain \union {CallMade} : x \in InReady' <=> x \in InReady
           /\ \A R : /\ Ordered(calls, ready, pending, R)
                     /\ Free(s, R) /\ Apart(All, Elems(s), R)
                     => Ordered(calls', ready', pending', R)
<1>1. calls \in Seq(Told) /\ ready \in Seq(Handles) /\ pending \in Seq(ProtocolCalls)
  BY DEF TypeOK, QueueOK
<1>2. s \in Seq(Handles) /\ Elems(s) \subseteq ProtocolCalls
  BY CallFacts DEF Elems
<1>3. \A x \in Plain \union {CallMade} : x \notin Elems(s)
  BY <1>2, CallFacts
<1>4. ASSUME NEW R, Apart(All, Elems(s), R)
      PROVE  /\ Apart(Elems(calls), Elems(s), R) /\ Apart(Elems(ready), Elems(s), R)
             /\ Apart(Elems(pending), Elems(s), R)
  BY <1>4 DEF Apart, All
<1>5. CASE stdioReady
  <2>1. ready' = ready \o s /\ pending' = pending /\ calls' = calls /\ pending = <<>>
    BY <1>5 DEF Deliver, MadeInv
  <2>2. ready \o s \in Seq(Handles) /\ Elems(ready \o s) = Elems(ready) \union Elems(s)
    BY <1>1, <1>2, Joined
  <2>3. QueueOK'
    BY <1>1, <2>1, <2>2 DEF QueueOK
  <2>4. InReady' = InReady \union Elems(s)
    BY <2>1, <2>2 DEF InReady
  <2>5. All' = All \union Elems(s)
    BY <2>1, <2>2 DEF All
  <2>6. MadeInv'
    BY <1>5, <2>1, <2>4 DEF MadeInv
  <2>7. ASSUME NEW R, Ordered(calls, ready, pending, R), Free(s, R),
               Apart(All, Elems(s), R)
        PROVE  Ordered(calls', ready', pending', R)
    <3>1. Apart(Elems(s), Elems(pending), R)
      BY <2>1, ElemsFacts, ApartFacts
    <3>2. Ordered(calls, ready \o s, pending, R)
      BY <1>1, <1>2, <1>4, <2>7, <3>1, Grow
    <3> QED
      BY <2>1, <3>2
  <2> QED
    BY <1>3, <2>3, <2>4, <2>5, <2>6, <2>7
<1>6. CASE ~stdioReady
  <2>1. pending' = pending \o s /\ ready' = ready /\ calls' = calls
    BY <1>6 DEF Deliver
  <2>2. /\ pending \o s \in Seq(ProtocolCalls)
        /\ Elems(pending \o s) = Elems(pending) \union Elems(s)
    BY <1>1, Joined
  <2>3. QueueOK'
    BY <1>1, <2>1, <2>2 DEF QueueOK
  <2>4. InReady' = InReady
    BY <2>1 DEF InReady
  <2>5. All' = All \union Elems(s)
    BY <2>1, <2>2 DEF All
  <2>6. MadeInv'
    BY <1>6, <2>1, <2>4 DEF MadeInv, TypeOK, ScalarOK
  <2>7. ASSUME NEW R, Ordered(calls, ready, pending, R), Free(s, R),
               Apart(All, Elems(s), R)
        PROVE  Ordered(calls', ready', pending', R)
    <3>1. Ordered(calls, ready, pending \o s, R)
      BY <1>1, <1>4, <2>7, GrowLast
    <3> QED
      BY <2>1, <3>1
  <2> QED
    BY <2>3, <2>4, <2>5, <2>6, <2>7
<1> QED
  BY <1>5, <1>6

\* Data of a pipe is behind all that was read from it before.
LEMMA ReadDataStep ==
    ASSUME IInv, NEW f \in pipes, ReadData(f), ScalarOK'
    PROVE  IInv'
<1> DEFINE c == Data(f, received[f] + 1)
           s == <<c>>
<1>1. /\ pipe[f] = "open" /\ received[f] + 1 \in 1..MaxData
      /\ received' = [received EXCEPT ![f] = @ + 1] /\ Deliver(s)
      /\ UNCHANGED <<pipes, pipe, disconnected, stdioReady, finished, gathered,
                     create, made, returncode, lateExit, calls>>
  BY DEF ReadData, initVars, exitVars, IInv, TypeOK, ScalarOK
<1>2. f \in Fds /\ f \notin disconnected
  BY <1>1 DEF IInv, TypeOK, ScalarOK, StartInv
<1>3. c \in ProtocolCalls /\ s \in Seq(ProtocolCalls) /\ Elems(s) = {c}
      /\ \A R : Free(s, R)
  <2>1. c \in ProtocolCalls
    BY <1>1, <1>2, CallFacts
  <2>2. s \in Seq(ProtocolCalls)
    BY <2>1
  <2> QED
    BY <2>1, <2>2, ElemsFacts, ShortFree
<1>4. lateExit' => stdioReady'
  BY <1>1 DEF IInv, MadeInv
<1> HIDE DEF s
<1>5. /\ QueueOK' /\ MadeInv' /\ All' = All \union {c}
      /\ \A x \in Plain \union {CallMade} : x \in InReady' <=> x \in InReady
      /\ \A R : /\ Ordered(calls, ready, pending, R)
                /\ Free(s, R) /\ Apart(All, Elems(s), R)
                => Ordered(calls', ready', pending', R)
  BY <1>1, <1>3, <1>4, DeliverStep DEF IInv
<1>6. StartInv'
  BY <1>1, <1>5, KeepsStart DEF IInv
<1>7. ContentInv'
  <2>1. \A g \in pipes, n \in 1..MaxData :
          /\ Data(g, n) \in All' <=> Data(g, n) \in All \/ (g = f /\ n = received[f] + 1)
          /\ n <= received'[g] <=> n <= received[g] \/ (g = f /\ n = received[f] + 1)
    BY <1>1, <1>5, HandleFacts DEF IInv, TypeOK, ScalarOK
  <2>2. /\ \A g \in Fds : PipeLost(g) \in All' <=> PipeLost(g) \in All
        /\ Exited \in All' <=> Exited \in All
        /\ ConnectionLost \in All' <=> ConnectionLost \in All
    BY <1>5, HandleFacts
  <2> QED
    BY <1>1, <2>1, <2>2 DEF IInv, ContentInv
<1>8. \A R \in Orders : Apart(All, {c}, R)
  <2>1. ASSUME NEW x \in All PROVE ~Wrong(x, c)
    <3>1. c \notin All
      BY <1>1 DEF IInv, ContentInv, TypeOK, ScalarOK
    <3>2. c # CallMade
      BY HandleFacts
    <3>3. ASSUME NEW g \in Fds, NEW n \in 1..MaxData, x = PipeLost(g), c = Data(g, n)
          PROVE  FALSE
      BY <1>2, <3>3, HandleFacts DEF IInv, ContentInv
    <3>4. ASSUME NEW g \in Fds, NEW n \in 1..MaxData, NEW m \in 1..MaxData, m <= n,
                 x = Data(g, n), c = Data(g, m)
          PROVE  FALSE
      <4>1. g = f /\ m = received[f] + 1
        BY <3>4, HandleFacts
      <4>2. n <= received[f]
        BY <3>4, <4>1 DEF IInv, ContentInv
      <4> QED
        BY <3>4, <4>1, <4>2 DEF IInv, TypeOK, ScalarOK
    <3> QED
      BY <3>1, <3>2, <3>3, <3>4 DEF Wrong
  <2>2. c # Exited /\ c \notin Losses
    BY HandleFacts DEF Losses
  <2> QED
    BY <2>1, <2>2, PairFacts DEF Apart, Orders
<1>9. OrderInv'
  BY <1>1, <1>3, <1>5, <1>8, KeepsOrder DEF IInv
<1> QED
  BY <1>5, <1>6, <1>7, <1>9 DEF IInv, TypeOK

\* One call, and connection_lost behind it if the process is finished.
LEMMA WithLoss ==
    ASSUME NEW c \in ProtocolCalls, c # ConnectionLost, NEW done
    PROVE  LET s == IF done THEN <<c, ConnectionLost>> ELSE <<c>>
           IN  /\ s \in Seq(ProtocolCalls)
               /\ Elems(s) = IF done THEN {c, ConnectionLost} ELSE {c}
               /\ \A R \in Orders : Free(s, R)
<1>1. ConnectionLost \in ProtocolCalls
  BY CallFacts
<1>2. <<c, ConnectionLost>> \in Seq(ProtocolCalls) /\ <<c>> \in Seq(ProtocolCalls)
  BY <1>1
<1>3. \A R \in Orders : <<c, ConnectionLost>> \notin R
  <2>1. ConnectionLost # CallMade /\ ConnectionLost # Exited /\ ConnectionLost \notin Losses
        /\ \A f, n : ConnectionLost # Data(f, n)
    BY HandleFacts DEF Losses
  <2> QED
    BY <2>1, PairFacts DEF Orders, Wrong
<1> QED
  BY <1>2, <1>3, ElemsFacts, ShortFree

\* process_exited is behind no loss of the only pipe that is not the last call.
LEMMA OnExitStep ==
    ASSUME IInv, OnExit, ScalarOK'
    PROVE  IInv'
<1> DEFINE done == TryFinish(TRUE, disconnected)
           s == IF done THEN <<Exited, ConnectionLost>> ELSE <<Exited>>
           N == IF done THEN {Exited, ConnectionLost} ELSE {Exited}
<1>1. /\ ~returncode /\ returncode' = TRUE /\ Deliver(s)
      /\ finished' = (finished \/ done) /\ lateExit' = stdioReady
      /\ UNCHANGED <<pipes, received, pipe, disconnected, stdioReady, gathered,
                     create, made, calls>>
  BY DEF OnExit, AndFinish, pipeVars, initVars
<1>2. Exited \notin All /\ ConnectionLost \notin All /\ ~finished
      /\ (done <=> pipes \subseteq disconnected)
  BY <1>1 DEF IInv, ContentInv, TryFinish
<1>3. s \in Seq(ProtocolCalls) /\ Elems(s) = N /\ \A R \in Orders : Free(s, R)
  <2>1. Exited \in ProtocolCalls /\ Exited # ConnectionLost
    BY CallFacts, HandleFacts
  <2> HIDE DEF done
  <2> QED
    BY <2>1, WithLoss
<1>4. lateExit' => stdioReady'
  BY <1>1
<1>15. /\ \A x \in N : x = Exited \/ (x = ConnectionLost /\ done)
       /\ Exited \in N /\ (done => ConnectionLost \in N)
  BY Zenon
<1> HIDE DEF s, N, done
<1>5. /\ QueueOK' /\ MadeInv' /\ All' = All \union N
      /\ \A x \in Plain \union {CallMade} : x \in InReady' <=> x \in InReady
      /\ \A R : /\ Ordered(calls, ready, pending, R)
                /\ Free(s, R) /\ Apart(All, Elems(s), R)
                => Ordered(calls', ready', pending', R)
  BY <1>1, <1>3, <1>4, DeliverStep DEF IInv
<1>6. StartInv'
  BY <1>1, <1>5, KeepsStart DEF IInv
<1>7. ContentInv'
  <2>1. /\ \A g \in pipes, n \in 1..MaxData : Data(g, n) \in All' <=> Data(g, n) \in All
        /\ \A g \in Fds : PipeLost(g) \in All' <=> PipeLost(g) \in All
        /\ Exited \in All'
        /\ ConnectionLost \in All' <=> ConnectionLost \in All \/ done
    BY <1>5, <1>15, HandleFacts
  <2> QED
    BY <1>1, <1>2, <2>1 DEF IInv, ContentInv
<1>8. Apart(All, N, Disorder)
  <2>1. ASSUME NEW x \in All, NEW y \in N PROVE ~Wrong(x, y)
    <3>1. x # y /\ (y = Exited \/ y = ConnectionLost)
      BY <1>2, <1>15
    <3> QED
      BY <3>1, HandleFacts DEF Wrong
  <2> QED
    BY <2>1, PairFacts DEF Apart
<1>9. Apart(All, N, TooLate)
  BY <1>2, PairFacts DEF Apart
<1>10. ASSUME OnePipe, ~done PROVE Apart(All, N, Unfinished)
  <2>1. disconnected = {}
    BY <1>2, <1>10 DEF OnePipe, IInv, TypeOK, ScalarOK
  <2>2. ASSUME NEW x \in All PROVE x \notin Losses
    BY <2>1 DEF IInv, ContentInv, Losses
  <2> QED
    BY <2>2, PairFacts DEF Apart
<1>11. Ordered(calls', ready', pending', Disorder)
  BY <1>3, <1>5, <1>8 DEF IInv, OrderInv, Orders
<1>12. Ordered(calls', ready', pending', TooLate)
  <2>1. \A x, y \in All : <<x, y>> \notin TooLate
    BY <1>2, PairFacts
  <2>2. Free(calls, TooLate) /\ Free(ready, TooLate) /\ Free(pending, TooLate)
    BY <2>1 DEF Free, All, Elems
  <2>3. Ordered(calls, ready, pending, TooLate)
    BY <2>1, <2>2 DEF Ordered, Apart, All
  <2> QED
    BY <2>3, <1>3, <1>5, <1>9 DEF Orders
<1>13. OnePipe' /\ ~finished' => Ordered(calls', ready', pending', Unfinished)
  <2>1. OnePipe' => OnePipe
    BY <1>1 DEF OnePipe
  <2> QED
    BY <2>1, <1>1, <1>2, <1>3, <1>5, <1>10 DEF IInv, OrderInv, Orders
<1>14. OrderInv'
  BY <1>11, <1>12, <1>13 DEF OrderInv
<1> QED
  BY <1>5, <1>6, <1>7, <1>14 DEF IInv, TypeOK

\* The loss of a pipe, scheduled or waiting.
LEMMA PipeEndsStep ==
    ASSUME IInv, NEW f \in pipes, RunPipeEnds(f), ScalarOK'
    PROVE  IInv'
<1> DEFINE done == stdioReady /\ TryFinish(returncode, disconnected \union {f})
           c == PipeLost(f)
           s == IF done THEN <<c, ConnectionLost>> ELSE <<c>>
           N == IF done THEN {c, ConnectionLost} ELSE {c}
           h == PipeEnds(f)
           b == Tail(ready)
<1>1. /\ ready # <<>> /\ Head(ready) = h
      /\ ready' = b \o (IF ~stdioReady THEN <<>> ELSE s)
      /\ pending' = IF stdioReady THEN pending ELSE pending \o <<c>>
      /\ finished' = (finished \/ done)
      /\ pipe' = [pipe EXCEPT ![f] = "lost"]
      /\ disconnected' = disconnected \union {f}
      /\ UNCHANGED <<pipes, received, stdioReady, gathered, create, made,
                     returncode, lateExit, calls>>
  BY DEF RunPipeEnds, Runs, LostIsScheduled, childVars, initVars, exitVars
<1>2. /\ h \in InReady /\ b \in Seq(Handles) /\ Elems(b) = InReady \ {h}
      /\ \A R : Ordered(calls, ready, pending, R) => Ordered(calls, b, pending, R)
  BY <1>1, Taken DEF IInv
<1>3. /\ f \in Fds /\ f \notin disconnected /\ ~finished
      /\ c \notin All /\ ConnectionLost \notin All
  <2>1. f \in Fds /\ pipe[f] = "closing"
    BY <1>2 DEF IInv, StartInv, TypeOK, ScalarOK
  <2>2. f \notin disconnected
    BY <2>1 DEF IInv, StartInv
  <2> QED
    BY <2>1, <2>2 DEF IInv, ContentInv
<1>4. s \in Seq(ProtocolCalls) /\ Elems(s) = N /\ \A R \in Orders : Free(s, R)
  <2>1. c \in ProtocolCalls /\ c # ConnectionLost
    BY <1>3, CallFacts, HandleFacts
  <2> HIDE DEF done, c
  <2> QED
    BY <2>1, WithLoss
<1>5. /\ N \subseteq ProtocolCalls
      /\ \A x \in N : x = c \/ (x = ConnectionLost /\ done)
      /\ c \in N /\ (done => ConnectionLost \in N)
  BY <1>3, CallFacts, Zenon
<1>16. ~stdioReady => N = {c} /\ ~done
  OBVIOUS
<1> HIDE DEF N, done
<1>6. calls \in Seq(Told) /\ pending \in Seq(ProtocolCalls)
  BY DEF IInv, TypeOK, QueueOK
<1>7. \A R \in Orders \ {Unfinished} : Apart(All, N, R)
  <2>1. ASSUME NEW x \in All, NEW y \in N PROVE ~Wrong(x, y)
    <3>1. x # y /\ (y = PipeLost(f) \/ y = ConnectionLost)
      BY <1>3, <1>5
    <3> QED
      BY <3>1, HandleFacts DEF Wrong
  <2>2. Apart(All, N, Disorder)
    BY <2>1, PairFacts DEF Apart
  <2>3. Apart(All, N, TooLate)
    BY <1>3, PairFacts DEF Apart
  <2> QED
    BY <2>2, <2>3 DEF Orders
<1>8. Apart(All, N, Unfinished)
  <2>1. Exited \notin N
    <3>1. Exited # c /\ Exited # ConnectionLost
      BY HandleFacts
    <3> QED
      BY <3>1, <1>5, Zenon
  <2>2. \A x, y : <<x, y>> \in Unfinished => y = Exited
    BY PairFacts
  <2>3. ASSUME NEW x \in All, NEW y \in N PROVE <<x, y>> \notin Unfinished
    BY <2>1, <2>2
  <2> QED
    BY <2>3 DEF Apart
<1> HIDE DEF s, h, b
<1>9. \A R : Apart(All, N, R) => Apart(Elems(calls), N, R) /\ Apart(Elems(b), N, R)
                                 /\ Apart(Elems(pending), N, R)
  BY <1>2 DEF Apart, All, InReady
<1>10. /\ QueueOK' /\ All' = (All \ {h}) \union N
       /\ \A x \in Plain \union {CallMade} : x \in InReady' <=> x \in InReady /\ x # h
       /\ stdioReady => InReady' = (InReady \ {h}) \union N
       /\ ~stdioReady => InReady' = InReady \ {h}
       /\ \A R \in Orders : Ordered(calls, ready, pending, R) =>
                                Ordered(calls', ready', pending', R)
  <2>1. h \notin Elems(calls) /\ h \notin Elems(pending)
    BY <1>1, Taken DEF IInv
  <2>2. CASE stdioReady
    <3>1. pending = <<>> /\ pending' = pending /\ ready' = b \o s
      BY <2>2, <1>1 DEF IInv, MadeInv
    <3>2. s \in Seq(Handles)
      BY <1>4, CallFacts
    <3>3. b \o s \in Seq(Handles) /\ Elems(b \o s) = (InReady \ {h}) \union N
      <4>1. b \o s \in Seq(Handles) /\ Elems(b \o s) = Elems(b) \union Elems(s)
        BY <1>2, <3>2, Joined
      <4> QED
        BY <4>1, <1>2, <1>4
    <3>4. QueueOK' /\ InReady' = (InReady \ {h}) \union N
      BY <1>1, <1>6, <3>1, <3>3 DEF QueueOK, InReady
    <3>5. All' = (All \ {h}) \union N
      BY <2>1, <3>1, <3>4, <1>1 DEF All, InReady
    <3>6. ASSUME NEW R \in Orders, Ordered(calls, ready, pending, R)
          PROVE  Ordered(calls', ready', pending', R)
      <4>1. Apart(Elems(calls), Elems(s), R) /\ Apart(Elems(b), Elems(s), R)
        BY <1>4, <1>7, <1>8, <1>9
      <4>2. Apart(Elems(s), Elems(pending), R)
        BY <3>1, ElemsFacts, ApartFacts
      <4>3. Ordered(calls, b, pending, R) /\ Free(s, R)
        BY <1>2, <1>4, <3>6
      <4>4. Ordered(calls, b \o s, pending, R)
        BY <1>2, <3>2, <4>1, <4>2, <4>3, Grow
      <4> QED
        BY <1>1, <3>1, <4>4
    <3>7. \A x \in Plain \union {CallMade} : x \notin N
      BY <1>5, CallFacts
    <3> QED
      BY <2>2, <3>4, <3>5, <3>6, <3>7
  <2>3. CASE ~stdioReady
    <3> DEFINE t == <<c>>
    <3>1. pending' = pending \o t /\ ready' = b /\ N = {c}
      <4>1. b \o <<>> = b
        BY <1>2
      <4> QED
        BY <2>3, <1>1, <1>16, <4>1
    <3>2. t \in Seq(ProtocolCalls) /\ Elems(t) = N /\ \A R : Free(t, R)
      <4>1. c \in ProtocolCalls
        BY <1>5
      <4>2. t \in Seq(ProtocolCalls)
        BY <4>1
      <4> QED
        BY <4>2, <3>1, ElemsFacts, ShortFree
    <3> HIDE DEF t
    <3>3. pending \o t \in Seq(ProtocolCalls)
          /\ Elems(pending \o t) = Elems(pending) \union N
      <4>1. pending \o t \in Seq(ProtocolCalls)
            /\ Elems(pending \o t) = Elems(pending) \union Elems(t)
        <5>1. t \in Seq(ProtocolCalls)
          BY <3>2
        <5> QED
          BY <5>1, <1>6, Joined
      <4> QED
        BY <4>1, <3>2
    <3>4. QueueOK' /\ InReady' = InReady \ {h}
      BY <1>1, <1>2, <1>6, <3>1, <3>3 DEF QueueOK, InReady
    <3>5. All' = (All \ {h}) \union N
      BY <2>1, <3>1, <3>3, <3>4, <1>1 DEF All, InReady
    <3>6. ASSUME NEW R \in Orders, Ordered(calls, ready, pending, R)
          PROVE  Ordered(calls', ready', pending', R)
      <4>1. /\ Apart(Elems(calls), Elems(t), R) /\ Apart(Elems(b), Elems(t), R)
            /\ Apart(Elems(pending), Elems(t), R)
        BY <3>2, <1>7, <1>8, <1>9
      <4>2. Ordered(calls, b, pending, R)
        BY <1>2, <3>6
      <4>3. Ordered(calls, b, pending \o t, R)
        BY <1>6, <3>2, <4>1, <4>2, GrowLast
      <4> QED
        BY <1>1, <3>1, <4>3
    <3> QED
      BY <2>3, <3>4, <3>5, <3>6
  <2> QED
    BY <2>2, <2>3
<1>11. /\ h \in Plain /\ h \notin ProtocolCalls /\ h # StdioInited /\ h # CallMade
       /\ h # CreateWakes
       /\ \A g : h # PipeMade(g) /\ h # Gathers(g) /\ (h = PipeEnds(g) => g = f)
  BY <1>3, CallFacts, HandleFacts DEF h, Plain
<1>12. StartInv'
  <2>1. /\ StdioInited \in Plain /\ CreateWakes \in Plain
        /\ \A g \in Fds : PipeMade(g) \in Plain /\ PipeEnds(g) \in Plain
                          /\ Gathers(g) \in Plain
    BY DEF Plain
  <2>2. /\ StdioInited \in InReady' <=> StdioInited \in InReady
        /\ CallMade \in InReady' <=> CallMade \in InReady
        /\ CreateWakes \in InReady' <=> CreateWakes \in InReady
        /\ \A g \in Fds : /\ PipeMade(g) \in InReady' <=> PipeMade(g) \in InReady
                          /\ Gathers(g) \in InReady' <=> Gathers(g) \in InReady
                          /\ PipeEnds(g) \in InReady' => PipeEnds(g) \in InReady /\ g # f
    BY <2>1, <1>10, <1>11 DEF h
  <2>3. \A g \in pipes : pipe'[g] = IF g = f THEN "lost" ELSE pipe[g]
    BY <1>1 DEF IInv, TypeOK, ScalarOK
  <2> QED
    BY <1>1, <1>3, <2>2, <2>3 DEF IInv, StartInv
<1>13. MadeInv'
  <2>1. ~stdioReady' => InReady' \intersect ProtocolCalls = {}
    BY <1>1, <1>10 DEF IInv, MadeInv
  <2>2. stdioReady' => pending' = <<>>
    BY <1>1 DEF IInv, MadeInv
  <2>3. stdioReady' /\ made' = "no" => CallMade \in InReady'
    BY <1>1, <1>10, <1>11 DEF IInv, MadeInv
  <2> QED
    BY <1>1, <2>1, <2>2, <2>3 DEF IInv, MadeInv
<1>14. ContentInv'
  <2>1. /\ \A g \in pipes, n \in 1..MaxData : Data(g, n) \in All' <=> Data(g, n) \in All
        /\ \A g \in Fds : PipeLost(g) \in All' <=> PipeLost(g) \in All \/ g = f
        /\ Exited \in All' <=> Exited \in All
        /\ ConnectionLost \in All' <=> ConnectionLost \in All \/ done
    BY <1>5, <1>10, HandleFacts DEF h
  <2> QED
    BY <1>1, <1>3, <2>1 DEF IInv, ContentInv, TryFinish, done
<1>15. OrderInv'
  BY <1>1, <1>10, KeepsOrder DEF IInv
<1> QED
  BY <1>10, <1>12, <1>13, <1>14, <1>15 DEF IInv, TypeOK

-----------------------------------------------------------------------------
(* Calls that are made *)

\* A call of the protocol is behind the calls that were in front of it.
LEMMA RunCallStep ==
    ASSUME IInv, NEW c \in ProtocolCalls, RunCall(c), ScalarOK'
    PROVE  IInv'
<1> DEFINE b == Tail(ready)
<1>1. /\ ready # <<>> /\ Head(ready) = c /\ ready' = b \o <<>>
      /\ calls' = Append(calls, c)
      /\ UNCHANGED <<pipes, received, pipe, disconnected, stdioReady, pending,
                     finished, gathered, create, made, returncode, lateExit>>
  BY DEF RunCall, Runs, childVars, pipeVars, finishVars, initVars, exitVars
<1>2. /\ c \in InReady /\ b \in Seq(Handles) /\ Elems(b) = InReady \ {c}
      /\ \A R : Ordered(calls, ready, pending, R) => Ordered(calls, b, pending, R)
  BY <1>1, Taken DEF IInv
<1>3. calls \in Seq(Told) /\ ready \in Seq(Handles) /\ pending \in Seq(ProtocolCalls)
  BY DEF IInv, TypeOK, QueueOK
<1>4. ready' = b
  <2>1. b \o <<>> = b
    BY <1>2
  <2> QED
    BY <1>1, <2>1
<1>5. stdioReady /\ pending = <<>> /\ made # "no"
  <2>1. stdioReady /\ pending = <<>>
    BY <1>2 DEF IInv, MadeInv, TypeOK, ScalarOK
  <2>2. ASSUME made = "no" PROVE FALSE
    <3>1. CallMade \in Elems(b)
      BY <1>2, <2>1, <2>2, CallFacts DEF IInv, MadeInv
    <3>2. Apart({c}, Elems(b), Disorder)
      <4>1. Ordered(calls, ready, pending, Disorder)
        BY DEF IInv, OrderInv
      <4>2. Apart({Head(ready)}, Elems(Tail(ready)), Disorder)
        BY <1>1, <1>3, <4>1, Drop
      <4> QED
        BY <1>1, <4>2
    <3>3. <<c, CallMade>> \in Disorder
      BY PairFacts, CallFacts DEF Wrong, Items
    <3> QED
      BY <3>1, <3>2, <3>3 DEF Apart
  <2> QED
    BY <2>1, <2>2
<1>6. c \in Told
  BY DEF Told
<1>7. calls' \in Seq(Told) /\ Elems(calls') = Elems(calls) \union {c}
  <2> DEFINE u == <<c>>
  <2>1. u \in Seq(Told) /\ Append(calls, c) = calls \o u
    BY <1>3, <1>6
  <2>2. Elems(u) = {c}
    BY ElemsFacts
  <2> HIDE DEF u
  <2>3. u \in Seq(Told)
    BY <2>1
  <2>4. calls \o u \in Seq(Told) /\ Elems(calls \o u) = Elems(calls) \union Elems(u)
    BY <2>3, <1>3, Joined
  <2> QED
    BY <1>1, <2>1, <2>2, <2>4
<1> HIDE DEF b
<1>8. QueueOK'
  BY <1>1, <1>2, <1>3, <1>4, <1>7 DEF QueueOK
<1>9. InReady' = InReady \ {c}
  BY <1>2, <1>4 DEF InReady
<1>10. All' = All
  BY <1>1, <1>2, <1>7, <1>9 DEF All, InReady
<1>11. ContentInv'
  BY <1>1, <1>10, KeepsContent DEF IInv
<1>12. StartInv'
  <2>1. \A x \in Plain \union {CallMade} : x # c
    BY CallFacts
  <2>2. \A x \in Plain \union {CallMade} : x \in InReady' <=> x \in InReady
    BY <2>1, <1>9
  <2> QED
    BY <1>1, <2>2, KeepsStart DEF IInv
<1>13. MadeInv'
  <2>1. calls # <<>>
    BY <1>5 DEF IInv, MadeInv
  <2>2. /\ calls' # <<>> /\ calls'[1] = calls[1]
        /\ \A i \in 2..Len(calls') : calls'[i] = c \/ (i \in 2..Len(calls) /\ calls'[i] = calls[i])
    BY <1>1, <1>3, <2>1
  <2> QED
    BY <1>1, <1>5, <1>9, <2>1, <2>2 DEF IInv, MadeInv
<1>14. OrderInv'
  <2>1. ASSUME NEW R \in Orders, Ordered(calls, ready, pending, R)
        PROVE  Ordered(calls', ready', pending', R)
    <3>1. Ordered(calls, b, pending, R)
      BY <1>2, <2>1
    <3>2. Apart(Elems(calls), {c}, R)
      <4>1. Apart(Elems(calls), Elems(ready), R)
        BY <2>1 DEF Ordered
      <4> QED
        BY <4>1, <1>2 DEF Apart, InReady
    <3>3. Apart({c}, Elems(b), R)
      <4>1. Apart({Head(ready)}, Elems(Tail(ready)), R)
        BY <1>1, <1>3, <2>1, Drop
      <4> QED
        BY <1>1, <4>1 DEF b
    <3>4. Apart({c}, Elems(pending), R)
      BY <1>5, ElemsFacts, ApartFacts
    <3>5. Ordered(Append(calls, c), b, pending, R)
      BY <1>3, <1>6, <3>1, <3>2, <3>3, <3>4, GrowFirst
    <3> QED
      BY <1>1, <1>4, <3>5
  <2> QED
    BY <1>1, <2>1, KeepsOrder DEF IInv
<1> QED
  BY <1>8, <1>11, <1>12, <1>13, <1>14 DEF IInv, TypeOK

\* connection_made is the first call.
LEMMA CallMadeStep ==
    ASSUME IInv, RunCallMade, ScalarOK'
    PROVE  IInv'
<1> DEFINE b == Tail(ready)
           c == ConnectionMade
<1>1. /\ ready # <<>> /\ Head(ready) = CallMade /\ ready' = b \o <<>>
      /\ calls' = Append(calls, c) /\ made' = "in"
      /\ UNCHANGED <<pipes, received, pipe, disconnected, stdioReady, pending,
                     finished, gathered, create, returncode, lateExit>>
  BY DEF RunCallMade, Runs, childVars, pipeVars, finishVars, exitVars
<1>2. /\ CallMade \in InReady /\ b \in Seq(Handles)
      /\ Elems(b) = InReady \ {CallMade}
      /\ \A R : Ordered(calls, ready, pending, R) => Ordered(calls, b, pending, R)
  BY <1>1, Taken DEF IInv
<1>3. ready' = b
  <2>1. b \o <<>> = b
    BY <1>2
  <2> QED
    BY <1>1, <2>1
<1>4. made = "no" /\ calls = <<>> /\ gathered = pipes
  BY <1>2 DEF IInv, StartInv, MadeInv
<1>5. calls' = <<c>> /\ calls' \in Seq(Told) /\ Elems(calls') = {c}
  <2>1. calls' = <<c>> /\ c \in Told
    BY <1>1, <1>4 DEF Told
  <2>2. calls' \in Seq(Told)
    BY <2>1
  <2> QED
    BY <2>1, <2>2, ElemsFacts
<1>6. QueueOK'
  BY <1>1, <1>2, <1>3, <1>5 DEF IInv, TypeOK, QueueOK
<1> HIDE DEF b
<1>7. InReady' = InReady \ {CallMade}
  BY <1>2, <1>3 DEF InReady
<1>8. All' \intersect ProtocolCalls = All \intersect ProtocolCalls
  <2>1. CallMade \notin ProtocolCalls /\ c \notin ProtocolCalls
    BY CallFacts
  <2>2. Elems(calls) = {}
    BY <1>4, ElemsFacts
  <2>3. All' = {c} \union Elems(b) \union Elems(pending)
    BY <1>1, <1>3, <1>5 DEF All
  <2>4. All = Elems(ready) \union Elems(pending)
    BY <2>2 DEF All
  <2> HIDE DEF c
  <2> QED
    BY <1>2, <2>1, <2>3, <2>4 DEF InReady
<1>9. ContentInv'
  BY <1>1, <1>8, KeepsContent DEF IInv
<1>10. StartInv'
  <2>1. /\ StdioInited # CallMade /\ CreateWakes # CallMade
        /\ \A f : PipeMade(f) # CallMade /\ Gathers(f) # CallMade /\ PipeEnds(f) # CallMade
    BY HandleFacts
  <2>2. StdioInited \notin InReady'
    BY <1>2, <1>7 DEF IInv, StartInv
  <2>3. CallMade \notin InReady'
    BY <1>7
  <2> QED
    BY <1>1, <1>4, <1>7, <2>1, <2>2, <2>3 DEF IInv, StartInv
<1>11. MadeInv'
  <2>1. calls'[1] = c /\ Len(calls') = 1 /\ calls' # <<>>
    BY <1>5
  <2>2. \A i \in 2..1 : FALSE
    OBVIOUS
  <2> QED
    BY <1>1, <1>7, <2>1, <2>2 DEF IInv, MadeInv
<1>12. OrderInv'
  <2>1. ASSUME NEW R \in Orders, Ordered(calls, ready, pending, R)
        PROVE  Ordered(calls', ready', pending', R)
    <3>1. Ordered(calls, b, pending, R)
      BY <1>2, <2>1
    <3>2. ASSUME NEW y, y # c PROVE <<c, y>> \notin R
      <4>1. c # ConnectionLost /\ c # Exited /\ c # CallMade /\ c \notin Losses
            /\ c \notin ProtocolCalls /\ \A f, n : c # Data(f, n)
        BY HandleFacts, CallFacts DEF Losses
      <4>2. ~Wrong(c, y)
        <5>1. \A f \in Fds : c # PipeLost(f)
          BY HandleFacts
        <5> QED
          BY <3>2, <4>1, <5>1 DEF Wrong
      <4> QED
        BY <4>1, <4>2, PairFacts DEF Orders
    <3>3. c \notin Elems(b) /\ c \notin Elems(pending)
      <4>1. c \notin Handles /\ c \notin ProtocolCalls
        BY CallFacts
      <4> QED
        BY <4>1, <1>2, Kinds DEF IInv
    <3>4. Apart({c}, Elems(b), R) /\ Apart({c}, Elems(pending), R)
      BY <3>2, <3>3 DEF Apart
    <3>5. Free(calls', R)
      BY <1>5, ShortFree
    <3> QED
      BY <1>1, <1>3, <1>5, <3>1, <3>4, <3>5 DEF Ordered
  <2> QED
    BY <1>1, <2>1, KeepsOrder DEF IInv
<1> QED
  BY <1>6, <1>9, <1>10, <1>11, <1>12 DEF IInv, TypeOK

\* The calls that waited are behind those that did not; the loss of the last pipe
\* among them has connection_lost behind it.
LEMMA ReplayStep ==
    ASSUME IInv, ScalarOK', NEW more \in Seq(Handles), Elems(more) \subseteq {CreateWakes},
           CreateWakes \in Elems(more) => create = "waiting",
           \A R : Free(more, R),
           StdioIsReady(more), made = "in", made' \in {"returned", "raised"},
           create' \in {create, "done", "failed"},
           create = "cancelled" \/ create = "failed" => create' = create,
           create = "waiting" /\ create' # "failed" => more = <<>>,
           UNCHANGED <<pipes, received, pipe, disconnected, gathered, returncode,
                       lateExit, calls>>
    PROVE  IInv'
<1> DEFINE b == ready \o more
           done == FinishesInReplay
           N == IF done THEN {ConnectionLost} ELSE {}
<1>1. /\ stdioReady' = TRUE /\ pending' = <<>> /\ ready' = b \o Replayed
      /\ finished' = (finished \/ done)
  BY DEF StdioIsReady
<1>2. calls \in Seq(Told) /\ ready \in Seq(Handles) /\ pending \in Seq(ProtocolCalls)
  BY DEF IInv, TypeOK, QueueOK
<1>3. /\ pending \in Seq(Handles) /\ Elems(pending) \subseteq ProtocolCalls
      /\ Elems(calls) \intersect Plain = {}
  BY Kinds DEF IInv
<1>4. CreateWakes \in Plain /\ Elems(more) \subseteq Plain
  BY DEF Plain
<1>5. Elems(more) \intersect InReady = {}
  BY DEF IInv, StartInv
<1>6. b \in Seq(Handles) /\ Elems(b) = InReady \union Elems(more)
  <2>1. more \in Seq(Handles) /\ ready \in Seq(Handles)
    BY <1>2
  <2>2. more \in Seq(Handles) => /\ ready \o more \in Seq(Handles)
                                /\ Elems(ready \o more) = Elems(ready) \union Elems(more)
    <3>1. ready \in Seq(Handles) => \A t \in Seq(Handles) :
                /\ ready \o t \in Seq(Handles)
                /\ Elems(ready \o t) = Elems(ready) \union Elems(t)
      BY Joined
    <3> QED
      BY <2>1, <3>1
  <2> QED
    BY <2>1, <2>2 DEF InReady
<1>7. ASSUME NEW R \in Orders, Ordered(calls, ready, pending, R)
      PROVE  Ordered(calls, b, pending, R)
  <2>1. (Elems(calls) \union Elems(ready) \union Elems(pending)) \intersect Elems(more) = {}
    <3>1. Elems(pending) \intersect Plain = {}
      BY Kinds DEF IInv
    <3> QED
      BY <1>3, <1>4, <1>5, <3>1 DEF InReady
  <2> QED
    BY <1>2, <1>4, <1>7, <2>1, PlainGrow
<1> HIDE DEF b
<1>8. ASSUME NEW k \in 1..Len(pending)
      PROVE  LET u == SubSeq(pending, 1, k)
                 v == SubSeq(pending, k + 1, Len(pending))
             IN  /\ u \in Seq(Handles) /\ v \in Seq(Handles) /\ pending = u \o v
                 /\ pending[k] \in Elems(u)
                 /\ pending[k] \in Elems(pending)
  <2> DEFINE u == SubSeq(pending, 1, k)
             v == SubSeq(pending, k + 1, Len(pending))
  <2>1. u \in Seq(Handles) /\ v \in Seq(Handles)
    BY <1>3
  <2>2. Len(u) = k /\ Len(v) = Len(pending) - k /\ k \in Nat /\ Len(pending) \in Nat
    BY <1>2
  <2>3. \A i \in 1..k : u[i] = pending[i]
    BY <1>2
  <2>4. \A i \in 1..(Len(pending) - k) : v[i] = pending[k + i]
    BY <1>2
  <2>5. Len(u \o v) = Len(pending) /\ u \o v \in Seq(Handles)
    BY <2>1, <2>2
  <2>6. ASSUME NEW i \in 1..Len(pending) PROVE (u \o v)[i] = pending[i]
    <3> HIDE DEF u, v
    <3>1. CASE i \in 1..k
      BY <2>1, <2>2, <2>3, <3>1
    <3>2. CASE i \notin 1..k
      <4>1. i - k \in 1..(Len(pending) - k) /\ k + (i - k) = i
        BY <2>2, <3>2
      <4>2. (u \o v)[i] = v[i - k]
        BY <2>1, <2>2, <3>2
      <4> QED
        BY <4>1, <4>2, <2>4
    <3> QED
      BY <3>1, <3>2
  <2>7. pending = u \o v
    <3> DEFINE w == u \o v
    <3>1. w \in Seq(Handles) /\ Len(pending) = Len(w)
          /\ \A i \in 1..Len(pending) : pending[i] = w[i]
      BY <2>5, <2>6
    <3> HIDE DEF w
    <3>2. pending = w
      BY <1>3, <3>1, SeqEqual
    <3> QED
      BY <3>2 DEF w
  <2>8. pending[k] \in Elems(u) /\ pending[k] \in Elems(pending)
    <3>1. k \in 1..Len(u) /\ u[k] = pending[k]
      BY <2>2, <2>3
    <3> HIDE DEF u
    <3> QED
      BY <3>1 DEF Elems
  <2> QED
    BY <2>1, <2>7, <2>8
<1>9. ASSUME done
      PROVE  /\ FirstLost \in 1..Len(pending)
             /\ \E f \in Fds : pending[FirstLost] = PipeLost(f)
             /\ returncode /\ ~finished /\ pipes \subseteq disconnected
             /\ ConnectionLost \notin All
  <2>1. FirstLost # 0 /\ returncode /\ ~finished /\ pipes \subseteq disconnected
    BY <1>9 DEF FinishesInReplay, TryFinish
  <2>2. FirstLost \in 1..Len(pending) /\ IsPipeLost(pending[FirstLost])
    <3> DEFINE I == {i \in 1..Len(pending) : IsPipeLost(pending[i])}
    <3>1. FirstLost = IF I # {} THEN Min(I) ELSE 0
      BY DEF FirstLost, SelectInSeq
    <3>2. I # {} /\ FirstLost = Min(I)
      BY <2>1, <3>1
    <3>3. I \subseteq Nat
      OBVIOUS
    <3>4. FirstLost \in I
      <4> HIDE DEF I
      <4> QED
        BY <3>2, <3>3, LeastOf
    <3> QED
      BY <3>4
  <2>3. ConnectionLost \notin All
    BY <2>1 DEF IInv, ContentInv
  <2> QED
    BY <2>1, <2>2, <2>3 DEF IsPipeLost
<1>10. ~stdioReady \/ ~done
  <2>1. pending = <<>> => Len(pending) = 0
    OBVIOUS
  <2>2. 1..0 = {}
    OBVIOUS
  <2> QED
    BY <1>9, <2>1, <2>2 DEF IInv, MadeInv
<1>11. /\ done => ConnectionLost \in N
       /\ \A x \in N : x = ConnectionLost /\ done
  BY Zenon
<1> HIDE DEF N, done
\* The replay, in order.
<1>12. /\ Replayed \in Seq(Handles) /\ Elems(Replayed) = Elems(pending) \union N
       /\ ~done => Replayed = pending
       /\ \A R : /\ Ordered(calls, b, pending, R) /\ R \in Orders
                 /\ R = TooLate => ~done \/ OnePipe
                 /\ Ordered(calls, ready, pending, Disorder)
                 /\ R = TooLate /\ done => Ordered(calls, ready, pending, Unfinished)
                 => Ordered(calls, b, Replayed, R)
  <2>1. CASE ~done
    <3>1. Replayed = pending
      BY <2>1 DEF Replayed, done
    <3>2. N = {}
      BY <1>11, <2>1, Zenon
    <3> QED
      BY <1>3, <2>1, <3>1, <3>2
  <2>2. CASE done
    <3> DEFINE k == FirstLost
               u == SubSeq(pending, 1, k)
               v == SubSeq(pending, k + 1, Len(pending))
               m == <<ConnectionLost>>
               w == u \o m
    <3>1. Replayed = w \o v
      BY <2>2 DEF Replayed, done
    <3>2. /\ k \in 1..Len(pending) /\ \E f \in Fds : pending[k] = PipeLost(f)
          /\ ConnectionLost \notin All
      BY <2>2, <1>9
    <3>3. /\ u \in Seq(Handles) /\ v \in Seq(Handles) /\ pending = u \o v
          /\ pending[k] \in Elems(u) /\ pending[k] \in Elems(pending)
      BY <3>2, <1>8
    <3>4. ConnectionLost \in Handles /\ ConnectionLost \in ProtocolCalls
      BY CallFacts
    <3>5. m \in Seq(Handles) /\ Elems(m) = {ConnectionLost}
      <4>1. m \in Seq(Handles)
        BY <3>4
      <4> QED
        BY <4>1, ElemsFacts
    <3> HIDE DEF k, u, v, m
    <3>6. Elems(pending) = Elems(u) \union Elems(v)
      <4>1. u \in Seq(Handles) /\ v \in Seq(Handles)
        BY <3>3
      <4>2. Elems(u \o v) = Elems(u) \union Elems(v)
        BY <4>1, Joined
      <4> QED
        BY <4>2, <3>3
    <3>7. w \in Seq(Handles) /\ Elems(w) = Elems(u) \union {ConnectionLost}
      <4>1. u \in Seq(Handles) /\ m \in Seq(Handles)
        BY <3>3, <3>5
      <4>2. u \o m \in Seq(Handles) /\ Elems(u \o m) = Elems(u) \union Elems(m)
        BY <4>1, Joined
      <4> QED
        BY <4>2, <3>5
    <3> HIDE DEF w
    <3>8. w \o v \in Seq(Handles) /\ Elems(w \o v) = Elems(w) \union Elems(v)
      <4>1. w \in Seq(Handles) /\ v \in Seq(Handles)
        BY <3>3, <3>7
      <4> QED
        BY <4>1, Joined
    <3>9. N = {ConnectionLost}
      BY <2>2, <1>11, Zenon
    <3>10. Elems(Replayed) = Elems(pending) \union N
      BY <3>1, <3>6, <3>7, <3>8, <3>9
    <3>11. ASSUME NEW R \in Orders, Ordered(calls, b, pending, R),
                  R = TooLate => OnePipe,
                  Ordered(calls, ready, pending, Disorder),
                  R = TooLate => Ordered(calls, ready, pending, Unfinished)
           PROVE  Ordered(calls, b, Replayed, R)
      <4>1. ConnectionLost # CallMade /\ ConnectionLost # Exited
            /\ ConnectionLost # CreateWakes
            /\ ConnectionLost \notin Losses /\ \A f, n : ConnectionLost # Data(f, n)
        BY HandleFacts DEF Losses
      <4>2. ConnectionLost \notin Elems(b)
        BY <1>6, <3>2, <4>1 DEF All, InReady
      <4>3. ASSUME NEW x, x # ConnectionLost PROVE <<x, ConnectionLost>> \notin R
        <5>1. ~Wrong(x, ConnectionLost)
          BY <4>1, <4>3 DEF Wrong
        <5> QED
          BY <4>1, <5>1, PairFacts DEF Orders
      <4>4. /\ Apart(Elems(calls), {ConnectionLost}, R)
            /\ Apart(Elems(b), {ConnectionLost}, R)
            /\ Apart(Elems(u), {ConnectionLost}, R)
        BY <3>2, <3>6, <4>2, <4>3 DEF Apart, All
      <4>5. Apart({ConnectionLost}, Elems(v), R)
        <5> SUFFICES ASSUME NEW y \in Elems(v) PROVE <<ConnectionLost, y>> \notin R
          BY DEF Apart
        <5>1. y \in All /\ y \in ProtocolCalls
          BY <1>3, <3>6 DEF All
        <5>2. R = Disorder => <<ConnectionLost, y>> \notin Disorder
          <6>1. y # ConnectionLost /\ y # CallMade
            BY <3>2, <5>1, CallFacts
          <6>2. ConnectionLost \notin Losses
            BY <4>1
          <6>3. ~Wrong(ConnectionLost, y)
            BY <4>1, <6>1, <6>2 DEF Wrong, Losses
          <6> QED
            BY <6>3, PairFacts
        <5>3. R = TooLate => <<ConnectionLost, y>> \notin TooLate
          <6> SUFFICES ASSUME R = TooLate PROVE y \notin Losses /\ y # Exited
            BY PairFacts
          <6>1. PICK f \in Fds : pending[k] = PipeLost(f)
            BY <3>2
          <6>2. PipeLost(f) \in Elems(u) /\ PipeLost(f) \in All
            BY <6>1, <3>3 DEF All
          <6>3. /\ Apart(Elems(u), Elems(v), Disorder)
                /\ Apart(Elems(u), Elems(v), Unfinished)
            <7>1. u \in Seq(Handles) /\ v \in Seq(Handles)
              BY <3>3
            <7>2. Free(u \o v, Disorder) /\ Free(u \o v, Unfinished)
              BY <3>3, <3>11 DEF Ordered
            <7> QED
              BY <7>1, <7>2, Joined
          <6>4. y # Exited
            <7>1. <<PipeLost(f), Exited>> \in Unfinished
              BY PairFacts DEF Losses
            <7> QED
              BY <6>2, <6>3, <7>1 DEF Apart
          <6>5. ASSUME NEW g \in Fds, y = PipeLost(g) PROVE FALSE
            <7>1. f \in pipes /\ g \in pipes
              BY <5>1, <6>2, <6>5 DEF IInv, ContentInv, TypeOK, ScalarOK
            <7>2. f = g
              BY <7>1, <3>11 DEF OnePipe
            <7>3. <<y, y>> \in Disorder
              <8>1. y \in Items /\ Wrong(y, y)
                BY <5>1, CallFacts DEF Items, Wrong
              <8> QED
                BY <8>1, PairFacts
            <7> QED
              BY <6>2, <6>3, <6>5, <7>2, <7>3 DEF Apart
          <6> QED
            BY <6>4, <6>5 DEF Losses
        <5>4. R = Unfinished => <<ConnectionLost, y>> \notin Unfinished
          BY <4>1, PairFacts
        <5> QED
          BY <5>2, <5>3, <5>4 DEF Orders
      <4>6. Ordered(calls, b, u \o v, R)
        BY <3>3, <3>11
      <4>7. Ordered(calls, b, u \o <<ConnectionLost>> \o v, R)
        <5>1. u \in Seq(Handles) /\ v \in Seq(Handles)
          BY <3>3
        <5> QED
          BY <3>4, <4>4, <4>5, <4>6, <5>1, Inserted
      <4> QED
        BY <3>1, <4>7 DEF w, m
    <3>12. Replayed \in Seq(Handles)
      BY <3>1, <3>8
    <3> QED
      BY <2>2, <3>10, <3>11, <3>12
  <2> QED
    BY <2>1, <2>2
<1>13. ready' \in Seq(Handles)
       /\ InReady' = InReady \union Elems(more) \union Elems(pending) \union N
  <2>1. b \o Replayed \in Seq(Handles)
        /\ Elems(b \o Replayed) = Elems(b) \union Elems(Replayed)
    <3>1. Replayed \in Seq(Handles)
      BY <1>12
    <3> QED
      BY <3>1, <1>6, Joined
  <2>2. Elems(Replayed) = Elems(pending) \union N
    BY <1>12
  <2> QED
    BY <1>1, <1>6, <2>1, <2>2 DEF InReady
<1>14. QueueOK'
  <2>1. <<>> \in Seq(ProtocolCalls)
    OBVIOUS
  <2> QED
    BY <1>1, <1>2, <1>13, <2>1 DEF QueueOK
<1>15. All' = All \union Elems(more) \union N
  <2>1. Elems(pending') = {}
    BY <1>1, ElemsFacts
  <2> QED
    BY <1>13, <2>1 DEF All, InReady
<1>16. \A x \in N : x = ConnectionLost /\ x \in ProtocolCalls
  BY <1>11, CallFacts, Zenon
<1>17. ContentInv'
  <2>1. \A x \in ProtocolCalls : x \in All' <=> x \in All \/ x \in N
    BY <1>4, <1>15, CallFacts
  <2>2. pipes \subseteq Fds
    BY DEF IInv, TypeOK, ScalarOK
  <2>3. /\ \A f \in pipes, n \in 1..MaxData : Data(f, n) \in All' <=> Data(f, n) \in All
        /\ \A f \in Fds : PipeLost(f) \in All' <=> PipeLost(f) \in All
        /\ Exited \in All' <=> Exited \in All
    <3>1. Exited # ConnectionLost
          /\ \A f : PipeLost(f) # ConnectionLost /\ \A n : Data(f, n) # ConnectionLost
      BY HandleFacts
    <3> QED
      BY <1>16, <2>1, <2>2, <3>1, CallFacts
  <2>4. ConnectionLost \in All' <=> ConnectionLost \in All \/ done
    BY <1>11, <2>1, CallFacts, Zenon
  <2>5. finished' => returncode /\ pipes \subseteq disconnected
    BY <1>1, <1>9 DEF IInv, ContentInv
  <2> QED
    BY <1>1, <2>3, <2>4, <2>5 DEF IInv, ContentInv
<1>18. StartInv'
  <2>1. \A x \in Plain \union {CallMade} :
           x \in InReady' <=> x \in InReady \/ x \in Elems(more)
    BY <1>3, <1>13, <1>16, CallFacts
  <2>2. /\ StdioInited \in Plain /\ StdioInited # CreateWakes
        /\ CallMade # CreateWakes
        /\ \A f \in Fds : PipeMade(f) \in Plain /\ PipeEnds(f) \in Plain
                          /\ Gathers(f) \in Plain
        /\ \A f : PipeMade(f) # CreateWakes /\ PipeEnds(f) # CreateWakes
                  /\ Gathers(f) # CreateWakes
    BY HandleFacts DEF Plain
  <2>3. /\ StdioInited \in InReady' <=> StdioInited \in InReady
        /\ CallMade \in InReady' <=> CallMade \in InReady
        /\ \A f \in Fds : /\ PipeMade(f) \in InReady' <=> PipeMade(f) \in InReady
                          /\ PipeEnds(f) \in InReady' <=> PipeEnds(f) \in InReady
                          /\ Gathers(f) \in InReady' <=> Gathers(f) \in InReady
    BY <2>1, <2>2
  <2>4. CreateWakes \in InReady' => create' \in {"cancelled", "failed"}
    <3>1. CASE CreateWakes \in InReady
      BY <3>1 DEF IInv, StartInv
    <3>2. CASE CreateWakes \in Elems(more)
      <4>1. more # <<>>
        BY <3>2, ElemsFacts
      <4> QED
        BY <3>2, <4>1
    <3> QED
      BY <1>4, <2>1, <3>1, <3>2
  <2> QED
    BY <2>3, <2>4 DEF IInv, StartInv
<1>19. MadeInv'
  BY <1>1 DEF IInv, MadeInv
<1>20. OrderInv'
  <2>1. pending' = <<>> /\ calls' = calls /\ ready' = b \o Replayed
    BY <1>1
  <2>2. ASSUME NEW R, Ordered(calls, b, Replayed, R)
        PROVE  Ordered(calls', ready', pending', R)
    <3>1. Replayed \in Seq(Handles)
      BY <1>12
    <3>2. Ordered(calls, b \o Replayed, <<>>, R)
      BY <1>6, <2>2, <3>1, Moved
    <3> QED
      BY <2>1, <3>2
  <2>3. Disorder \in Orders /\ TooLate \in Orders /\ Unfinished \in Orders
    BY DEF Orders
  <2>4. Ordered(calls, ready, pending, Disorder) /\ Ordered(calls, b, pending, Disorder)
    BY <1>7, <2>3 DEF IInv, OrderInv
  <2>5. Disorder # TooLate /\ Disorder # Unfinished
    <3>1. <<CallMade, CallMade>> \in Disorder
      BY CallFacts, PairFacts DEF Items, Wrong
    <3>2. <<CallMade, CallMade>> \notin TooLate /\ <<CallMade, CallMade>> \notin Unfinished
      BY PairFacts, HandleFacts DEF Losses
    <3> QED
      BY <3>1, <3>2
  <2>6. Ordered(calls', ready', pending', Disorder)
    BY <1>12, <2>2, <2>3, <2>4, <2>5
  <2>7. OnePipe' <=> OnePipe
    BY DEF OnePipe
  <2>8. ASSUME lateExit \/ OnePipe PROVE Ordered(calls', ready', pending', TooLate)
    <3>1. Ordered(calls, b, pending, TooLate)
      BY <1>7, <2>3, <2>8 DEF IInv, OrderInv
    <3>2. done => OnePipe /\ ~finished
      BY <1>9, <1>10, <2>8 DEF IInv, MadeInv
    <3>3. done => Ordered(calls, ready, pending, Unfinished)
      BY <3>2 DEF IInv, OrderInv
    <3> QED
      BY <1>12, <2>2, <2>3, <2>4, <3>1, <3>2, <3>3
  <2>9. ASSUME OnePipe, ~finished' PROVE Ordered(calls', ready', pending', Unfinished)
    <3>1. ~finished /\ ~done
      BY <1>1, <2>9
    <3>2. Ordered(calls, b, pending, Unfinished) /\ Replayed = pending
      BY <1>7, <1>12, <2>3, <2>9, <3>1 DEF IInv, OrderInv
    <3> QED
      BY <2>2, <3>2
  <2> QED
    BY <2>6, <2>7, <2>8, <2>9 DEF OrderInv
<1> QED
  BY <1>14, <1>17, <1>18, <1>19, <1>20 DEF IInv, TypeOK

-----------------------------------------------------------------------------
(* Handles of the loop that are no calls *)

\* A handle of the loop is appended.
LEMMA AppendStep ==
    ASSUME TypeOK, ContentInv, OrderInv, NEW h \in Plain, h \notin InReady,
           UNCHANGED <<pipes, received, disconnected, returncode, finished,
                       lateExit, calls, pending>>,
           ready' = Append(ready, h)
    PROVE  /\ ContentInv' /\ OrderInv'
           /\ ready' \in Seq(Handles) /\ InReady' = InReady \union {h}
<1> DEFINE t == <<h>>
<1>1. ready \in Seq(Handles) /\ h \in Handles
  BY CallFacts DEF TypeOK, QueueOK
<1>2. t \in Seq(Handles) /\ Elems(t) = {h} /\ \A R \in Orders : Free(t, R)
  <2>1. t \in Seq(Handles)
    BY <1>1
  <2> QED
    BY <2>1, ElemsFacts, ShortFree
<1>3. ready' = ready \o t
  BY <1>1
<1> HIDE DEF t
<1>4. /\ Elems(ready) = InReady /\ Elems(ready) \subseteq InReady
      /\ InReady \intersect ProtocolCalls \subseteq Elems(ready)
      /\ \A R \in Orders : Ordered(calls, ready, pending, R) =>
                                Ordered(calls, ready, pending, R)
  BY DEF InReady
<1>5. Elems(t) \subseteq Plain /\ Elems(ready) \intersect Elems(t) = {}
  BY <1>2, <1>4
<1>6. /\ ContentInv' /\ OrderInv' /\ ready' \in Seq(Handles)
      /\ InReady' = Elems(ready) \union Elems(t)
  BY <1>1, <1>2, <1>3, <1>4, <1>5, PlainStep
<1> QED
  BY <1>2, <1>4, <1>6

\* The first handle runs and appends others.
LEMMA RunStep ==
    ASSUME TypeOK, ContentInv, OrderInv, NEW h \in Plain, NEW t \in Seq(Handles),
           ready # <<>>, Head(ready) = h, ready' = Tail(ready) \o t,
           Elems(t) \subseteq Plain, (InReady \ {h}) \intersect Elems(t) = {},
           \A R \in Orders : Free(t, R),
           UNCHANGED <<pipes, received, disconnected, returncode, finished,
                       lateExit, calls, pending>>
    PROVE  /\ ContentInv' /\ OrderInv' /\ h \in InReady
           /\ ready' \in Seq(Handles) /\ InReady' = (InReady \ {h}) \union Elems(t)
<1> DEFINE b == Tail(ready)
<1>1. /\ h \in InReady /\ b \in Seq(Handles) /\ Elems(b) = InReady \ {h}
      /\ \A R : Ordered(calls, ready, pending, R) => Ordered(calls, b, pending, R)
  BY Taken
<1>2. h \notin ProtocolCalls
  BY CallFacts
<1>3. ready' = b \o t
  OBVIOUS
<1> HIDE DEF b
<1>4. Elems(b) \subseteq InReady /\ InReady \intersect ProtocolCalls \subseteq Elems(b)
  BY <1>1, <1>2
<1>5. /\ ContentInv' /\ OrderInv' /\ ready' \in Seq(Handles)
      /\ InReady' = Elems(b) \union Elems(t)
  BY <1>1, <1>3, <1>4, PlainStep
<1> QED
  BY <1>1, <1>5

\* The handles tell the pipes apart.
LEMMA PlainFacts ==
    /\ StdioInited \in Plain /\ CreateWakes \in Plain
    /\ \A f \in Fds : PipeMade(f) \in Plain /\ PipeEnds(f) \in Plain
                      /\ Gathers(f) \in Plain
    /\ StdioInited # CreateWakes /\ StdioInited # CallMade /\ CreateWakes # CallMade
    /\ \A f, g : /\ PipeMade(f) # PipeEnds(g) /\ PipeMade(f) # Gathers(g)
                 /\ PipeEnds(f) # Gathers(g)
                 /\ PipeMade(f) = PipeMade(g) => f = g
                 /\ PipeEnds(f) = PipeEnds(g) => f = g
                 /\ Gathers(f) = Gathers(g) => f = g
    /\ \A f : /\ PipeMade(f) # StdioInited /\ PipeMade(f) # CreateWakes
              /\ PipeEnds(f) # StdioInited /\ PipeEnds(f) # CreateWakes
              /\ Gathers(f) # StdioInited /\ Gathers(f) # CreateWakes
              /\ PipeMade(f) # CallMade /\ PipeEnds(f) # CallMade /\ Gathers(f) # CallMade
BY HandleFacts DEF Plain

\* Calls stay where they wait.
LEMMA KeepsMade ==
    ASSUME TypeOK, MadeInv, UNCHANGED <<stdioReady, pending, lateExit, calls, made>>,
           InReady' \intersect ProtocolCalls \subseteq InReady,
           CallMade \in InReady => CallMade \in InReady'
    PROVE  MadeInv'
BY DEF MadeInv

\* A pipe's transport comes to an end: ReadEof(f), Flushed and ClosePipe(f).
LEMMA PipeStops ==
    ASSUME IInv, ScalarOK', NEW f \in pipes, pipe[f] \in {"open", "flushing"},
           pipe' = [pipe EXCEPT ![f] = "closing"],
           ready' = Append(ready, PipeEnds(f)),
           UNCHANGED <<pipes, received, disconnected, returncode, finished,
                       lateExit, calls, pending, stdioReady, gathered, create, made>>
    PROVE  IInv'
<1> DEFINE h == PipeEnds(f)
<1>1. f \in Fds
  BY DEF IInv, TypeOK, ScalarOK
<1>2. h \in Plain /\ h \notin InReady
  BY <1>1, PlainFacts DEF IInv, StartInv
<1>3. /\ ContentInv' /\ OrderInv'
      /\ ready' \in Seq(Handles) /\ InReady' = InReady \union {h}
  BY <1>2, AppendStep DEF IInv
<1>4. QueueOK'
  BY <1>3 DEF IInv, TypeOK, QueueOK
<1>5. \A g \in pipes : pipe'[g] = IF g = f THEN "closing" ELSE pipe[g]
  BY DEF IInv, TypeOK, ScalarOK
<1>6. StartInv'
  BY <1>1, <1>3, <1>5, PlainFacts DEF IInv, StartInv
<1>7. MadeInv'
  <2>1. h \notin ProtocolCalls
    BY <1>2, CallFacts
  <2> QED
    BY <1>3, <2>1, KeepsMade DEF IInv
<1> QED
  BY <1>3, <1>4, <1>6, <1>7 DEF IInv, TypeOK

\* close() of a pipe whose data is not sent yet.
LEMMA PipeFlushes ==
    ASSUME IInv, ScalarOK', NEW f \in pipes, pipe[f] = "open",
           pipe' = [pipe EXCEPT ![f] = "flushing"],
           UNCHANGED <<pipes, received, disconnected, returncode, finished, ready,
                       lateExit, calls, pending, stdioReady, gathered, create, made>>
    PROVE  IInv'
<1>1. \A g \in pipes : pipe'[g] = IF g = f THEN "flushing" ELSE pipe[g]
  BY DEF IInv, TypeOK, ScalarOK
<1>2. InReady' = InReady
  BY DEF InReady
<1>3. StartInv'
  BY <1>1, <1>2 DEF IInv, StartInv
<1>4. ContentInv'
  BY DEF IInv, ContentInv, All
<1>5. MadeInv' /\ QueueOK'
  BY <1>2 DEF IInv, MadeInv, TypeOK, QueueOK
<1>6. OrderInv'
  BY KeepsOrder DEF IInv
<1> QED
  BY <1>3, <1>4, <1>5, <1>6 DEF IInv, TypeOK

\* close() stops every pipe that is not stopped: b is what the loop has of its
\* handles, all or all but h.
LEMMA ClosingStep ==
    ASSUME IInv, ScalarOK', NEW buffered \in SUBSET Buffered,
           NEW b \in Seq(Handles), NEW T, T \subseteq {CreateWakes},
           Elems(b) = InReady \ T, Closing(buffered, b),
           \A R : Ordered(calls, ready, pending, R) => Ordered(calls, b, pending, R),
           UNCHANGED <<pipes, received, disconnected, returncode, finished,
                       lateExit, calls, pending, stdioReady, gathered, create, made>>
    PROVE  IInv'
<1> DEFINE S == Stops \ buffered
           t == ForPipes(S, "PipeEnds")
<1>1. /\ ready' = b \o t
      /\ pipe' = [f \in pipes |-> IF f \notin Stops THEN pipe[f]
                                  ELSE IF f \in buffered THEN "flushing" ELSE "closing"]
  BY DEF Closing
<1>2. S \subseteq Fds /\ S \subseteq pipes /\ \A f \in S : pipe[f] \in {"init", "open"}
  BY DEF IInv, TypeOK, ScalarOK, Stops
<1>3. /\ t \in Seq(Handles) /\ Elems(t) = {PipeEnds(f) : f \in S}
      /\ Elems(t) \subseteq Plain /\ \A R \in Orders : Free(t, R)
  BY <1>2, ForPipesFacts DEF PipeEnds
<1>4. Elems(b) \intersect Elems(t) = {}
  BY <1>2, <1>3 DEF IInv, StartInv
<1>5. Elems(b) \subseteq InReady /\ InReady \intersect ProtocolCalls \subseteq Elems(b)
  <2>1. CreateWakes \notin ProtocolCalls
    BY PlainFacts, CallFacts
  <2> QED
    BY <2>1
<1> HIDE DEF t
<1>6. /\ ContentInv' /\ OrderInv' /\ ready' \in Seq(Handles)
      /\ InReady' = Elems(b) \union Elems(t)
  BY <1>1, <1>3, <1>4, <1>5, PlainStep DEF IInv
<1>7. QueueOK'
  BY <1>6 DEF IInv, TypeOK, QueueOK
<1>8. MadeInv'
  <2>1. Elems(t) \intersect ProtocolCalls = {}
    BY <1>3, CallFacts
  <2>2. CallMade \in InReady => CallMade \in InReady'
    BY <1>6, PlainFacts
  <2> QED
    BY <1>5, <1>6, <2>1, <2>2, KeepsMade DEF IInv
<1>9. StartInv'
  <2>1. \A x : x \in InReady' <=> (x \in InReady /\ x \notin T)
                                    \/ \E f \in S : x = PipeEnds(f)
    BY <1>3, <1>6
  <2>2. /\ StdioInited \in InReady' <=> StdioInited \in InReady
        /\ CallMade \in InReady' <=> CallMade \in InReady
        /\ CreateWakes \in InReady' => CreateWakes \in InReady
        /\ \A f \in Fds :
             /\ PipeMade(f) \in InReady' <=> PipeMade(f) \in InReady
             /\ Gathers(f) \in InReady' <=> Gathers(f) \in InReady
             /\ PipeEnds(f) \in InReady' <=> PipeEnds(f) \in InReady \/ f \in S
    BY <2>1, PlainFacts
  <2>3. /\ \A f \in pipes : pipe'[f] = "lost" <=> pipe[f] = "lost"
        /\ \A f \in pipes : pipe[f] = "closing" => pipe'[f] = "closing"
        /\ \A f \in S : pipe'[f] = "closing"
    BY <1>1, <1>2 DEF Stops
  <2> QED
    BY <1>2, <2>2, <2>3 DEF IInv, StartInv
<1> QED
  BY <1>6, <1>7, <1>8, <1>9 DEF IInv, TypeOK

\* close() by the application.
LEMMA CloseStep ==
    ASSUME IInv, Close, ScalarOK'
    PROVE  IInv'
<1>1. PICK buffered \in SUBSET Buffered : Closing(buffered, ready)
  BY DEF Close
<1>2. UNCHANGED <<pipes, received, disconnected, returncode, finished, lateExit,
                  calls, pending, stdioReady, gathered, create, made>>
  BY DEF Close, finishVars, initVars, exitVars
<1> DEFINE T == {}
<1>3. ready \in Seq(Handles) /\ Elems(ready) = InReady \ T
  BY DEF IInv, TypeOK, QueueOK, InReady
<1>4. /\ T \subseteq {CreateWakes}
      /\ \A R : Ordered(calls, ready, pending, R) => Ordered(calls, ready, pending, R)
  OBVIOUS
<1> HIDE DEF T
<1> QED
  BY <1>1, <1>2, <1>3, <1>4, ClosingStep

\* close() by __subprocess_run.
LEMMA CreateWakesStep ==
    ASSUME IInv, RunCreateWakes, ScalarOK'
    PROVE  IInv'
<1>1. PICK buffered \in SUBSET Buffered : Closing(buffered, Tail(ready))
  BY DEF RunCreateWakes
<1>2. /\ ready # <<>> /\ Head(ready) = CreateWakes
      /\ UNCHANGED <<pipes, received, disconnected, returncode, finished, lateExit,
                     calls, pending, stdioReady, gathered, create, made>>
  BY DEF RunCreateWakes, finishVars, initVars, exitVars
<1>3. /\ Tail(ready) \in Seq(Handles) /\ Elems(Tail(ready)) = InReady \ {CreateWakes}
      /\ \A R : Ordered(calls, ready, pending, R) =>
                    Ordered(calls, Tail(ready), pending, R)
  BY <1>2, Taken DEF IInv
<1> QED
  BY <1>1, <1>2, <1>3, ClosingStep

\* The task that creates the process is cancelled.
LEMMA CancelStep ==
    ASSUME IInv, CancelCreate, ScalarOK'
    PROVE  IInv'
<1>1. /\ create = "waiting" /\ create' = "cancelled"
      /\ ready' = Append(ready, CreateWakes)
      /\ UNCHANGED <<pipes, received, pipe, disconnected, returncode, finished,
                     lateExit, calls, pending, stdioReady, gathered, made>>
  BY DEF CancelCreate, childVars, pipeVars, finishVars, exitVars
<1>2. CreateWakes \in Plain /\ CreateWakes \notin InReady
  BY <1>1, PlainFacts DEF IInv, StartInv
<1>3. /\ ContentInv' /\ OrderInv'
      /\ ready' \in Seq(Handles) /\ InReady' = InReady \union {CreateWakes}
  BY <1>1, <1>2, AppendStep DEF IInv
<1>4. QueueOK'
  BY <1>1, <1>3 DEF IInv, TypeOK, QueueOK
<1>5. StartInv'
  BY <1>1, <1>3, PlainFacts DEF IInv, StartInv
<1>6. MadeInv'
  <2>1. CreateWakes \notin ProtocolCalls
    BY <1>2, CallFacts
  <2> QED
    BY <1>1, <1>3, <2>1, KeepsMade DEF IInv
<1> QED
  BY <1>3, <1>4, <1>5, <1>6 DEF IInv, TypeOK

\* A pipe's transport starts: its waiter is done.
LEMMA PipeMadeStep ==
    ASSUME IInv, NEW f \in pipes, RunPipeMade(f), ScalarOK'
    PROVE  IInv'
<1> DEFINE h == PipeMade(f)
           t == IF Spawned THEN <<Gathers(f)>> ELSE <<>>
           T == IF Spawned THEN {Gathers(f)} ELSE {}
<1>1. /\ ready # <<>> /\ Head(ready) = h /\ ready' = Tail(ready) \o t
      /\ pipe' = [pipe EXCEPT ![f] = IF @ = "init" THEN "open" ELSE @]
      /\ UNCHANGED <<pipes, received, disconnected, returncode, finished, lateExit,
                     calls, pending, stdioReady, gathered, create, made>>
  BY DEF RunPipeMade, Runs, childVars, finishVars, initVars, exitVars
<1>2. f \in Fds /\ h \in Plain /\ Gathers(f) \in Plain /\ Gathers(f) \in Handles
  BY PlainFacts, CallFacts DEF IInv, TypeOK, ScalarOK
<1>3. h \in InReady
  BY <1>1, Taken DEF IInv
<1>4. Gathers(f) \notin InReady /\ f \notin gathered
  BY <1>2, <1>3 DEF IInv, StartInv
<1>5. t \in Seq(Handles) /\ Elems(t) = T /\ \A R \in Orders : Free(t, R)
  <2>1. <<Gathers(f)>> \in Seq(Handles) /\ <<>> \in Seq(Handles)
    BY <1>2
  <2> QED
    BY <2>1, ElemsFacts, ShortFree
<1>6. T \subseteq Plain /\ (InReady \ {h}) \intersect T = {}
  BY <1>2, <1>4
<1> HIDE DEF t
<1>7. /\ ContentInv' /\ OrderInv' /\ ready' \in Seq(Handles)
      /\ InReady' = (InReady \ {h}) \union T
  BY <1>1, <1>2, <1>5, <1>6, RunStep DEF IInv
<1>8. QueueOK'
  BY <1>1, <1>7 DEF IInv, TypeOK, QueueOK
<1>9. MadeInv'
  <2>1. T \intersect ProtocolCalls = {}
    BY <1>2, CallFacts
  <2>2. CallMade # h
    BY PlainFacts
  <2> QED
    BY <1>1, <1>7, <2>1, <2>2, KeepsMade DEF IInv
<1>10. StartInv'
  <2>1. /\ StdioInited \in InReady' <=> StdioInited \in InReady
        /\ CallMade \in InReady' <=> CallMade \in InReady
        /\ CreateWakes \in InReady' <=> CreateWakes \in InReady
        /\ \A g \in Fds :
             /\ PipeMade(g) \in InReady' <=> PipeMade(g) \in InReady /\ g # f
             /\ Gathers(g) \in InReady' => Gathers(g) \in InReady \/ g = f
             /\ PipeEnds(g) \in InReady' <=> PipeEnds(g) \in InReady
    BY <1>7, PlainFacts
  <2>2. \A g \in pipes : pipe'[g] = IF g = f /\ pipe[g] = "init" THEN "open" ELSE pipe[g]
    BY <1>1 DEF IInv, TypeOK, ScalarOK
  <2>3. /\ \A g \in pipes : pipe'[g] = "lost" <=> pipe[g] = "lost"
        /\ \A g \in pipes : pipe[g] = "closing" => pipe'[g] = "closing"
    BY <2>2
  <2> QED
    BY <1>1, <1>4, <2>1, <2>3 DEF IInv, StartInv
<1> QED
  BY <1>7, <1>8, <1>9, <1>10 DEF IInv, TypeOK

\* gather() sees one of the pipes' waiters, and is done with the last.
LEMMA GathersStep ==
    ASSUME IInv, NEW f \in pipes, RunGathers(f), ScalarOK'
    PROVE  IInv'
<1> DEFINE h == Gathers(f)
           all == gathered' = pipes
           t == IF all THEN <<StdioInited>> ELSE <<>>
           T == IF all THEN {StdioInited} ELSE {}
<1>1. /\ ready # <<>> /\ Head(ready) = h /\ ready' = Tail(ready) \o t
      /\ gathered' = gathered \union {f}
      /\ UNCHANGED <<pipes, received, pipe, disconnected, returncode, finished,
                     lateExit, calls, pending, stdioReady, create, made>>
  BY DEF RunGathers, Runs, childVars, pipeVars, finishVars, exitVars
<1>2. f \in Fds /\ h \in Plain /\ StdioInited \in Plain /\ StdioInited \in Handles
  BY PlainFacts, CallFacts DEF IInv, TypeOK, ScalarOK
<1>3. h \in InReady
  BY <1>1, Taken DEF IInv
<1>4. f \notin gathered /\ StdioInited \notin InReady /\ CallMade \notin InReady
      /\ made = "no" /\ PipeMade(f) \notin InReady
  BY <1>2, <1>3 DEF IInv, StartInv
<1>5. t \in Seq(Handles) /\ Elems(t) = T /\ \A R \in Orders : Free(t, R)
  <2>1. <<StdioInited>> \in Seq(Handles) /\ <<>> \in Seq(Handles)
    BY <1>2
  <2> QED
    BY <2>1, ElemsFacts, ShortFree
<1>6. T \subseteq Plain /\ (InReady \ {h}) \intersect T = {}
  BY <1>2, <1>4
<1> HIDE DEF t
<1>7. /\ ContentInv' /\ OrderInv' /\ ready' \in Seq(Handles)
      /\ InReady' = (InReady \ {h}) \union T
  BY <1>1, <1>2, <1>5, <1>6, RunStep DEF IInv
<1>8. QueueOK'
  BY <1>1, <1>7 DEF IInv, TypeOK, QueueOK
<1>9. MadeInv'
  <2>1. T \intersect ProtocolCalls = {}
    BY <1>2, CallFacts
  <2>2. CallMade # h
    BY PlainFacts
  <2> QED
    BY <1>1, <1>7, <2>1, <2>2, KeepsMade DEF IInv
<1>10. StartInv'
  <2>1. /\ StdioInited \in InReady' => gathered' = pipes
        /\ CallMade \in InReady' <=> CallMade \in InReady
        /\ CreateWakes \in InReady' <=> CreateWakes \in InReady
        /\ \A g \in Fds :
             /\ PipeMade(g) \in InReady' <=> PipeMade(g) \in InReady
             /\ Gathers(g) \in InReady' <=> Gathers(g) \in InReady /\ g # f
             /\ PipeEnds(g) \in InReady' <=> PipeEnds(g) \in InReady
    BY <1>4, <1>7, PlainFacts
  <2>2. \A g \in Fds : g \in gathered' <=> g \in gathered \/ g = f
    BY <1>1
  <2> QED
    BY <1>1, <1>4, <2>1, <2>2 DEF IInv, StartInv
<1> QED
  BY <1>7, <1>8, <1>9, <1>10 DEF IInv, TypeOK

\* __stdio_inited: connection_made is in the loop before any call is.
LEMMA StdioInitedStep ==
    ASSUME IInv, RunStdioInited, ScalarOK'
    PROVE  IInv'
<1> DEFINE h == StdioInited
           b == Tail(ready)
           t == <<CallMade>>
<1>1. /\ ready # <<>> /\ Head(ready) = h /\ ready' = b \o t
      /\ UNCHANGED <<pipes, received, pipe, disconnected, returncode, finished,
                     lateExit, calls, pending, stdioReady, gathered, create, made>>
  BY DEF RunStdioInited, Runs, childVars, pipeVars, finishVars, initVars, exitVars
<1>2. /\ h \in InReady /\ b \in Seq(Handles) /\ Elems(b) = InReady \ {h}
      /\ \A R : Ordered(calls, ready, pending, R) => Ordered(calls, b, pending, R)
  BY <1>1, Taken DEF IInv
<1>3. CallMade \notin InReady /\ made = "no" /\ gathered = pipes /\ calls = <<>>
  BY <1>2 DEF IInv, StartInv, MadeInv
<1>4. ~stdioReady
  BY <1>3 DEF IInv, MadeInv, TypeOK, ScalarOK
<1>5. InReady \intersect ProtocolCalls = {}
  BY <1>4 DEF IInv, MadeInv
<1>6. t \in Seq(Handles) /\ Elems(t) = {CallMade} /\ \A R : Free(t, R)
  <2>1. t \in Seq(Handles)
    BY CallFacts
  <2> QED
    BY <2>1, ElemsFacts, ShortFree
<1> HIDE DEF b, t
<1>7. /\ ready' \in Seq(Handles)
      /\ InReady' = (InReady \ {h}) \union {CallMade}
  <2>1. t \in Seq(Handles)
    BY <1>6
  <2>2. b \o t \in Seq(Handles) /\ Elems(b \o t) = Elems(b) \union Elems(t)
    BY <1>2, <2>1, Joined
  <2> QED
    BY <1>1, <1>2, <1>6, <2>2 DEF InReady
<1>8. QueueOK'
  BY <1>1, <1>7 DEF IInv, TypeOK, QueueOK
<1>9. h \notin ProtocolCalls /\ CallMade \notin ProtocolCalls
  BY PlainFacts, CallFacts
<1>10. ContentInv'
  <2>1. All = Elems(calls) \union InReady \union Elems(pending)
    BY DEF All, InReady
  <2>2. All' = Elems(calls) \union InReady' \union Elems(pending)
    BY <1>1 DEF All, InReady
  <2>3. All' \intersect ProtocolCalls = All \intersect ProtocolCalls
    BY <1>7, <1>9, <2>1, <2>2
  <2> QED
    BY <1>1, <2>3, KeepsContent DEF IInv
<1>11. MadeInv'
  BY <1>1, <1>4, <1>5, <1>7, <1>9 DEF IInv, MadeInv
<1>12. StartInv'
  <2>1. /\ StdioInited \notin InReady'
        /\ CreateWakes \in InReady' <=> CreateWakes \in InReady
        /\ \A g \in Fds :
             /\ PipeMade(g) \in InReady' <=> PipeMade(g) \in InReady
             /\ Gathers(g) \in InReady' <=> Gathers(g) \in InReady
             /\ PipeEnds(g) \in InReady' <=> PipeEnds(g) \in InReady
    BY <1>7, PlainFacts
  <2> QED
    BY <1>1, <1>3, <2>1 DEF IInv, StartInv
<1>13. OrderInv'
  <2>1. ASSUME NEW R \in Orders, Ordered(calls, ready, pending, R)
        PROVE  Ordered(calls', ready', pending', R)
    <3>1. Elems(calls) = {}
      BY <1>3, ElemsFacts
    <3>2. ASSUME NEW x \in Elems(b) PROVE <<x, CallMade>> \notin R
      <4>1. x # CallMade /\ x \notin ProtocolCalls
        BY <1>2, <1>3, <1>5
      <4>2. CallMade # Exited /\ CallMade \notin Losses
            /\ \A f, n : CallMade # Data(f, n)
        BY HandleFacts DEF Losses
      <4>3. ~Wrong(x, CallMade)
        BY <4>1, <4>2 DEF Wrong
      <4> QED
        BY <4>2, <4>3, PairFacts DEF Orders
    <3>3. ASSUME NEW y \in Elems(pending) PROVE <<CallMade, y>> \notin R
      <4>1. y # CallMade
        BY Kinds, CallFacts DEF IInv
      <4>2. /\ CallMade # ConnectionLost /\ CallMade \notin Losses
            /\ CallMade \notin ProtocolCalls
            /\ \A f : CallMade # PipeLost(f)
            /\ \A f, n : CallMade # Data(f, n)
        BY <1>9, HandleFacts DEF Losses
      <4>3. ~Wrong(CallMade, y)
        BY <4>1, <4>2 DEF Wrong
      <4> QED
        BY <4>2, <4>3, PairFacts DEF Orders
    <3>4. /\ Apart(Elems(calls), Elems(t), R) /\ Apart(Elems(b), Elems(t), R)
          /\ Apart(Elems(t), Elems(pending), R)
      BY <1>6, <3>1, <3>2, <3>3 DEF Apart
    <3>5. Ordered(calls, b, pending, R) /\ Free(t, R) /\ t \in Seq(Handles)
      BY <1>2, <1>6, <2>1
    <3>6. Ordered(calls, b \o t, pending, R)
      BY <1>2, <3>4, <3>5, Grow
    <3> QED
      BY <1>1, <3>6
  <2> QED
    BY <1>1, <2>1, KeepsOrder DEF IInv
<1> QED
  BY <1>8, <1>10, <1>11, <1>12, <1>13 DEF IInv, TypeOK

-----------------------------------------------------------------------------
(* The invariant *)

\* It holds when the transport is new ...
LEMMA InitIInv ==
    ASSUME Init
    PROVE  IInv
<1> DEFINE t == ForPipes(pipes, "PipeMade")
           m == <<CallMade>>
<1>1. pipes \subseteq Fds
  BY ProcessAssumption DEF Init
<1>2. ScalarOK
  <2>1. 0 \in 0..MaxData
    BY ProcessAssumption
  <2>2. /\ sent = [f \in pipes |-> 0] /\ received = [f \in pipes |-> 0]
        /\ pipe = [f \in pipes |-> "init"]
    BY DEF Init
  <2>3. /\ sent \in [pipes -> 0..MaxData] /\ received \in [pipes -> 0..MaxData]
        /\ pipe \in [pipes -> {"init", "open", "flushing", "closing", "lost"}]
        /\ \A f \in pipes : received[f] <= sent[f]
    BY <2>1, <2>2
  <2>4. /\ start \in Starts /\ disconnected \subseteq pipes /\ gathered \subseteq pipes
        /\ stdioReady \in BOOLEAN /\ finished \in BOOLEAN
        /\ returncode \in BOOLEAN /\ lateExit \in BOOLEAN
        /\ create \in {"waiting", "done", "failed", "cancelled"}
        /\ made \in {"no", "in", "returned", "raised", "escaped"}
    BY DEF Init
  <2> QED
    BY <1>1, <2>3, <2>4 DEF ScalarOK
<1>3. t \in Seq(Handles) /\ Elems(t) = {PipeMade(f) : f \in pipes}
      /\ Elems(t) \subseteq Plain /\ \A R \in Orders : Free(t, R)
  BY <1>1, ForPipesFacts DEF PipeMade
<1>4. m \in Seq(Handles) /\ Elems(m) = {CallMade} /\ \A R : Free(m, R)
  <2>1. m \in Seq(Handles)
    BY CallFacts
  <2> QED
    BY <2>1, ElemsFacts, ShortFree
<1>5. calls = <<>> /\ pending = <<>> /\ Elems(calls) = {} /\ Elems(pending) = {}
      /\ \A R : Free(calls, R) /\ Free(pending, R)
  BY ElemsFacts, ShortFree DEF Init
<1>6. ready = IF Spawned /\ pipes = {} THEN m ELSE t
  BY DEF Init
<1> HIDE DEF t, m
<1>7. /\ ready \in Seq(Handles) /\ \A R \in Orders : Free(ready, R)
      /\ InReady = IF Spawned /\ pipes = {} THEN {CallMade}
                   ELSE {PipeMade(f) : f \in pipes}
  BY <1>3, <1>4, <1>6 DEF InReady
<1>8. TypeOK
  <2>1. calls \in Seq(Told) /\ pending \in Seq(ProtocolCalls)
    BY <1>5
  <2> QED
    BY <1>2, <1>7, <2>1 DEF TypeOK, QueueOK
<1>9. InReady \intersect ProtocolCalls = {}
  BY <1>1, <1>7, PlainFacts, CallFacts
<1>10. ContentInv
  <2>1. \A c \in ProtocolCalls : c \notin All
    BY <1>5, <1>9 DEF All, InReady
  <2>2. \A f \in pipes, n \in 1..MaxData : Data(f, n) \notin All /\ ~(n <= received[f])
    BY <1>1, <2>1, CallFacts DEF Init
  <2> QED
    BY <2>1, <2>2, CallFacts DEF Init, ContentInv
<1>11. StartInv
  <2>1. /\ StdioInited \notin InReady /\ CreateWakes \notin InReady
        /\ \A f : Gathers(f) \notin InReady /\ PipeEnds(f) \notin InReady
        /\ CallMade \in InReady => pipes = {}
    BY <1>7, PlainFacts
  <2> QED
    BY <1>1, <2>1 DEF Init, StartInv
<1>12. MadeInv
  <2>1. stdioReady => CallMade \in InReady
    BY <1>7 DEF Init
  <2>2. made = "no" /\ ~lateExit
    BY DEF Init
  <2> QED
    BY <1>5, <1>9, <2>1, <2>2 DEF MadeInv
<1>13. OrderInv
  <2>1. \A R \in Orders : Ordered(calls, ready, pending, R)
    BY <1>5, <1>7, ApartFacts DEF Ordered
  <2> QED
    BY <2>1 DEF OrderInv, Orders
<1> QED
  BY <1>8, <1>10, <1>11, <1>12, <1>13 DEF IInv

\* ... and after every step.
LEMMA NextIInv ==
    ASSUME IInv, Next
    PROVE  IInv'
<1>0. ScalarOK'
  BY ScalarStep DEF IInv, TypeOK
<1>q. QueueOK /\ (UNCHANGED <<calls, ready, pending>> => TypeOK')
  BY <1>0 DEF IInv, TypeOK, QueueOK
<1>1. CASE ChildExits
  BY <1>1, <1>q, QuietStep DEF ChildExits, pipeVars, finishVars, initVars, exitVars
<1>2. ASSUME NEW f \in pipes, ChildWrites(f) PROVE IInv'
  BY <1>2, <1>q, QuietStep DEF ChildWrites, pipeVars, finishVars, initVars, exitVars
<1>3. ASSUME NEW f \in pipes, ChildCloses(f) PROVE IInv'
  BY <1>3, <1>q, QuietStep DEF ChildCloses, pipeVars, finishVars, initVars, exitVars
<1>4. CASE OnExit
  BY <1>0, <1>4, OnExitStep
<1>5. CASE Flushed
  BY <1>0, <1>5, PipeStops DEF Flushed, finishVars, initVars, exitVars
<1>6. ASSUME NEW f \in pipes, ReadData(f) PROVE IInv'
  BY <1>0, <1>6, ReadDataStep
<1>7. ASSUME NEW f \in pipes, ReadEof(f) PROVE IInv'
  BY <1>0, <1>7, PipeStops DEF ReadEof, finishVars, initVars, exitVars
<1>8. CASE BatchStarts
  BY <1>8, <1>q, QuietStep DEF BatchStarts, pipeVars, finishVars, initVars, exitVars
<1>9. ASSUME NEW f \in pipes, RunPipeMade(f) PROVE IInv'
  BY <1>0, <1>9, PipeMadeStep
<1>10. ASSUME NEW f \in pipes, RunGathers(f) PROVE IInv'
  BY <1>0, <1>10, GathersStep
<1>11. ASSUME NEW f \in pipes, RunPipeEnds(f) PROVE IInv'
  BY <1>0, <1>11, PipeEndsStep
<1>12. CASE RunStdioInited
  BY <1>0, <1>12, StdioInitedStep
<1>13. CASE RunCallMade
  BY <1>0, <1>13, CallMadeStep
<1>14. CASE RunCreateWakes
  BY <1>0, <1>14, CreateWakesStep
<1>15. ASSUME NEW c \in ProtocolCalls, RunCall(c) PROVE IInv'
  BY <1>0, <1>15, RunCallStep
<1> DEFINE none == <<>>
           one == <<CreateWakes>>
<1>a. none \in Seq(Handles) /\ Elems(none) = {} /\ \A R : Free(none, R)
  BY ElemsFacts, ShortFree
<1>b. one \in Seq(Handles) /\ Elems(one) = {CreateWakes} /\ \A R : Free(one, R)
  <2>1. one \in Seq(Handles)
    BY PlainFacts, CallFacts
  <2> QED
    BY <2>1, ElemsFacts, ShortFree
<1>16. CASE MadeReturns
  <2>1. /\ made = "in" /\ made' = "returned" /\ StdioIsReady(none)
        /\ create' = IF create = "waiting" THEN "done" ELSE create
        /\ UNCHANGED <<pipes, received, pipe, disconnected, gathered, returncode,
                       lateExit, calls>>
    BY <1>16 DEF MadeReturns, pipeVars, exitVars
  <2>2. /\ create' \in {create, "done", "failed"}
        /\ create = "cancelled" \/ create = "failed" => create' = create
        /\ Elems(none) \subseteq {CreateWakes} /\ CreateWakes \notin Elems(none)
        /\ made' \in {"returned", "raised"}
    BY <1>a, <2>1
  <2>3. none = <<>>
    OBVIOUS
  <2> HIDE DEF none
  <2> QED
    BY <1>0, <1>a, <2>1, <2>2, <2>3, ReplayStep
<1>17. CASE MadeRaises
  <2>1. CASE create = "waiting"
    <3>1. /\ made = "in" /\ made' = "raised" /\ create' = "failed" /\ StdioIsReady(one)
          /\ UNCHANGED <<pipes, received, pipe, disconnected, gathered, returncode,
                         lateExit, calls>>
      BY <1>17, <2>1 DEF MadeRaises, pipeVars, exitVars
    <3>2. /\ create' \in {create, "done", "failed"}
          /\ create = "cancelled" \/ create = "failed" => create' = create
          /\ Elems(one) \subseteq {CreateWakes}
          /\ made' \in {"returned", "raised"}
      BY <1>b, <2>1, <3>1
    <3> HIDE DEF one
    <3> QED
      BY <1>0, <1>b, <2>1, <3>1, <3>2, ReplayStep
  <2>2. CASE create # "waiting"
    BY <1>17, <1>q, <2>2, QuietStep
       DEF MadeRaises, pipeVars, finishVars, exitVars
  <2> QED
    BY <2>1, <2>2
<1>18. CASE MadeInterrupted
  BY <1>18, <1>q, QuietStep DEF MadeInterrupted, pipeVars, finishVars, exitVars
<1>19. CASE Close
  BY <1>0, <1>19, CloseStep
<1>20. CASE Wait
  BY <1>20, <1>q, QuietStep DEF Wait, pipeVars, finishVars, initVars
<1>21. CASE CancelCreate
  BY <1>0, <1>21, CancelStep
<1>22. ASSUME NEW f \in pipes, ClosePipe(f) PROVE IInv'
  <2>1. /\ pipe[f] = "open"
        /\ \/ pipe' = [pipe EXCEPT ![f] = "closing"] /\ ready' = Append(ready, PipeEnds(f))
           \/ pipe' = [pipe EXCEPT ![f] = "flushing"] /\ UNCHANGED ready
        /\ UNCHANGED <<pipes, received, disconnected, returncode, finished,
                       lateExit, calls, pending, stdioReady, gathered, create, made>>
    BY <1>22 DEF ClosePipe, finishVars, initVars, exitVars
  <2> QED
    BY <1>0, <2>1, PipeStops, PipeFlushes
<1> QED
  BY <1>1, <1>2, <1>3, <1>4, <1>5, <1>6, <1>7, <1>8, <1>9, <1>10, <1>11, <1>12,
     <1>13, <1>14, <1>15, <1>16, <1>17, <1>18, <1>19, <1>20, <1>21, <1>22
     DEF Next, Child, RunHandle, User

\* The invariant holds, whatever the child, the application and the loop do.
THEOREM Invariance == Spec => []IInv
<1>1. Init => IInv
  BY InitIInv
<1>2. ASSUME IInv, [Next]_vars PROVE IInv'
  <2>1. CASE Next
    BY <1>2, <2>1, NextIInv
  <2>2. CASE UNCHANGED vars
    <3>1. TypeOK'
      BY <1>2, <2>2 DEF IInv, TypeOK, ScalarOK, QueueOK, vars, childVars, pipeVars,
                        finishVars, initVars, exitVars
    <3> QED
      BY <1>2, <2>2, <3>1, QuietStep
         DEF vars, pipeVars, finishVars, initVars, exitVars
  <2> QED
    BY <1>2, <2>1, <2>2
<1> QED
  BY <1>1, <1>2, PTL DEF Spec

\* Type correctness of the subprocess.
THEOREM TypeInvariance == Spec => []TypeOK
<1>1. IInv => TypeOK
  BY DEF IInv
<1> QED
  BY <1>1, Invariance, PTL

\* The calls of each pipe, made, scheduled in _ready or waiting in
\* _pending_calls, are its data in the order it was read and then its loss; the
\* replay after connection_made neither loses one nor lets one overtake another.
THEOREM OrderIsKept == Spec => []CallsInOrder
<1>1. ASSUME IInv PROVE CallsInOrder
  <2> DEFINE front == calls \o ready
             all == front \o pending
  <2>1. /\ calls \in Seq(Items) /\ ready \in Seq(Items) /\ pending \in Seq(Items)
        /\ Ordered(calls, ready, pending, Disorder)
        /\ pipes \subseteq Fds /\ disconnected \subseteq pipes
    <3>1. /\ calls \in Seq(Told) /\ ready \in Seq(Handles) /\ pending \in Seq(Handles)
          /\ Told \subseteq Items /\ Handles \subseteq Items
      BY <1>1, Kinds DEF IInv, TypeOK, QueueOK
    <3>2. calls \in Seq(Items) /\ ready \in Seq(Items) /\ pending \in Seq(Items)
      BY <3>1
    <3> QED
      BY <1>1, <3>2 DEF IInv, TypeOK, ScalarOK, OrderInv
  <2>2. /\ front \in Seq(Items) /\ Elems(front) = Elems(calls) \union Elems(ready)
        /\ Free(front, Disorder)
    BY <2>1, Joined DEF Ordered
  <2> HIDE DEF front
  <2>3. Apart(Elems(front), Elems(pending), Disorder)
    BY <2>1, <2>2, ApartFacts DEF Ordered
  <2>4. /\ all \in Seq(Items) /\ Elems(all) = All /\ Free(all, Disorder)
    <3>1. front \in Seq(Items) /\ pending \in Seq(Items)
      BY <2>1, <2>2
    <3>2. Free(front, Disorder) /\ Free(pending, Disorder)
      BY <2>1, <2>2 DEF Ordered
    <3>3. all \in Seq(Items) /\ Free(all, Disorder)
      BY <2>3, <3>1, <3>2, Joined
    <3>4. Elems(all) = Elems(front) \union Elems(pending)
      BY <3>1, Joined
    <3> QED
      BY <2>2, <3>3, <3>4 DEF All
  <2> HIDE DEF all
  <2>5. ASSUME NEW f \in pipes
        PROVE  Elems(all) \intersect CallsAbout(f) =
                 {Data(f, n) : n \in 1..received[f]}
                    \union {PipeLost(g) : g \in disconnected \intersect {f}}
    <3>1. /\ \A n \in 1..MaxData : Data(f, n) \in Elems(all) <=> n <= received[f]
          /\ PipeLost(f) \in Elems(all) <=> f \in disconnected
          /\ received[f] \in 0..MaxData /\ MaxData \in Nat
      BY <1>1, <2>1, <2>4, ProcessAssumption
         DEF IInv, ContentInv, TypeOK, ScalarOK
    <3>2. \A n : n \in 1..received[f] <=> n \in 1..MaxData /\ n <= received[f]
      BY <3>1
    <3> QED
      BY <3>1, <3>2 DEF CallsAbout
  <2>6. ASSUME NEW f \in pipes, NEW i \in 1..Len(all), NEW j \in 1..Len(all),
               i < j, all[i] \in CallsAbout(f), all[j] \in CallsAbout(f)
        PROVE  all[i] \in Before(all[j])
    <3>1. /\ <<all[i], all[j]>> \notin Disorder
          /\ all[i] \in Items /\ all[j] \in Items
      BY <2>4, <2>6 DEF Free
    <3>2. ~Wrong(all[i], all[j])
      BY <3>1, PairFacts
    <3>3. f \in Fds
      BY <2>1
    <3>4. PICK n \in 1..MaxData : all[i] = Data(f, n)
      <4>1. CASE all[i] = PipeLost(f)
        <5>1. CASE all[j] = PipeLost(f)
          BY <3>2, <4>1, <5>1 DEF Wrong
        <5>2. ASSUME NEW m \in 1..MaxData, all[j] = Data(f, m) PROVE FALSE
          BY <3>2, <3>3, <4>1, <5>2 DEF Wrong
        <5> QED
          BY <2>6, <5>1, <5>2 DEF CallsAbout
      <4> QED
        BY <2>6, <4>1 DEF CallsAbout
    <3>5. CASE all[j] = PipeLost(f)
      <4>1. all[j].fd = f
        BY <3>5, HandleFacts
      <4>2. Before(all[j]) = {Data(f, k) : k \in 1..MaxData}
        BY <3>5, <4>1 DEF Before
      <4> QED
        BY <3>4, <4>2
    <3>6. ASSUME NEW m \in 1..MaxData, all[j] = Data(f, m) PROVE all[i] \in Before(all[j])
      <4>1. all[j].fd = f /\ all[j].n = m /\ all[j] # PipeLost(f)
        BY <3>6, HandleFacts
      <4>2. Before(all[j]) = {Data(f, k) : k \in 1..(m - 1)}
        BY <4>1 DEF Before
      <4>3. ~(m <= n)
        BY <3>2, <3>3, <3>4, <3>6 DEF Wrong
      <4>4. n \in 1..(m - 1)
        BY <4>3, ProcessAssumption
      <4> QED
        BY <3>4, <4>2, <4>4
    <3> QED
      BY <2>6, <3>5, <3>6 DEF CallsAbout
  <2> QED
    BY <2>5, <2>6 DEF CallsInOrder, Elems, all, front
<1> QED
  BY <1>1, Invariance, PTL

\* connection_made is the first call and none is made twice.
THEOREM NothingTwice == Spec => []ToldOnce
<1>1. ASSUME IInv PROVE ToldOnce
  <2>1. calls \in Seq(Told) /\ Free(calls, Disorder)
    BY <1>1 DEF IInv, TypeOK, QueueOK, OrderInv, Ordered
  <2>2. ASSUME NEW i \in 1..Len(calls), NEW j \in 1..Len(calls), i < j
        PROVE  calls[i] # calls[j]
    <3>1. calls[i] \in Items /\ calls[j] \in Items
      BY <2>1, Kinds, <1>1 DEF IInv
    <3>2. ~Wrong(calls[i], calls[j])
      BY <2>1, <2>2, <3>1, PairFacts DEF Free
    <3> QED
      BY <3>2 DEF Wrong
  <2>3. IsInjective(calls)
    <3>1. DOMAIN calls = 1..Len(calls)
      BY <2>1
    <3>2. \A i, j \in 1..Len(calls) : i < j \/ j < i \/ i = j
      BY <2>1
    <3> QED
      BY <2>2, <3>1, <3>2 DEF IsInjective
  <2>4. calls # <<>> => Head(calls) = ConnectionMade
    BY <1>1, <2>1 DEF IInv, MadeInv
  <2> QED
    BY <2>3, <2>4 DEF ToldOnce
<1> QED
  BY <1>1, Invariance, PTL

\* If the exit was seen after connection_made, or there is at most one pipe,
\* connection_lost comes after process_exited and the loss of every pipe.
THEOREM LossIsLast == Spec => []LostIsLastOnceReady
<1>1. ASSUME IInv PROVE LostIsLastOnceReady
  <2>1. ASSUME Cardinality(pipes) < 2 PROVE OnePipe
    <3>1. IsFiniteSet(Fds)
      <4>1. IsFiniteSet({0}) /\ IsFiniteSet({1}) /\ IsFiniteSet({2})
        BY FS_Singleton
      <4>2. IsFiniteSet({0} \union {1})
        BY <4>1, FS_Union
      <4>3. IsFiniteSet(({0} \union {1}) \union {2})
        BY <4>1, <4>2, FS_Union
      <4>4. Fds = ({0} \union {1}) \union {2}
        BY DEF Fds
      <4> QED
        BY <4>3, <4>4
    <3>2. pipes \subseteq Fds
      BY <1>1 DEF IInv, TypeOK, ScalarOK
    <3>3. IsFiniteSet(pipes) /\ Cardinality(pipes) \in Nat
      BY <3>1, <3>2, FS_Subset, FS_CardinalityType
    <3>4. Cardinality(pipes) = 0 \/ Cardinality(pipes) = 1
      BY <2>1, <3>3
    <3>5. pipes = {} \/ \E f : pipes = {f}
      BY <3>3, <3>4, FS_EmptySet, FS_Singleton
    <3> QED
      BY <3>5 DEF OnePipe
  <2>2. ASSUME lateExit \/ OnePipe, ConnectionLost \in Elems(calls)
        PROVE  /\ Exited \in Elems(calls)
               /\ \A f \in pipes : PipeLost(f) \in Elems(calls)
    <3>1. Ordered(calls, ready, pending, TooLate)
      BY <1>1, <2>2 DEF IInv, OrderInv
    <3>2. ASSUME NEW y \in All, <<ConnectionLost, y>> \in TooLate
          PROVE  y \in Elems(calls)
      BY <2>2, <3>1, <3>2 DEF Ordered, Apart, All
    <3>3. /\ Exited \in All /\ \A f \in pipes : f \in Fds /\ PipeLost(f) \in All
      <4>1. finished
        BY <1>1, <2>2 DEF IInv, ContentInv, All
      <4> QED
        BY <1>1, <4>1 DEF IInv, ContentInv, TypeOK, ScalarOK
    <3>4. /\ <<ConnectionLost, Exited>> \in TooLate
          /\ \A f \in Fds : <<ConnectionLost, PipeLost(f)>> \in TooLate
      BY PairFacts DEF Losses
    <3> QED
      BY <3>2, <3>3, <3>4
  <2>3. \A c : Called(c) <=> c \in Elems(calls)
    BY DEF Called, Elems
  <2> QED
    BY <2>1, <2>2, <2>3 DEF LostIsLastOnceReady, LostIsLast
<1> QED
  BY <1>1, Invariance, PTL
=============================================================================
