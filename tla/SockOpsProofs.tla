---------------------------- MODULE SockOpsProofs ----------------------------
(***************************************************************************)
(* The socket operations of any program: no handle outlives its operation,  *)
(* the socket is open exactly as long as something uses it, and a careful    *)
(* program's futures are watched over, for any set of operations.            *)
(***************************************************************************)
EXTENDS SockOps, TLAPS

Polls == [there : BOOLEAN, alive : BOOLEAN, own : BOOLEAN, mask : SUBSET Dirs,
          handle : [Dirs -> Ops \union {NoOp}], ref : SUBSET Dirs]

TypeOK ==
    /\ io \in Polls
    /\ event \in [phase : {"none", "in", "user", "out", "end"},
                  bits : SUBSET Dirs, error : BOOLEAN]
    /\ task \in [Ops -> {"idle", "waiting", "cancelling", "back"}]
    /\ fut \in [Ops -> {"none", "pending", "done", "cancelled"}]
    /\ closed \in BOOLEAN /\ loopClosed \in BOOLEAN /\ err \in BOOLEAN
    /\ disciplined \in BOOLEAN

\* A poll: what has a handle is polled for, what is polled for holds the
\* socket, and a poll that is closed, or not there, polls for nothing.
Sound(i) ==
    /\ Watched(i) \subseteq i.mask /\ i.mask \subseteq i.ref
    /\ ~i.there => ~i.alive
    /\ ~i.alive => i.mask = {}
    /\ \A d \in Dirs : i.handle[d] # NoOp => Dir(i.handle[d]) = d

PollInv ==
    /\ Sound(io)
    /\ loopClosed => ~io.there /\ event.phase = "none"

\* What holds the socket is an operation that is not over.
Owner(d) == \E o \in Ops : /\ Dir(o) = d /\ task[o] = "waiting"
                           /\ o \in Callbacks \/ fut[o] = "pending"

\* NoStaleHandle, of each operation.
Served == \A d \in Dirs, o \in Ops \ Callbacks :
    io.handle[d] = o => fut[o] = "pending" /\ task[o] = "waiting"

OwnerInv ==
    /\ \A d \in io.ref : Owner(d)
    /\ \A o \in Ops : fut[o] = "pending" =>
                          task[o] = "waiting" /\ o \notin Callbacks
    /\ Served

\* The phases of an event that is past a direction.
Past(d) == IF d = "in" THEN {"out", "end"} ELSE {"end"}

\* An event that reports an error has run, and forgotten, the handles of the
\* directions it is past; a callback is the only one that runs its own code.
EventInv ==
    /\ event.error => event.bits = Dirs
    /\ event.error /\ ErrorsPersist => err
    /\ event.phase = "user" => io.handle["in"] \in Callbacks \union {NoOp}
    /\ event.error /\ io.own =>
         /\ event.phase \in {"out", "end"} => io.handle["in"] = NoOp
         /\ event.phase = "end" => io.handle["out"] = NoOp
    /\ \A d \in io.mask : io.handle[d] = NoOp =>
         event.error /\ io.own /\ event.phase \in Past(d)

\* A careful program waits for one operation of a direction at a time, and
\* its handle is the one there.
WaitInv ==
    disciplined =>
        /\ \A o, p \in Ops : task[o] = "waiting" /\ task[p] = "waiting"
                                /\ Dir(o) = Dir(p) => o = p
        /\ ErrorsPersist /\ ~loopClosed =>
             \A o \in Ops : fut[o] = "pending" => io.handle[Dir(o)] = o

IInv == TypeOK /\ PollInv /\ OwnerInv /\ EventInv /\ WaitInv

-----------------------------------------------------------------------------
(* What the operations of a poll make of it *)

\* Every operation has a direction.
LEMMA DirOfOp == ASSUME NEW o \in Ops PROVE Dir(o) \in Dirs
  BY DEF Dir, Dirs

\* A poll with nothing in it.
LEMMA Nothing ==
    /\ NoPoll \in Polls /\ Sound(NoPoll)
    /\ ~NoPoll.there /\ ~NoPoll.alive /\ ~NoPoll.own
    /\ NoPoll.ref = {} /\ NoPoll.mask = {}
    /\ \A d \in Dirs : NoPoll.handle[d] = NoOp
  BY DEF NoPoll, Polls, Sound, Watched, Dirs

\* start_reading() and start_writing() set one handle and poll for it.
LEMMA Added ==
    ASSUME NEW i \in Polls, Sound(i), CanAdd(i),
           NEW o \in Ops, NEW d, d = Dir(o)
    PROVE  /\ Add(i, o) \in Polls /\ Sound(Add(i, o))
           /\ Add(i, o).handle[d] = o
           /\ \A e \in Dirs : e # d => Add(i, o).handle[e] = i.handle[e]
           /\ Add(i, o).mask \subseteq i.mask \union {d}
           /\ Add(i, o).ref = i.ref \union {d} /\ Add(i, o).own = i.own
<1> DEFINE p == NewPoll(i)
           j == Add(i, o)
<1>1. d \in Dirs /\ o # NoOp
  BY DirOfOp, SockOpsAssumption
<1>2. /\ p \in Polls /\ p.there = TRUE /\ p.alive = TRUE /\ p.own = i.own
      /\ p.mask = i.mask /\ p.handle = i.handle /\ p.ref = i.ref
  BY DEF NewPoll, CanAdd, Polls
<1>3. Watched(p) = Watched(i) /\ Watched(i) \subseteq Dirs
  BY <1>2 DEF Watched
<1>4. j = [p EXCEPT !.handle[d] = o,
                    !.mask = IF p.handle[d] = NoOp THEN Watched(p) \union {d}
                             ELSE @,
                    !.ref = @ \union {d}]
  BY DEF Add
<1> HIDE DEF p, j
<1>5. /\ j.there = TRUE /\ j.alive = TRUE /\ j.own = i.own
      /\ j.handle = [i.handle EXCEPT ![d] = o]
      /\ j.mask = IF i.handle[d] = NoOp THEN Watched(i) \union {d} ELSE i.mask
      /\ j.ref = i.ref \union {d}
  BY <1>2, <1>3, <1>4 DEF Polls
<1>6. j \in Polls
  BY <1>1, <1>2, <1>3, <1>4 DEF Polls
<1>7. /\ j.mask \subseteq i.mask \union {d}
      /\ Watched(i) \union {d} \subseteq j.mask
  BY <1>1, <1>5 DEF Sound, Watched
<1>8. /\ j.handle[d] = o
      /\ \A e \in Dirs : e # d => j.handle[e] = i.handle[e]
  BY <1>1, <1>5 DEF Polls
<1>9. Sound(j)
  BY <1>1, <1>5, <1>7, <1>8 DEF Sound, Watched
<1>10. QED
  BY <1>5, <1>6, <1>7, <1>8, <1>9 DEF j

\* _remove_reader() and _remove_writer() clear one handle and let the socket
\* go; a poll that is left without a handle is closed.
LEMMA Removed ==
    ASSUME NEW i \in Polls, Sound(i), NEW d \in Dirs, loopClosed => ~i.there,
           d \in i.mask => i.handle[d] # NoOp
    PROVE  /\ Remove(i, d) \in Polls /\ Sound(Remove(i, d))
           /\ Remove(i, d).handle[d] = NoOp
           /\ \A e \in Dirs : e # d => Remove(i, d).handle[e] = i.handle[e]
           /\ Remove(i, d).mask \subseteq i.mask \ {d}
           /\ Remove(i, d).ref = i.ref \ {d}
           /\ Remove(i, d).own => i.own
           /\ Remove(i, d).mask # {} => Remove(i, d).own = i.own
           /\ loopClosed => ~Remove(i, d).there
           /\ CanAdd(i) => CanAdd(Remove(i, d))
<1> DEFINE j == [i EXCEPT !.ref = @ \ {d}]
           k == StopDir(j, d)
<1>1. /\ j \in Polls /\ j.there = i.there /\ j.alive = i.alive /\ j.own = i.own
      /\ j.mask = i.mask /\ j.handle = i.handle /\ j.ref = i.ref \ {d}
  BY DEF Polls
<1> HIDE DEF j
<1>2. Watched(j) = Watched(i) /\ Watched(i) \subseteq Dirs
  BY <1>1 DEF Watched
<1>3. /\ k \in Polls /\ k.there = i.there /\ k.alive = i.alive /\ k.own = i.own
      /\ k.ref = i.ref \ {d} /\ k.handle[d] = NoOp
      /\ \A e \in Dirs : e # d => k.handle[e] = i.handle[e]
      /\ k.mask \subseteq i.mask \ {d} /\ Watched(k) \subseteq k.mask
  <2>1. CASE i.handle[d] = NoOp
    BY <1>1, <1>2, <2>1 DEF StopDir, Sound, Watched
  <2>2. CASE i.handle[d] # NoOp
    <3>1. k = [j EXCEPT !.handle[d] = NoOp, !.mask = Watched(i) \ {d}]
      BY <1>1, <1>2, <2>2 DEF StopDir
    <3> HIDE DEF k
    <3>2. /\ k \in Polls /\ k.there = j.there /\ k.alive = j.alive
          /\ k.own = j.own /\ k.ref = j.ref /\ k.mask = Watched(i) \ {d}
          /\ k.handle = [j.handle EXCEPT ![d] = NoOp]
      BY <1>1, <1>2, <3>1 DEF Polls
    <3>3. /\ k.handle[d] = NoOp
          /\ \A e \in Dirs : e # d => k.handle[e] = i.handle[e]
      BY <1>1, <3>2 DEF Polls
    <3>4. QED
      BY <1>1, <3>2, <3>3 DEF Sound, Watched
  <2>3. QED
    BY <2>1, <2>2
<1> HIDE DEF k
<1>4. CASE ~i.there
  <2>1. i.mask = {} /\ \A e \in Dirs : i.handle[e] = NoOp
    BY <1>4 DEF Sound, Watched
  <2>2. Remove(i, d) = j
    BY <1>1, <1>4 DEF Remove, j
  <2>3. QED
    BY <1>1, <1>2, <1>4, <2>1, <2>2 DEF Sound, CanAdd
<1>5. CASE i.there
  <2>1. Remove(i, d) = Discard(k) /\ ~loopClosed
    BY <1>1, <1>5 DEF Remove, j, k
  <2>2. CASE Watched(k) # {}
    BY <1>3, <2>1, <2>2 DEF Discard, Sound, CanAdd
  <2>3. CASE Watched(k) = {}
    <3>1. Remove(i, d) = [NoPoll EXCEPT !.ref = k.ref]
      BY <2>1, <2>3 DEF Discard
    <3>2. \A e \in Dirs : k.handle[e] = NoOp
      BY <2>3 DEF Watched
    <3>3. /\ Remove(i, d) \in Polls /\ ~Remove(i, d).there
          /\ ~Remove(i, d).alive /\ ~Remove(i, d).own
          /\ Remove(i, d).mask = {} /\ Remove(i, d).ref = k.ref
          /\ \A e \in Dirs : Remove(i, d).handle[e] = NoOp
      BY <1>3, <3>1, Nothing DEF Polls
    <3>4. QED
      BY <1>3, <2>1, <3>2, <3>3 DEF Sound, Watched, CanAdd
  <2>4. QED
    BY <2>2, <2>3
<1>6. QED
  BY <1>4, <1>5

\* _fatal_error() clears the handle it has run, and nothing else.
LEMMA Forgotten ==
    ASSUME NEW i \in Polls, Sound(i), NEW d \in Dirs, event.error \in BOOLEAN
    PROVE  /\ Forget(i, d) \in Polls /\ Sound(Forget(i, d))
           /\ Forget(i, d).handle[d] =
                IF event.error /\ i.own THEN NoOp ELSE i.handle[d]
           /\ \A e \in Dirs : e # d => Forget(i, d).handle[e] = i.handle[e]
           /\ Forget(i, d).mask = i.mask /\ Forget(i, d).ref = i.ref
           /\ Forget(i, d).own = i.own /\ Forget(i, d).there = i.there
<1>1. CASE event.error /\ i.own
  <2> DEFINE j == Forget(i, d)
  <2>1. j = [i EXCEPT !.handle[d] = NoOp]
    BY <1>1 DEF Forget
  <2> HIDE DEF j
  <2>2. /\ j \in Polls /\ j.there = i.there /\ j.alive = i.alive
        /\ j.own = i.own /\ j.mask = i.mask /\ j.ref = i.ref
        /\ j.handle = [i.handle EXCEPT ![d] = NoOp]
    BY <2>1 DEF Polls
  <2>3. /\ j.handle[d] = NoOp
        /\ \A e \in Dirs : e # d => j.handle[e] = i.handle[e]
    BY <2>2 DEF Polls
  <2>4. Sound(j)
    BY <2>2, <2>3 DEF Sound, Watched
  <2>5. QED
    BY <1>1, <2>2, <2>3, <2>4 DEF j
<1>2. CASE ~(event.error /\ i.own)
  BY <1>2 DEF Forget
<1>3. QED
  BY <1>1, <1>2

-----------------------------------------------------------------------------
(* What the steps of the operations have in common *)

\* What no operation changes, and that an error of TCP does not go away.
Frame ==
    /\ closed' \in BOOLEAN /\ UNCHANGED <<loopClosed, disciplined>>
    /\ err' \in BOOLEAN /\ (ErrorsPersist /\ err => err')

\* A task leaves its coroutine, or goes back without having registered.
LEMMA GoesBack ==
    ASSUME IInv, Frame, NEW o \in Ops \ Callbacks, fut[o] # "pending",
           task' = [task EXCEPT ![o] = "back"], UNCHANGED <<io, event, fut>>
    PROVE  IInv'
<1> USE DEF IInv
<1>1. TypeOK'
  BY DEF Frame, TypeOK
<1>2. /\ task'[o] = "back" /\ \A p \in Ops : p # o => task'[p] = task[p]
      /\ loopClosed' = loopClosed /\ disciplined' = disciplined
  BY DEF Frame, TypeOK
<1>3. PollInv'
  BY <1>2 DEF PollInv, Sound, Watched
<1>4. OwnerInv'
  <2>1. \A p \in Ops :
          task[p] = "waiting" /\ (p \in Callbacks \/ fut[p] = "pending")
            => p # o /\ task'[p] = "waiting"
    BY <1>2
  <2>2. \A d \in Dirs : Owner(d) => Owner(d)'
    BY <2>1 DEF Owner
  <2>3. io.ref \subseteq Dirs
    BY DEF TypeOK, Polls
  <2>4. \A p \in Ops : fut[p] = "pending" => p # o /\ task'[p] = task[p]
    BY <1>2
  <2>5. Served'
    BY <1>2, <2>4 DEF Served, OwnerInv
  <2>6. QED
    BY <2>2, <2>3, <2>4, <2>5 DEF OwnerInv
<1>5. EventInv'
  BY DEF EventInv, Frame
<1>6. WaitInv'
  BY <1>2 DEF WaitInv
<1>7. QED
  BY <1>1, <1>3, <1>4, <1>5, <1>6

\* An operation registers its handle.
LEMMA Registers ==
    ASSUME IInv, Frame, NEW o \in Ops, InUser, ~loopClosed, Starts(o),
           CanAdd(io), io' = Add(io, o), event' = event,
           task' = [task EXCEPT ![o] = "waiting"],
           IF o \in Callbacks THEN fut' = fut
           ELSE event.phase = "none" /\ fut' = [fut EXCEPT ![o] = "pending"]
    PROVE  IInv'
<1> DEFINE d == Dir(o)
<1> USE DEF IInv
<1>1. /\ io' \in Polls /\ Sound(io') /\ io'.handle[d] = o /\ d \in Dirs
      /\ \A e \in Dirs : e # d => io'.handle[e] = io.handle[e]
      /\ io'.mask \subseteq io.mask \union {d}
      /\ io'.ref = io.ref \union {d} /\ io'.own = io.own
  BY Added, DirOfOp DEF TypeOK, PollInv
<1>2. /\ task'[o] = "waiting" /\ \A p \in Ops : p # o => task'[p] = task[p]
      /\ o \notin Callbacks => fut'[o] = "pending"
      /\ \A p \in Ops : p # o \/ o \in Callbacks => fut'[p] = fut[p]
      /\ task[o] = "idle" /\ o # NoOp
  BY SockOpsAssumption DEF Frame, TypeOK, Starts
<1>3. TypeOK'
  BY <1>1 DEF Frame, TypeOK
<1>4. /\ event' = event /\ event.phase \in {"none", "user"}
      /\ loopClosed' = FALSE /\ disciplined' = disciplined
  BY DEF Frame, InUser, TypeOK
<1>5. PollInv'
  BY <1>1, <1>4 DEF PollInv
<1> HIDE DEF d
<1>6. OwnerInv'
  <2>1. \A p \in Ops :
          task[p] = "waiting" /\ (p \in Callbacks \/ fut[p] = "pending")
            => task'[p] = "waiting" /\ (p \in Callbacks \/ fut'[p] = "pending")
    BY <1>2
  <2>2. \A e \in Dirs : Owner(e) => Owner(e)'
    BY <2>1 DEF Owner
  <2>3. Owner(d)'
    BY <1>2 DEF Owner, d
  <2>4. io.ref \subseteq Dirs
    BY DEF TypeOK, Polls
  <2>5. \A p \in Ops : fut'[p] = "pending" =>
                          task'[p] = "waiting" /\ p \notin Callbacks
    BY <1>2 DEF OwnerInv
  <2>6. Served'
    BY <1>1, <1>2, <2>5 DEF Served, OwnerInv
  <2>7. QED
    BY <1>1, <2>2, <2>3, <2>4, <2>5, <2>6 DEF OwnerInv
<1>7. EventInv'
  <2>1. event.phase = "user" => o \in Callbacks
    BY <1>4
  <2>2. "in" \in Dirs
    BY DEF Dirs
  <2>3. event.phase = "user" => io'.handle["in"] \in Callbacks \union {NoOp}
    BY <1>1, <2>1, <2>2 DEF EventInv
  <2>4. \A e \in Dirs : event.phase \notin Past(e)
    BY <1>4 DEF Past
  <2>5. ErrorsPersist /\ err => err'
    BY DEF Frame
  <2>6. io.mask \subseteq Dirs
    BY DEF TypeOK, Polls
  <2>7. \A e \in io'.mask : io'.handle[e] # NoOp
    BY <1>1, <1>2, <2>4, <2>6 DEF EventInv
  <2>8. QED
    BY <1>4, <2>3, <2>5, <2>7 DEF EventInv
<1>8. WaitInv'
  <2> SUFFICES ASSUME disciplined PROVE WaitInv'
    BY <1>4 DEF WaitInv
  <2>1. \A p \in Ops \ {o} : Dir(p) = Dir(o) => task[p] # "waiting"
    BY DEF Starts, Allowed
  <2>2. \A p, q \in Ops : task'[p] = "waiting" /\ task'[q] = "waiting"
                             /\ Dir(p) = Dir(q) => p = q
    BY <1>2, <2>1 DEF WaitInv
  <2>3. ASSUME ErrorsPersist, NEW p \in Ops, fut'[p] = "pending"
        PROVE  io'.handle[Dir(p)] = p
    <3>1. CASE p = o
      BY <1>1, <3>1 DEF d
    <3>2. CASE p # o
      <4>1. fut[p] = "pending" /\ task[p] = "waiting"
        BY <1>2, <2>3, <3>2 DEF OwnerInv
      <4>2. Dir(p) # d /\ Dir(p) \in Dirs
        BY <2>1, <3>2, <4>1, DirOfOp DEF d
      <4>3. io.handle[Dir(p)] = p
        BY <2>3, <4>1 DEF WaitInv
      <4>4. QED
        BY <1>1, <4>2, <4>3
    <3>3. QED
      BY <3>1, <3>2
  <2>4. QED
    BY <2>2, <2>3 DEF WaitInv
<1>9. QED
  BY <1>3, <1>5, <1>6, <1>7, <1>8

\* The outside world moves, or the program closes its socket.
LEMMA Still ==
    ASSUME IInv, Frame, UNCHANGED <<io, event, task, fut>>
    PROVE  IInv'
  BY DEF IInv, Frame, TypeOK, PollInv, Sound, Watched, OwnerInv, Owner,
     Served, EventInv, WaitInv

\* A direction is unregistered by the program or by a cancellation.
LEMMA Unregisters ==
    ASSUME IInv, Frame, InUser, NEW d \in Dirs, event' = event,
           \/ io' = Remove(io, d)
           \/ io' = io /\ d \notin io.ref /\ io.handle[d] = NoOp,
           task' \in [Ops -> {"idle", "waiting", "cancelling", "back"}],
           fut' \in [Ops -> {"none", "pending", "done", "cancelled"}],
           \A p \in Ops :
             /\ Dir(p) # d => task'[p] = task[p] /\ fut'[p] = fut[p]
             /\ task'[p] = "waiting" => task[p] = "waiting"
             /\ fut'[p] = "pending" =>
                  /\ fut[p] = "pending" /\ task'[p] = task[p]
                  /\ disciplined => Dir(p) # d
    PROVE  IInv'
<1> USE DEF IInv
<1>1. /\ event.phase \in {"none", "user"}
      /\ \A e \in Dirs : event.phase \notin Past(e)
  BY DEF InUser, Past
<1>2. /\ io' \in Polls /\ Sound(io') /\ io'.handle[d] = NoOp
      /\ \A e \in Dirs : e # d => io'.handle[e] = io.handle[e]
      /\ io'.mask \subseteq io.mask \ {d}
      /\ io'.ref = io.ref \ {d} /\ (io'.own => io.own)
      /\ loopClosed => ~io'.there
  <2>1. CASE io' = io /\ d \notin io.ref /\ io.handle[d] = NoOp
    BY <2>1 DEF TypeOK, Polls, PollInv, Sound
  <2>2. CASE io' = Remove(io, d)
    BY <1>1, <2>2, Removed DEF TypeOK, PollInv, EventInv
  <2>3. QED
    BY <2>1, <2>2
<1>3. loopClosed' = loopClosed /\ disciplined' = disciplined
  BY DEF Frame
<1>4. TypeOK' /\ PollInv'
  BY <1>2, <1>3 DEF Frame, TypeOK, PollInv
<1>5. OwnerInv'
  <2>1. \A e \in Dirs : e # d /\ Owner(e) => Owner(e)'
    BY DEF Owner
  <2>2. io.ref \subseteq Dirs
    BY DEF TypeOK, Polls
  <2>3. \A p \in Ops : fut'[p] = "pending" =>
                          task'[p] = "waiting" /\ p \notin Callbacks
    BY DEF OwnerInv
  <2>4. Served'
    <3> SUFFICES ASSUME NEW e \in Dirs, NEW p \in Ops \ Callbacks,
                        io'.handle[e] = p
                 PROVE  fut'[p] = "pending" /\ task'[p] = "waiting"
      BY DEF Served
    <3>1. e # d /\ io.handle[e] = p
      BY <1>2, SockOpsAssumption
    <3>2. Dir(p) = e
      BY <3>1, SockOpsAssumption DEF PollInv, Sound
    <3>3. QED
      BY <3>1, <3>2 DEF OwnerInv, Served
  <2>5. QED
    BY <1>2, <2>1, <2>2, <2>3, <2>4 DEF OwnerInv
<1>6. EventInv'
  <2>1. "in" \in Dirs /\ io.mask \subseteq Dirs
    BY DEF Dirs, TypeOK, Polls
  <2>2. event.phase = "user" => io'.handle["in"] \in Callbacks \union {NoOp}
    BY <1>2, <2>1 DEF EventInv
  <2>3. \A e \in io'.mask : io'.handle[e] # NoOp
    BY <1>1, <1>2, <2>1 DEF EventInv
  <2>4. QED
    BY <1>1, <2>2, <2>3 DEF EventInv, Frame
<1>7. WaitInv'
  <2> SUFFICES ASSUME disciplined PROVE WaitInv'
    BY <1>3 DEF WaitInv
  <2>1. ASSUME NEW p \in Ops, fut'[p] = "pending"
        PROVE  Dir(p) \in Dirs /\ Dir(p) # d /\ fut[p] = "pending"
    BY <2>1, DirOfOp
  <2>2. QED
    BY <1>2, <1>3, <2>1 DEF WaitInv
<1>8. QED
  BY <1>4, <1>5, <1>6, <1>7

\* An event is done with a direction: j is what the handle made of the poll.
LEMMA Moves ==
    ASSUME IInv, Frame, NEW d \in Dirs,
           event.phase = d \/ (event.phase = "user" /\ d = "in"),
           event' = [event EXCEPT !.phase = Following(d)], task' = task,
           fut' \in [Ops -> {"none", "pending", "done", "cancelled"}],
           NEW j \in Polls, Sound(j), loopClosed => ~j.there,
           io' = Forget(j, d), j.own => io.own,
           \A e \in Dirs : e # d => j.handle[e] = io.handle[e],
           \A e \in j.mask : j.handle[e] = NoOp =>
               j.own /\ e \in io.mask /\ io.handle[e] = NoOp,
           \A e \in j.ref : Owner(e)',
           \A p \in Ops : Dir(p) # d => fut'[p] = fut[p],
           \A p \in Ops : fut'[p] = "pending" => fut[p] = "pending",
           j.handle[d] \in Ops \ Callbacks => fut'[j.handle[d]] = "pending",
           ErrorsPersist /\ disciplined /\ ~loopClosed =>
             \A p \in Ops : fut'[p] = "pending" /\ Dir(p) = d =>
                 j.handle[d] = p /\ ~(event.error /\ j.own)
    PROVE  IInv'
<1> USE DEF IInv
<1>1. event.error \in BOOLEAN
  BY DEF TypeOK
<1>2. /\ io' \in Polls /\ Sound(io')
      /\ io'.handle[d] = IF event.error /\ j.own THEN NoOp ELSE j.handle[d]
      /\ \A e \in Dirs : e # d => io'.handle[e] = io.handle[e]
      /\ io'.mask = j.mask /\ io'.ref = j.ref
      /\ io'.own = j.own /\ io'.there = j.there
  BY <1>1, Forgotten
<1>3. /\ event'.phase = Following(d) /\ event'.error = event.error
      /\ event'.bits = event.bits
      /\ event' \in [phase : {"none", "in", "user", "out", "end"},
                     bits : SUBSET Dirs, error : BOOLEAN]
  BY DEF TypeOK, Following
<1>4. loopClosed' = loopClosed /\ disciplined' = disciplined
  BY DEF Frame
<1>5. TypeOK' /\ PollInv'
  <2>1. ~loopClosed
    BY DEF PollInv, Dirs
  <2>2. QED
    BY <1>2, <1>3, <1>4, <2>1 DEF Frame, TypeOK, PollInv
<1>6. OwnerInv'
  <2>1. \A p \in Ops : fut'[p] = "pending" =>
                          task'[p] = "waiting" /\ p \notin Callbacks
    BY DEF OwnerInv
  <2>2. Served'
    <3> SUFFICES ASSUME NEW e \in Dirs, NEW p \in Ops \ Callbacks,
                        io'.handle[e] = p
                 PROVE  fut'[p] = "pending" /\ task'[p] = "waiting"
      BY DEF Served
    <3>1. CASE e = d
      BY <1>2, <2>1, <3>1, SockOpsAssumption
    <3>2. CASE e # d
      <4>1. io.handle[e] = p /\ Dir(p) = e
        BY <1>2, <3>2, SockOpsAssumption DEF PollInv, Sound
      <4>2. QED
        BY <3>2, <4>1 DEF OwnerInv, Served
    <3>3. QED
      BY <3>1, <3>2
  <2>3. QED
    BY <1>2, <2>1, <2>2 DEF OwnerInv
<1>7. EventInv'
  <2>1. Dirs = {"in", "out"} /\ j.mask \subseteq Dirs
    BY DEF Dirs, Polls
  <2>2. event'.error /\ ErrorsPersist => err'
    BY <1>3 DEF EventInv, Frame
  <2>3. event'.phase # "user" /\ (event'.error => event'.bits = Dirs)
    BY <1>3 DEF EventInv, Following
  <2>4. ASSUME event'.error, io'.own
        PROVE  /\ event'.phase \in {"out", "end"} => io'.handle["in"] = NoOp
               /\ event'.phase = "end" => io'.handle["out"] = NoOp
    <3>1. io'.handle[d] = NoOp
      BY <1>2, <1>3, <2>4
    <3>2. d = "out" => io'.handle["in"] = NoOp
      BY <1>2, <1>3, <2>1, <2>4 DEF EventInv
    <3>3. QED
      BY <1>3, <2>1, <3>1, <3>2 DEF Following
  <2>5. ASSUME NEW e \in io'.mask, io'.handle[e] = NoOp
        PROVE  event'.error /\ io'.own /\ event'.phase \in Past(e)
    <3>1. e \in Dirs /\ e \in j.mask
      BY <1>2, <2>1, <2>5
    <3>2. CASE j.handle[e] = NoOp
      <4>1. j.own /\ event.error /\ event.phase \in Past(e)
        BY <3>1, <3>2 DEF EventInv
      <4>2. event'.phase \in Past(e)
        BY <1>3, <2>1, <3>1, <4>1 DEF Past, Following
      <4>3. QED
        BY <1>2, <1>3, <4>1, <4>2
    <3>3. CASE j.handle[e] # NoOp
      <4>1. e = d /\ event.error /\ j.own
        BY <1>2, <2>5, <3>1, <3>3
      <4>2. QED
        BY <1>2, <1>3, <2>1, <4>1 DEF Past, Following
    <3>4. QED
      BY <3>2, <3>3
  <2>6. QED
    BY <2>2, <2>3, <2>4, <2>5 DEF EventInv
<1>8. WaitInv'
  <2>1. ASSUME disciplined, ErrorsPersist, ~loopClosed, NEW p \in Ops,
               fut'[p] = "pending"
        PROVE  io'.handle[Dir(p)] = p
    <3>1. CASE Dir(p) = d
      BY <1>2, <2>1, <3>1
    <3>2. CASE Dir(p) # d
      <4>1. Dir(p) \in Dirs /\ io.handle[Dir(p)] = p
        BY <2>1, DirOfOp DEF WaitInv
      <4>2. QED
        BY <1>2, <3>2, <4>1
    <3>3. QED
      BY <3>1, <3>2
  <2>2. QED
    BY <1>4, <2>1 DEF WaitInv
<1>9. QED
  BY <1>5, <1>6, <1>7, <1>8


-----------------------------------------------------------------------------
(* The actions *)

\* StartRecv, StartSend, StartConnect and AddReader.
LEMMA Starting ==
    ASSUME IInv,
           \/ \E o \in Recvs : StartRecv(o)
           \/ \E o \in Sends : StartSend(o)
           \/ \E o \in Connects : StartConnect(o)
           \/ \E o \in Callbacks : AddReader(o)
    PROVE  IInv'
<1>1. closed \in BOOLEAN /\ err \in BOOLEAN
  BY DEF IInv, TypeOK
<1>2. ASSUME NEW o \in Ops \ Callbacks, Frame, Idle, Starts(o), Register(o),
             UNCHANGED event
      PROVE  IInv'
  <2>1. fut[o] # "pending" /\ InUser /\ event.phase = "none" /\ ~loopClosed
    BY <1>2 DEF IInv, OwnerInv, Starts, Idle, InUser
  <2>2. CASE CanAdd(io)
    BY <1>2, <2>1, <2>2, Registers DEF Register
  <2>3. CASE ~CanAdd(io)
    BY <1>2, <2>1, <2>3, GoesBack DEF Register
  <2>4. QED
    BY <2>2, <2>3
<1>3. ASSUME NEW o \in Recvs, StartRecv(o) PROVE IInv'
  <2>1. o \in Ops \ Callbacks
    BY SockOpsAssumption DEF Ops
  <2>2. Frame
    BY <1>1, <1>3 DEF StartRecv, Frame, kernel
  <2>3. QED
    BY <1>2, <1>3, <2>1, <2>2 DEF StartRecv
<1>4. ASSUME NEW o \in Sends, StartSend(o) PROVE IInv'
  <2>1. o \in Ops \ Callbacks
    BY SockOpsAssumption DEF Ops
  <2>2. Frame
    BY <1>1, <1>4, SockOpsAssumption DEF StartSend, Consume, Frame
  <2>3. fut[o] # "pending" /\ Idle /\ Starts(o) /\ UNCHANGED event
    BY <1>4, <2>1 DEF StartSend, IInv, OwnerInv, Starts
  <2>4. \/ task' = [task EXCEPT ![o] = "back"] /\ UNCHANGED <<io, fut>>
        \/ Register(o)
    BY <1>4 DEF StartSend
  <2>5. QED
    BY <1>2, <2>1, <2>2, <2>3, <2>4, GoesBack
<1>5. ASSUME NEW o \in Connects, StartConnect(o) PROVE IInv'
  <2>1. o \in Ops \ Callbacks
    BY SockOpsAssumption DEF Ops
  <2>2. Frame
    BY <1>1, <1>5 DEF StartConnect, Frame, kernel
  <2>3. fut[o] # "pending" /\ Idle /\ Starts(o) /\ UNCHANGED event
    BY <1>5, <2>1 DEF StartConnect, IInv, OwnerInv, Starts
  <2>4. \/ task' = [task EXCEPT ![o] = "back"] /\ UNCHANGED <<io, fut>>
        \/ Register(o)
    BY <1>5 DEF StartConnect
  <2>5. QED
    BY <1>2, <2>1, <2>2, <2>3, <2>4, GoesBack
<1>6. ASSUME NEW o \in Callbacks, AddReader(o) PROVE IInv'
  <2>1. Frame /\ o \in Ops
    BY <1>1, <1>6 DEF AddReader, Frame, kernel, Ops
  <2>2. QED
    BY <1>6, <2>1, Registers DEF AddReader
<1>7. QED
  BY <1>3, <1>4, <1>5, <1>6

\* Cancel.
LEMMA Cancelling ==
    ASSUME IInv, NEW o \in Ops \ Callbacks, Cancel(o) PROVE IInv'
<1> DEFINE d == Dir(o)
<1> USE DEF IInv
<1>1. Frame /\ InUser /\ d \in Dirs /\ event' = event
  BY DirOfOp DEF Cancel, Frame, kernel, TypeOK
<1>2. /\ task[o] = "waiting" /\ task' = [task EXCEPT ![o] = "cancelling"]
      /\ fut' = [fut EXCEPT ![o] = IF @ = "pending" THEN "cancelled" ELSE @]
  BY DEF Cancel
<1>3. /\ task' \in [Ops -> {"idle", "waiting", "cancelling", "back"}]
      /\ fut' \in [Ops -> {"none", "pending", "done", "cancelled"}]
      /\ task'[o] = "cancelling" /\ fut'[o] # "pending"
      /\ \A p \in Ops : p # o => task'[p] = task[p] /\ fut'[p] = fut[p]
  BY <1>2 DEF TypeOK
<1>4. ASSUME NEW p \in Ops, fut'[p] = "pending"
      PROVE  /\ fut[p] = "pending" /\ task'[p] = task[p]
             /\ disciplined => Dir(p) # d
  <2>1. p # o /\ fut[p] = "pending" /\ task[p] = "waiting"
    BY <1>3, <1>4 DEF OwnerInv
  <2>2. QED
    BY <1>2, <1>3, <2>1 DEF WaitInv
<1>5. \/ io' = Remove(io, d)
      \/ io' = io /\ d \notin io.ref /\ io.handle[d] = NoOp
  <2>1. CASE Open
    BY <2>1 DEF Cancel
  <2>2. CASE ~Open
    BY <1>1, <2>2 DEF Open, Held, Cancel, PollInv, Sound, Watched
  <2>3. QED
    BY <2>1, <2>2
<1> HIDE DEF d
<1>6. \A p \in Ops : task'[p] = "waiting" => task[p] = "waiting"
  BY <1>3
<1>7. \A p \in Ops : Dir(p) # d => task'[p] = task[p] /\ fut'[p] = fut[p]
  BY <1>3 DEF d
<1>8. QED
  BY <1>1, <1>3, <1>4, <1>5, <1>6, <1>7, Unregisters

\* RemoveByUser.
LEMMA Removing ==
    ASSUME IInv, NEW d \in Dirs, RemoveByUser(d) PROVE IInv'
<1> USE DEF IInv
<1>1. Frame /\ InUser /\ event' = event /\ io' = Remove(io, d) /\ fut' = fut
  BY DEF RemoveByUser, Frame, kernel, TypeOK
<1>2. task' = [o \in Ops |->
         IF o \in Callbacks /\ task[o] = "waiting" /\ d = "in"
         THEN "back" ELSE task[o]]
  BY DEF RemoveByUser
<1>3. /\ task' \in [Ops -> {"idle", "waiting", "cancelling", "back"}]
      /\ fut' \in [Ops -> {"none", "pending", "done", "cancelled"}]
      /\ \A p \in Ops : task'[p] = "waiting" => task[p] = "waiting"
      /\ \A p \in Ops : p \notin Callbacks \/ d # "in" => task'[p] = task[p]
  BY <1>1, <1>2 DEF TypeOK
<1>4. \A p \in Ops : Dir(p) # d => task'[p] = task[p] /\ fut'[p] = fut[p]
  <2>1. \A p \in Callbacks : Dir(p) = "in"
    BY SockOpsAssumption DEF Dir
  <2>2. QED
    BY <1>1, <1>3, <2>1
<1>5. ASSUME NEW p \in Ops, fut'[p] = "pending"
      PROVE  /\ fut[p] = "pending" /\ task'[p] = task[p]
             /\ disciplined => Dir(p) # d
  <2>1. fut[p] = "pending" /\ task[p] = "waiting" /\ p \notin Callbacks
    BY <1>1, <1>5 DEF OwnerInv
  <2>2. disciplined => Dir(p) # d
    BY <2>1 DEF RemoveByUser
  <2>3. QED
    BY <1>3, <2>1, <2>2
<1>6. QED
  BY <1>1, <1>3, <1>4, <1>5, Unregisters

\* Wake.
LEMMA Waking ==
    ASSUME IInv, NEW o \in Ops \ Callbacks, Wake(o) PROVE IInv'
<1>1. Frame
  BY DEF IInv, TypeOK, Wake, Frame, kernel
<1>2. QED
  BY <1>1, GoesBack DEF Wake

\* CloseSocket, PeerSends, PeerReads and Breaks.
LEMMA Outside ==
    ASSUME IInv, CloseSocket \/ PeerSends \/ PeerReads \/ Breaks PROVE IInv'
<1>1. Frame /\ UNCHANGED <<io, event, task, fut>>
  BY DEF IInv, TypeOK, CloseSocket, PeerSends, PeerReads, Breaks, Frame, kernel
<1>2. QED
  BY <1>1, Still

\* CloseLoop.
LEMMA ClosingLoop == ASSUME IInv, CloseLoop PROVE IInv'
<1>1. /\ io' = NoPoll /\ loopClosed' = TRUE /\ event.phase = "none"
      /\ UNCHANGED <<event, task, fut, closed, err, disciplined>>
  BY DEF CloseLoop, Idle, kernel
<1>2. /\ io' \in Polls /\ Sound(io') /\ ~io'.there /\ io'.mask = {}
      /\ io'.ref = {} /\ \A d \in Dirs : io'.handle[d] = NoOp
  BY <1>1, Nothing
<1>3. TypeOK' /\ PollInv'
  BY <1>1, <1>2 DEF IInv, TypeOK, PollInv
<1>4. OwnerInv'
  BY <1>1, <1>2, SockOpsAssumption DEF IInv, OwnerInv, Served
<1>5. EventInv'
  BY <1>1, <1>2 DEF IInv, EventInv
<1>6. WaitInv'
  BY <1>1 DEF IInv, WaitInv
<1>7. QED
  BY <1>3, <1>4, <1>5, <1>6 DEF IInv

\* Event and ErrorEvent.
LEMMA Polling ==
    ASSUME IInv, ErrorEvent \/ \E bits \in SUBSET Dirs : Event(bits)
    PROVE  IInv'
<1> USE DEF IInv
<1>1. PICK bits \in SUBSET Dirs, error \in BOOLEAN :
        /\ event' = [phase |-> "in", bits |-> bits, error |-> error]
        /\ error => bits = Dirs /\ err
  BY DEF Event, ErrorEvent
<1>2. /\ event.phase = "none" /\ io' = [io EXCEPT !.own = TRUE]
      /\ ~loopClosed
      /\ UNCHANGED <<task, fut, closed, loopClosed, err, disciplined>>
  BY DEF Event, ErrorEvent, Idle, kernel
<1>3. /\ io' \in Polls /\ io'.there = io.there /\ io'.alive = io.alive
      /\ io'.mask = io.mask /\ io'.handle = io.handle /\ io'.ref = io.ref
  BY <1>2 DEF TypeOK, Polls
<1>4. TypeOK'
  BY <1>1, <1>2, <1>3 DEF TypeOK
<1>5. PollInv'
  BY <1>2, <1>3 DEF PollInv, Sound, Watched
<1>6. OwnerInv' /\ WaitInv'
  BY <1>2, <1>3 DEF OwnerInv, Owner, Served, WaitInv
<1>7. EventInv'
  <2>1. \A d \in io.mask : io.handle[d] # NoOp
    BY <1>2 DEF EventInv, Past
  <2>2. QED
    BY <1>1, <1>2, <1>3, <2>1 DEF EventInv
<1>8. QED
  BY <1>4, <1>5, <1>6, <1>7

\* The handle of a direction has run, or there is none: the poll is as it was.
LEMMA Keeps ==
    ASSUME IInv, Frame, NEW d \in Dirs,
           event.phase = d \/ (event.phase = "user" /\ d = "in"),
           Ran(d, io), UNCHANGED <<task, fut>>,
           ErrorsPersist /\ disciplined /\ ~loopClosed =>
             \A p \in Ops : fut[p] = "pending" /\ Dir(p) = d =>
                 ~(event.error /\ io.own)
    PROVE  IInv'
<1> USE DEF IInv
<1>1. /\ io' = Forget(io, d) /\ event' = [event EXCEPT !.phase = Following(d)]
      /\ io \in Polls /\ Sound(io) /\ (loopClosed => ~io.there)
  BY DEF Ran, TypeOK, PollInv
<1>2. \A e \in io.mask : io.handle[e] = NoOp =>
          io.own /\ e \in io.mask /\ io.handle[e] = NoOp
  BY DEF EventInv
<1>3. \A e \in io.ref : Owner(e)'
  BY DEF OwnerInv, Owner
<1>4. io.handle[d] \in Ops \ Callbacks => fut'[io.handle[d]] = "pending"
  BY DEF OwnerInv, Served
<1>5. ErrorsPersist /\ disciplined /\ ~loopClosed =>
        \A p \in Ops : fut'[p] = "pending" /\ Dir(p) = d =>
            io.handle[d] = p /\ ~(event.error /\ io.own)
  BY DEF WaitInv
<1>6. fut' \in [Ops -> {"none", "pending", "done", "cancelled"}]
  BY DEF TypeOK
<1>7. QED
  BY <1>1, <1>2, <1>3, <1>4, <1>5, <1>6, Moves

\* The handle of a direction has run, unregistered and set its result.
LEMMA Completes ==
    ASSUME IInv, Frame, NEW d \in Dirs, NEW o \in Ops \ Callbacks,
           Current(d) = o, SetResult(o), task' = task, Ran(d, Remove(io, d))
    PROVE  IInv'
<1> DEFINE j == Remove(io, d)
<1> USE DEF IInv
<1>1. /\ event.phase = d /\ io.own /\ io.handle[d] = o
      /\ fut[o] = "pending" /\ task[o] = "waiting" /\ Dir(o) = d
  BY SockOpsAssumption DEF Current, OwnerInv, Served, PollInv, Sound
<1>2. io' = Forget(j, d) /\ event' = [event EXCEPT !.phase = Following(d)]
  BY DEF Ran
<1>3. /\ fut' \in [Ops -> {"none", "pending", "done", "cancelled"}]
      /\ fut'[o] = "done" /\ \A p \in Ops : p # o => fut'[p] = fut[p]
  BY DEF SetResult, TypeOK
<1>4. /\ j \in Polls /\ Sound(j) /\ (loopClosed => ~j.there)
      /\ j.handle[d] = NoOp /\ (j.own => io.own)
      /\ \A e \in Dirs : e # d => j.handle[e] = io.handle[e]
      /\ j.mask \subseteq io.mask \ {d} /\ j.ref = io.ref \ {d}
      /\ (j.mask # {} => j.own = io.own)
  <2>1. /\ io \in Polls /\ Sound(io) /\ (loopClosed => ~io.there)
        /\ io.handle[d] # NoOp
    BY <1>1, SockOpsAssumption DEF TypeOK, PollInv
  <2>2. QED
    BY <2>1, Removed
<1> HIDE DEF j
<1>5. \A e \in j.mask : j.handle[e] = NoOp =>
          j.own /\ e \in io.mask /\ io.handle[e] = NoOp
  <2>1. io.mask \subseteq Dirs
    BY DEF TypeOK, Polls
  <2>2. QED
    BY <1>1, <1>4, <2>1
<1>6. \A e \in j.ref : Owner(e)'
  <2>1. \A e \in Dirs : e # d /\ Owner(e) => Owner(e)'
    BY <1>1, <1>3 DEF Owner
  <2>2. io.ref \subseteq Dirs
    BY DEF TypeOK, Polls
  <2>3. QED
    BY <1>4, <2>1, <2>2 DEF OwnerInv
<1>7. j.handle[d] \in Ops \ Callbacks => fut'[j.handle[d]] = "pending"
  BY <1>4, SockOpsAssumption
<1>8. ASSUME disciplined, NEW p \in Ops, fut'[p] = "pending", Dir(p) = d
      PROVE  FALSE
  <2>1. p # o /\ task[p] = "waiting"
    BY <1>3, <1>8 DEF OwnerInv
  <2>2. QED
    BY <1>1, <1>8, <2>1 DEF WaitInv
<1>9. \A p \in Ops : Dir(p) # d => fut'[p] = fut[p]
  BY <1>1, <1>3
<1>10. \A p \in Ops : fut'[p] = "pending" => fut[p] = "pending"
  BY <1>3
<1>11. QED
  BY <1>1, <1>2, <1>3, <1>4, <1>5, <1>6, <1>7, <1>8, <1>9, <1>10, Moves

\* RunRecv, RunConnect, Skip and CallbackReturns.
LEMMA Running ==
    ASSUME IInv,
           \/ \E o \in Recvs : RunRecv(o)
           \/ \E o \in Connects : RunConnect(o)
           \/ \E d \in Dirs : Skip(d)
           \/ CallbackReturns
    PROVE  IInv'
<1> USE DEF IInv
<1>1. "in" \in Dirs /\ "out" \in Dirs /\ closed \in BOOLEAN /\ err \in BOOLEAN
  BY DEF Dirs, TypeOK
<1>2. event.error /\ ErrorsPersist => err
  BY DEF EventInv
<1>3. ASSUME NEW o \in Recvs, RunRecv(o) PROVE IInv'
  <2>1. o \in Ops \ Callbacks /\ Current("in") = o
    BY <1>3, SockOpsAssumption DEF Ops, RunRecv
  <2>2. Frame /\ task' = task
    BY <1>1, <1>3, SockOpsAssumption DEF RunRecv, Ran, Frame
  <2>3. CASE inbox > 0 \/ err
    BY <1>1, <1>3, <2>1, <2>2, <2>3, Completes DEF RunRecv
  <2>4. CASE ~(inbox > 0 \/ err)
    <3>1. Ran("in", io) /\ UNCHANGED fut /\ ~err
      BY <1>3, <2>4 DEF RunRecv
    <3>2. event.phase = "in"
      BY <2>1, SockOpsAssumption DEF Current
    <3>3. QED
      BY <1>1, <1>2, <2>2, <3>1, <3>2, Keeps
  <2>5. QED
    BY <2>3, <2>4
<1>4. ASSUME NEW o \in Connects, RunConnect(o) PROVE IInv'
  <2>1. o \in Ops \ Callbacks
    BY SockOpsAssumption DEF Ops
  <2>2. Frame
    BY <1>1, <1>4, SockOpsAssumption DEF RunConnect, Consume, Ran, Frame
  <2>3. QED
    BY <1>1, <1>4, <2>1, <2>2, Completes DEF RunConnect
<1>5. ASSUME NEW d \in Dirs, Skip(d) PROVE IInv'
  <2>1. Frame /\ event.phase = d /\ Ran(d, io) /\ UNCHANGED <<task, fut>>
    BY <1>1, <1>5 DEF Skip, Ran, Frame, kernel
  <2>2. ASSUME ErrorsPersist, disciplined, ~loopClosed, NEW p \in Ops,
               fut[p] = "pending", Dir(p) = d
        PROVE  ~(event.error /\ io.own)
    <3>1. io.handle[d] = p /\ p # NoOp
      BY <2>2, SockOpsAssumption DEF WaitInv
    <3>2. QED
      BY <1>5, <2>1, <3>1 DEF Skip, Current, EventInv
  <2>3. QED
    BY <2>1, <2>2, Keeps
<1>6. ASSUME CallbackReturns PROVE IInv'
  <2>1. /\ Frame /\ event.phase = "user" /\ Ran("in", io)
        /\ UNCHANGED <<task, fut>>
    BY <1>1, <1>6 DEF CallbackReturns, Ran, Frame, kernel
  <2>2. ASSUME ErrorsPersist, disciplined, ~loopClosed, NEW p \in Ops,
               fut[p] = "pending", Dir(p) = "in"
        PROVE  FALSE
    <3>1. io.handle["in"] = p /\ p \notin Callbacks /\ p # NoOp
      BY <2>2, SockOpsAssumption DEF WaitInv, OwnerInv
    <3>2. QED
      BY <2>1, <3>1 DEF EventInv
  <2>3. QED
    BY <1>1, <2>1, <2>2, Keeps
<1>7. QED
  BY <1>3, <1>4, <1>5, <1>6

\* RunSend.
LEMMA Sending == ASSUME IInv, NEW o \in Sends, RunSend(o) PROVE IInv'
<1> USE DEF IInv
<1>1. /\ "out" \in Dirs /\ closed \in BOOLEAN /\ err \in BOOLEAN
      /\ o \in Ops \ Callbacks /\ Current("out") = o /\ task' = task
  BY SockOpsAssumption DEF Dirs, TypeOK, Ops, RunSend
<1>2. Frame
  BY <1>1, SockOpsAssumption DEF RunSend, Consume, Ran, Frame
<1>3. /\ event.phase = "out" /\ io.own /\ io.handle["out"] = o
      /\ fut[o] = "pending" /\ task[o] = "waiting" /\ Dir(o) = "out"
  BY <1>1, SockOpsAssumption DEF Current, OwnerInv, Served, PollInv, Sound
<1>4. event.error /\ ErrorsPersist => err
  BY DEF EventInv
<1>5. CASE SetResult(o) /\ Ran("out", Remove(io, "out"))
  BY <1>1, <1>2, <1>5, Completes
<1>6. CASE ~err /\ UNCHANGED fut /\ Ran("out", io)
  BY <1>1, <1>2, <1>3, <1>4, <1>6, Keeps
<1>7. CASE ~err /\ UNCHANGED fut /\ Ran("out", Add(Remove(io, "out"), o))
  <2> DEFINE i == Remove(io, "out")
             j == Add(i, o)
  <2>1. /\ io.alive /\ io.there /\ io \in Polls /\ Sound(io) /\ CanAdd(io)
        /\ (loopClosed => ~io.there) /\ io.handle["out"] # NoOp
    <3>1. o # NoOp /\ io \in Polls /\ Sound(io) /\ (loopClosed => ~io.there)
      BY <1>1, SockOpsAssumption DEF TypeOK, PollInv
    <3>2. "out" \in Watched(io)
      BY <1>1, <1>3, <3>1 DEF Watched
    <3>3. QED
      BY <1>3, <3>1, <3>2 DEF Sound, CanAdd
  <2>2. /\ i \in Polls /\ Sound(i) /\ CanAdd(i) /\ (i.own => io.own)
        /\ \A e \in Dirs : e # "out" => i.handle[e] = io.handle[e]
        /\ i.mask \subseteq io.mask \ {"out"} /\ i.ref = io.ref \ {"out"}
        /\ (i.mask # {} => i.own = io.own)
    BY <1>1, <2>1, Removed
  <2> HIDE DEF i
  <2>3. /\ j \in Polls /\ Sound(j) /\ j.handle["out"] = o
        /\ \A e \in Dirs : e # "out" => j.handle[e] = i.handle[e]
        /\ j.mask \subseteq i.mask \union {"out"}
        /\ j.ref = i.ref \union {"out"} /\ j.own = i.own
    BY <1>1, <1>3, <2>2, Added
  <2>4. io' = Forget(j, "out")
        /\ event' = [event EXCEPT !.phase = Following("out")]
    BY <1>7 DEF Ran, i
  <2> HIDE DEF j
  <2>5. io.mask \subseteq Dirs /\ io.ref \subseteq Dirs /\ o # NoOp
    BY <1>1, <2>1, SockOpsAssumption DEF Polls
  <2>6. \A e \in j.mask : j.handle[e] = NoOp =>
            j.own /\ e \in io.mask /\ io.handle[e] = NoOp
    BY <1>3, <2>2, <2>3, <2>5
  <2>7. \A e \in j.ref : Owner(e)'
    <3>1. Owner("out")'
      BY <1>1, <1>3, <1>7 DEF Owner
    <3>2. \A e \in io.ref : Owner(e)'
      BY <1>1, <1>7 DEF Owner, OwnerInv
    <3>3. QED
      BY <2>2, <2>3, <3>1, <3>2
  <2>8. ASSUME ErrorsPersist, disciplined, NEW p \in Ops,
               fut'[p] = "pending", Dir(p) = "out"
        PROVE  j.handle["out"] = p /\ ~(event.error /\ j.own)
    <3>1. task[p] = "waiting"
      BY <1>7, <2>8 DEF OwnerInv
    <3>2. p = o
      BY <1>1, <1>3, <2>8, <3>1 DEF WaitInv
    <3>3. QED
      BY <1>4, <1>7, <2>3, <2>8, <3>2
  <2>9. /\ fut' \in [Ops -> {"none", "pending", "done", "cancelled"}]
        /\ j.handle["out"] \in Ops \ Callbacks =>
             fut'[j.handle["out"]] = "pending"
        /\ ~loopClosed /\ (j.own => io.own)
    BY <1>3, <1>7, <2>1, <2>2, <2>3 DEF TypeOK, PollInv
  <2>10. \A e \in Dirs : e # "out" => j.handle[e] = io.handle[e]
    BY <2>2, <2>3
  <2>11. fut' = fut
    BY <1>7
  <2>12. QED
    BY <1>1, <1>2, <1>3, <2>3, <2>4, <2>6, <2>7, <2>8, <2>9, <2>10, <2>11,
       Moves
<1>8. QED
  BY <1>5, <1>6, <1>7 DEF RunSend

\* RunCallback.
LEMMA CallingBack ==
    ASSUME IInv, NEW o \in Callbacks, RunCallback(o) PROVE IInv'
<1> USE DEF IInv
<1>1. /\ event.phase = "in" /\ io.handle["in"] = o
      /\ event' = [event EXCEPT !.phase = "user"]
      /\ UNCHANGED <<io, task, fut, closed, loopClosed, err, disciplined>>
  BY SockOpsAssumption DEF RunCallback, Current, Ops
<1>2. /\ event'.phase = "user" /\ event'.bits = event.bits
      /\ event'.error = event.error /\ ~loopClosed /\ TypeOK'
  BY <1>1 DEF TypeOK, PollInv
<1>3. PollInv' /\ OwnerInv' /\ WaitInv'
  BY <1>1, <1>2 DEF PollInv, Sound, Watched, OwnerInv, Owner, Served, WaitInv
<1>4. EventInv'
  <2>1. \A d \in io.mask : io.handle[d] # NoOp
    BY <1>1 DEF EventInv, Past
  <2>2. QED
    BY <1>1, <1>2, <2>1 DEF EventInv
<1>5. QED
  BY <1>2, <1>3, <1>4

\* EventEnds.
LEMMA Ending == ASSUME IInv, EventEnds PROVE IInv'
<1> USE DEF IInv
<1>1. /\ event.phase = "end" /\ event' = NoEvent
      /\ UNCHANGED <<task, fut, closed, loopClosed, err, disciplined>>
      /\ ~loopClosed
  BY DEF EventEnds, kernel, PollInv
<1>2. /\ event'.phase = "none" /\ event'.error = FALSE
      /\ event' \in [phase : {"none", "in", "user", "out", "end"},
                     bits : SUBSET Dirs, error : BOOLEAN]
  BY <1>1 DEF NoEvent
<1>3. CASE event.error /\ io.own
  <2>1. io' = [NoPoll EXCEPT !.there = TRUE,
                             !.ref = [io EXCEPT !.own = FALSE].ref]
    BY <1>3 DEF EventEnds
  <2>2. io.ref \subseteq Dirs /\ [io EXCEPT !.own = FALSE].ref = io.ref
    BY DEF TypeOK, Polls
  <2>3. /\ io' \in Polls /\ ~io'.alive /\ io'.there /\ io'.mask = {}
        /\ io'.ref = io.ref /\ io'.handle = NoPoll.handle
    BY <2>1, <2>2, Nothing DEF Polls
  <2>4. \A d \in Dirs : io'.handle[d] = NoOp
    BY <2>3, Nothing
  <2>5. TypeOK' /\ PollInv'
    BY <1>1, <1>2, <2>3, <2>4 DEF TypeOK, PollInv, Sound, Watched
  <2>6. OwnerInv' /\ EventInv'
    BY <1>1, <1>2, <2>3, <2>4, SockOpsAssumption
       DEF OwnerInv, Owner, Served, EventInv
  <2>7. WaitInv'
    <3>1. \A d \in Dirs : io.handle[d] = NoOp
      BY <1>1, <1>3 DEF EventInv, Dirs
    <3>2. \A o \in Ops : Dir(o) \in Dirs /\ o # NoOp
      BY DirOfOp, SockOpsAssumption
    <3>3. QED
      BY <1>1, <3>1, <3>2 DEF WaitInv
  <2>8. QED
    BY <2>5, <2>6, <2>7
<1>4. CASE ~(event.error /\ io.own)
  <2>1. io' = [io EXCEPT !.own = FALSE]
    BY <1>4 DEF EventEnds
  <2>2. /\ io' \in Polls /\ io'.alive = io.alive /\ io'.there = io.there
        /\ io'.mask = io.mask /\ io'.ref = io.ref /\ io'.handle = io.handle
    BY <2>1 DEF TypeOK, Polls
  <2>3. TypeOK' /\ PollInv'
    BY <1>1, <1>2, <2>2 DEF TypeOK, PollInv, Sound, Watched
  <2>4. OwnerInv' /\ WaitInv'
    BY <1>1, <2>2 DEF OwnerInv, Owner, Served, WaitInv
  <2>5. EventInv'
    <3>1. \A d \in io.mask : io.handle[d] # NoOp
      BY <1>4 DEF EventInv
    <3>2. QED
      BY <1>2, <2>2, <3>1 DEF EventInv
  <2>6. QED
    BY <2>3, <2>4, <2>5
<1>5. QED
  BY <1>3, <1>4

-----------------------------------------------------------------------------
(* The theorems *)

\* The inductive invariant holds of every reachable state.
THEOREM Invariance == Spec => []IInv
<1>1. Init => IInv
  <2> SUFFICES ASSUME Init PROVE IInv
    OBVIOUS
  <2>1. /\ io = NoPoll /\ event = NoEvent
        /\ task = [o \in Ops |-> "idle"] /\ fut = [o \in Ops |-> "none"]
        /\ closed = FALSE /\ loopClosed = FALSE /\ err = FALSE
        /\ disciplined \in BOOLEAN
    BY DEF Init
  <2>2. TypeOK
    BY <2>1, Nothing DEF TypeOK, NoEvent
  <2>3. PollInv /\ OwnerInv /\ EventInv /\ WaitInv
    BY <2>1, Nothing, SockOpsAssumption
       DEF PollInv, OwnerInv, Served, EventInv, NoEvent, WaitInv
  <2>4. QED
    BY <2>2, <2>3 DEF IInv
<1>2. IInv /\ [Next]_vars => IInv'
  <2> SUFFICES ASSUME IInv, [Next]_vars PROVE IInv'
    OBVIOUS
  <2>1. CASE Program
    BY <2>1, Starting, Cancelling, Removing, Waking, Outside, ClosingLoop
       DEF Program
  <2>2. CASE Dispatch
    BY <2>2, Running, Sending, CallingBack, Ending DEF Dispatch
  <2>3. CASE Polled \/ ErrorEvent
    BY <2>3, Polling DEF Polled
  <2>4. CASE PeerSends \/ PeerReads \/ Breaks
    BY <2>4, Outside
  <2>5. CASE UNCHANGED vars
    <3>1. Frame /\ UNCHANGED <<io, event, task, fut>>
      BY <2>5 DEF vars, kernel, Frame, IInv, TypeOK
    <3>2. QED
      BY <3>1, Still
  <2>6. QED
    BY <2>1, <2>2, <2>3, <2>4, <2>5 DEF Next
<1>3. QED
  BY <1>1, <1>2, PTL DEF Spec

\* Every variable keeps its type.
THEOREM TypeCorrect == Spec => []TypeOK
<1>1. IInv => TypeOK
  BY DEF IInv
<1>2. QED
  BY <1>1, Invariance, PTL

\* Whatever the program does, cancels or removes, and whenever, the poll of a
\* descriptor never calls an operation that is over.
THEOREM OnlyTheLiving == Spec => []NoStaleHandle
<1>1. IInv => NoStaleHandle
  BY DEF IInv, OwnerInv, Served, NoStaleHandle, InFlight
<1>2. QED
  BY <1>1, Invariance, PTL

\* libuv never polls a descriptor that is closed, and a closed socket is
\* let go of as soon as nothing uses it.
THEOREM OpenAsLongAsUsed == Spec => []SocketLifetime
<1>1. ASSUME IInv PROVE SocketLifetime
  <2>1. PolledIsOpen
    BY <1>1 DEF IInv, PollInv, Sound, PolledIsOpen, Open, Held
  <2>2. \A d \in Dirs : Owner(d) => \E o \in Ops : InFlight(o)
    BY DEF Owner, InFlight
  <2>3. ReleasedWhenUnused
    BY <1>1, <2>2
       DEF IInv, TypeOK, Polls, OwnerInv, ReleasedWhenUnused, Open, Held, Ops
  <2>4. QED
    BY <2>1, <2>3 DEF SocketLifetime
<1>2. QED
  BY <1>1, Invariance, PTL

\* If an error of a socket does not go away, as with TCP, the poll of a
\* careful program watches over every future that is awaited.
THEOREM WatchedOver == ASSUME ErrorsPersist PROVE Spec => []StillWaiting
<1>1. ASSUME IInv PROVE StillWaiting
  <2> SUFFICES ASSUME disciplined, ~loopClosed, NEW o \in Ops \ Callbacks,
                      fut[o] = "pending"
               PROVE  /\ io.alive /\ io.handle[Dir(o)] = o
                      /\ event.error \/ Dir(o) \in io.mask
    BY DEF StillWaiting
  <2>1. Dir(o) \in Dirs /\ o # NoOp /\ io.handle[Dir(o)] = o
    BY <1>1, DirOfOp, SockOpsAssumption DEF IInv, WaitInv
  <2>2. Dir(o) \in io.mask
    BY <1>1, <2>1 DEF IInv, PollInv, Sound, Watched
  <2>3. QED
    BY <1>1, <2>1, <2>2 DEF IInv, PollInv, Sound
<1>2. QED
  BY <1>1, Invariance, PTL
=============================================================================
