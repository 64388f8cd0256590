---------------------------- MODULE ServerProofs ----------------------------
(***************************************************************************)
(* The count of a server's connections and the waking of those who wait for  *)
(* its end, for every set of handles, waiters and finitely many connections. *)
(***************************************************************************)
EXTENDS Server, FiniteSetTheorems, TLAPS

\* The types, without the bound on the count, which is not inductive.
Types ==
    /\ closed \in BOOLEAN /\ serving \in BOOLEAN
    /\ handle \in [Sockets -> {"bound", "listening", "closed"}]
    /\ holding \subseteq Sockets
    /\ active \in Nat
    /\ woken \in BOOLEAN /\ forever \in BOOLEAN
    /\ future \in [Waiters ->
                     {"none", "waiting", "woken", "returned", "cancelled"}]
    /\ conn \in [Conns -> {"none", "backlog", "accepting", "open", "ending",
                            "gone", "refused", "stuck"}]
    /\ via \in [Conns -> Sockets]
    /\ inFactory \in Conns \union {NoConn} /\ inLost \in Conns \union {NoConn}

\* The connection a callback runs for is in the state the callback expects.
FrameInv ==
    /\ inFactory # NoConn => conn[inFactory] = "accepting"
    /\ inLost # NoConn => conn[inLost] = "ending"

\* _waiters is None exactly when there is nothing to wait for, and the futures
\* agree with it.
WakeInv ==
    /\ woken <=> closed /\ active = 0
    /\ \A w \in Waiters : (future[w] = "waiting" => ~woken)
                            /\ (future[w] = "woken" => woken)

IInv == Types /\ FrameInv /\ CountIsOpen /\ WakeInv

-----------------------------------------------------------------------------

\* The count of the attached connections moves with the one that comes or goes.
LEMMA Counting ==
    /\ IsFiniteSet(Attached)
    /\ Cardinality(Attached) \in 0..Cardinality(Conns)
    /\ Cardinality(Attached) = 0 <=> Attached = {}
    /\ \A c \in Conns \ Attached :
           Cardinality(Attached \union {c}) = Cardinality(Attached) + 1
    /\ \A c \in Attached :
           /\ Cardinality(Attached \ {c}) = Cardinality(Attached) - 1
           /\ Cardinality(Attached) >= 1
<1>1. IsFiniteSet(Conns) /\ Attached \subseteq Conns
  BY ServerAssumption DEF Attached
<1>2. IsFiniteSet(Attached) /\ Cardinality(Attached) <= Cardinality(Conns)
  BY <1>1, FS_Subset
<1>3. Cardinality(Attached) \in Nat /\ Cardinality(Conns) \in Nat
  BY <1>1, <1>2, FS_CardinalityType
<1>4. Cardinality(Attached) = 0 <=> Attached = {}
  BY <1>2, FS_EmptySet
<1>5. \A c \in Conns \ Attached :
          Cardinality(Attached \union {c}) = Cardinality(Attached) + 1
  BY <1>2, FS_AddElement
<1>6. \A c \in Attached : Cardinality(Attached \ {c}) = Cardinality(Attached) - 1
  BY <1>2, FS_RemoveElement
<1>7. \A c \in Attached : Cardinality(Attached) >= 1
  BY <1>3, <1>4
<1> QED  BY <1>2, <1>3, <1>4, <1>5, <1>6, <1>7

\* What a step that neither attaches nor detaches does to the connections.
Moves == Attached' = Attached /\ active' = active

\* Waking keeps the agreement of the futures with _waiters.
LEMMA Waking ==
    ASSUME Types, WakeInv, NEW cond \in BOOLEAN, WakeupIf(cond)
    PROVE  /\ woken' = (woken \/ cond)
           /\ future' \in [Waiters ->
                     {"none", "waiting", "woken", "returned", "cancelled"}]
           /\ \A w \in Waiters : (future'[w] = "waiting" => ~woken')
                                   /\ (future'[w] = "woken" => woken')
BY DEF Types, WakeInv, WakeupIf, Wakeup

LEMMA Initially == Init => IInv
<1> SUFFICES ASSUME Init PROVE IInv
  OBVIOUS
<1>1. Types
  BY ServerAssumption DEF Init, Types
<1>2. FrameInv /\ WakeInv
  BY DEF Init, FrameInv, WakeInv
<1>3. Attached = {}
  BY DEF Init, Attached
<1>4. CountIsOpen
  BY <1>3, Counting DEF CountIsOpen, Init
<1> QED  BY <1>1, <1>2, <1>4 DEF IInv

\* close() closes, wakes if no connection is left, and touches no connection
\* that is attached or in a callback.
LEMMA Closes ==
    ASSUME IInv, DoClose, UNCHANGED <<active, holding, via, inFactory, inLost>>, forever' \in BOOLEAN
    PROVE  IInv'
<1> USE DEF IInv
<1>1. CASE closed
  <2>1. UNCHANGED <<closed, serving, handle, conn, woken, future>>
    BY <1>1 DEF DoClose
  <2>2. Types' /\ FrameInv' /\ WakeInv'
    BY <2>1 DEF Types, FrameInv, WakeInv
  <2>3. CountIsOpen'
    BY <2>1 DEF CountIsOpen, Attached
  <2> QED  BY <2>2, <2>3
<1>2. CASE ~closed
  <2>1. /\ closed' = TRUE /\ serving' = FALSE
        /\ handle' = [s \in Sockets |-> "closed"]
        /\ conn' = [c \in Conns |->
                       IF conn[c] \in {"backlog", "stuck"} THEN "refused"
                       ELSE conn[c]]
        /\ WakeupIf(active = 0)
    BY <1>2 DEF DoClose, NobodyToWaitFor, LastIsGone
  <2>2. /\ woken' = (woken \/ active = 0)
        /\ future' \in [Waiters ->
                  {"none", "waiting", "woken", "returned", "cancelled"}]
        /\ \A w \in Waiters : (future'[w] = "waiting" => ~woken')
                                /\ (future'[w] = "woken" => woken')
    BY <2>1, Waking
  <2>3. Types'
    BY <2>1, <2>2 DEF Types
  <2>4. FrameInv'
    BY <2>1, ServerAssumption DEF FrameInv, Types
  <2>5. Attached' = Attached
    BY <2>1 DEF Attached, Types
  <2>6. WakeInv'
    BY <1>2, <2>1, <2>2 DEF WakeInv
  <2> QED  BY <2>3, <2>4, <2>5, <2>6 DEF CountIsOpen
<1> QED  BY <1>1, <1>2

LEMMA Inductive == IInv /\ [Next]_vars => IInv'
<1> SUFFICES ASSUME IInv, [Next]_vars PROVE IInv'
  OBVIOUS
<1> USE DEF IInv
<1> USE ServerAssumption
<1>1. CASE StartServing \/ ServeForever
  <2>1. /\ serving' = TRUE /\ forever' \in BOOLEAN
        /\ UNCHANGED <<closed, active, woken, future, connVars>>
    BY <1>1 DEF StartServing, ServeForever, Serve, Types
  <2>2. handle' \in [Sockets -> {"bound", "listening", "closed"}]
    BY <1>1 DEF StartServing, ServeForever, Serve, Types
  <2>3. Types' /\ FrameInv' /\ WakeInv'
    BY <2>1, <2>2 DEF Types, FrameInv, WakeInv, connVars
  <2>4. CountIsOpen'
    BY <2>1 DEF CountIsOpen, Attached, connVars
  <2> QED  BY <2>3, <2>4
<1>2. CASE Close \/ CancelForever
  <2>1. DoClose /\ forever' \in BOOLEAN
        /\ UNCHANGED <<active, holding, via, inFactory, inLost>>
    BY <1>2 DEF Close, CancelForever, Types
  <2> QED  BY <2>1, Closes
<1>3. ASSUME NEW w \in Waiters, WaitClosed(w) \/ CancelWait(w) PROVE IInv'
  <2>1. Types' /\ FrameInv'
    BY <1>3 DEF WaitClosed, CancelWait, Types, FrameInv, connVars
  <2>2. WakeInv'
    BY <1>3 DEF WaitClosed, CancelWait, MustWait, WakeInv, Types
  <2>3. CountIsOpen'
    BY <1>3 DEF WaitClosed, CancelWait, CountIsOpen, Attached, connVars
  <2> QED  BY <2>1, <2>2, <2>3
<1>4. ASSUME NEW s \in Sockets, ListenError(s) PROVE IInv'
  <2>1. Types' /\ FrameInv' /\ WakeInv'
    BY <1>4 DEF ListenError, Idle, Types, FrameInv, WakeInv
  <2>2. Moves
    BY <1>4 DEF ListenError, Moves, Attached, Types
  <2> QED  BY <2>1, <2>2 DEF CountIsOpen, Moves
<1>5. ASSUME NEW c \in Conns, Connect(c) \/ OnListen(c) \/ ConnEnds(c)
                                \/ RunLost(c)
      PROVE IInv'
  <2>1. Types'
    BY <1>5 DEF Connect, OnListen, ConnEnds, RunLost, Types, serverVars
  <2>2. FrameInv' /\ WakeInv'
    BY <1>5 DEF Connect, OnListen, ConnEnds, RunLost, Types, serverVars,
                FrameInv, WakeInv, Idle
  <2>3. Moves
    BY <1>5 DEF Connect, OnListen, ConnEnds, RunLost, Types, serverVars,
                Moves, Attached
  <2> QED  BY <2>1, <2>2, <2>3 DEF CountIsOpen, Moves
<1>6. CASE FactoryReturns
  <2>1. /\ inFactory \in Conns \ Attached
        /\ ~closed
        /\ active' = active + 1
        /\ inFactory' = NoConn
        /\ \E state \in {"open", "ending"} :
               conn' = [conn EXCEPT ![inFactory] = state]
        /\ UNCHANGED <<closed, serving, handle, woken, future, forever, via,
                       inLost>>
    BY <1>6 DEF FactoryReturns, MayAttach, CountAttached, FrameInv, Types,
                Attached
  <2>2. Types'
    BY <1>6, <2>1 DEF FactoryReturns, Types
  <2>3. FrameInv' /\ WakeInv'
    BY <2>1 DEF Types, FrameInv, WakeInv
  <2>4. Attached' = Attached \union {inFactory}
    BY <2>1 DEF Attached, Types
  <2>5. CountIsOpen'
    BY <2>1, <2>4, Counting DEF CountIsOpen
  <2> QED  BY <2>2, <2>3, <2>5
<1>7. CASE AttachFails \/ FactoryRaises
  <2>1. /\ inFactory \in Conns /\ inFactory' = NoConn
        /\ \E state \in {"refused", "stuck"} :
               conn' = [conn EXCEPT ![inFactory] = state]
        /\ UNCHANGED <<serverVars, holding, via, inLost>>
    BY <1>7 DEF AttachFails, FactoryRaises, Types
  <2>2. Types'
    BY <2>1 DEF Types, serverVars
  <2>3. FrameInv' /\ WakeInv'
    BY <2>1 DEF Types, FrameInv, WakeInv, serverVars
  <2>4. Moves
    BY <2>1 DEF Types, FrameInv, serverVars, Moves, Attached
  <2> QED  BY <2>2, <2>3, <2>4 DEF CountIsOpen, Moves
<1>8. CASE LostReturns
  <2>1. /\ inLost \in Attached
        /\ active' = active - 1
        /\ inLost' = NoConn
        /\ conn' = [conn EXCEPT ![inLost] = "gone"]
        /\ WakeupIf(closed /\ active - 1 = 0)
        /\ UNCHANGED <<closed, serving, handle, forever, holding, via,
                       inFactory>>
    BY <1>8 DEF LostReturns, CountDetached, LastIsGone, FrameInv, Types,
                Attached
  <2>2. active \in Nat /\ active >= 1
    BY <2>1, Counting DEF CountIsOpen, Types
  <2>3. /\ woken' = (woken \/ (closed /\ active - 1 = 0))
        /\ future' \in [Waiters ->
                  {"none", "waiting", "woken", "returned", "cancelled"}]
        /\ \A w \in Waiters : (future'[w] = "waiting" => ~woken')
                                /\ (future'[w] = "woken" => woken')
    BY <2>1, <2>2, Waking DEF Types
  <2>4. Types'
    <3>1. active' \in Nat /\ inLost \in Conns
      BY <2>1, <2>2 DEF Attached
    <3>2. conn' \in [Conns -> {"none", "backlog", "accepting", "open",
                               "ending", "gone", "refused", "stuck"}]
      BY <2>1, <3>1 DEF Types
    <3>3. woken' \in BOOLEAN
      BY <2>3 DEF Types
    <3> QED  BY <2>1, <2>3, <3>1, <3>2, <3>3 DEF Types
  <2>5. FrameInv'
    BY <2>1 DEF FrameInv, Types
  <2>6. WakeInv'
    BY <2>1, <2>2, <2>3 DEF WakeInv, Types
  <2>7. Attached' = Attached \ {inLost}
    BY <2>1 DEF Attached, Types
  <2>8. CountIsOpen'
    BY <2>1, <2>7, Counting DEF CountIsOpen
  <2> QED  BY <2>4, <2>5, <2>6, <2>8
<1>9. CASE UNCHANGED vars
  BY <1>9 DEF vars, serverVars, connVars, Types, FrameInv, WakeInv, CountIsOpen,
              Attached
<1> QED
  BY <1>1, <1>2, <1>3, <1>4, <1>5, <1>6, <1>7, <1>8, <1>9 DEF Next

-----------------------------------------------------------------------------

\* IInv holds in every reachable state of a server.
THEOREM Invariance == Spec => []IInv
BY Initially, Inductive, PTL DEF Spec

\* The variables keep to their values; _active_count never exceeds the number
\* of connections that were made and never goes below zero.
THEOREM TypeCorrect == Spec => []TypeOK
<1>1. IInv => TypeOK
  BY Counting DEF IInv, Types, TypeOK, CountIsOpen
<1> QED  BY <1>1, Invariance, PTL

\* _attach() and _detach() keep _active_count at the number of connections that
\* are attached.
THEOREM CountsConnections == Spec => []CountIsOpen
<1>1. IInv => CountIsOpen
  BY DEF IInv
<1> QED  BY <1>1, Invariance, PTL

\* Whoever waits for a closed server still has a connection to wait for.
THEOREM WaitersHaveReason == Spec => []NobodyLeftWaiting
<1>1. IInv => NobodyLeftWaiting
  BY DEF IInv, WakeInv, NobodyLeftWaiting
<1> QED  BY <1>1, Invariance, PTL

\* The waiters are woken when the server is closed and its last connection gone.
THEOREM WokenAtTheEnd == Spec => []WokenWhenIdle
<1>1. IInv => WokenWhenIdle
  BY Counting DEF IInv, WakeInv, CountIsOpen, WokenWhenIdle
<1> QED  BY <1>1, Invariance, PTL
=============================================================================
