---------------------------- MODULE ForwarderProofs ----------------------------
(***************************************************************************)
(* The forwarder leaves nothing behind and implements Service, for any set *)
(* of connections, of which any number may be worked on at a time.         *)
(***************************************************************************)
EXTENDS Forwarder, FiniteSetTheorems, TLAPS

Work == {c \in Conn : Working(c)}

\* waitGroup counts the goroutines that are not done; they are finitely many,
\* because each of them was accepted.
Counted == IsFiniteSet(Work) /\ waitGroup = Cardinality(Work)

\* What Serve and its watcher know: the listener is closed only for a canceled
\* context, so that a nil result stands for one.
ServeOK ==
  /\ serve \in {"done", "returned"} => Work = {}
  /\ serve \in {"accepting", "closing", "waiting"} => result = "none"
  /\ serve \in {"done", "returned"} => result \in {"nil", "error"}
  /\ acceptErr = "closed" => ~listening
  /\ ~listening => ctxDone
  /\ result = "nil" => ctxDone

\* The deferred calls of forward close both connections before the last of them.
ClosedOK ==
  \A c \in Conn : forward[c] \in {"ending", "gone"} => client[c] = "closed" /\ outer[c] # "open"

ForwarderInvariant == TypeOK /\ Counted /\ ServeOK /\ ClosedOK

\* A new forwarder works on nothing.
LEMMA InitInvariant == Init => ForwarderInvariant
<1> SUFFICES ASSUME Init PROVE ForwarderInvariant
  OBVIOUS
<1>1. Work = {}
  BY DEF Init, Work, Working
<1> QED
  BY <1>1, FS_EmptySet DEF Init, ForwarderInvariant, TypeOK, Counted, ServeOK, ClosedOK

\* A step of a goroutine that is neither its first nor its last leaves the count.
LEMMA MoveKeepsWork ==
  ASSUME NEW c \in Conn, NEW from, NEW to, TypeOK, Moves(c, from, to),
         from \notin {"none", "gone"}, to \notin {"none", "gone"}
  PROVE  Work' = Work
  BY DEF Moves, TypeOK, Work, Working

\* What the steps of a goroutine but the last leave alone.
LEMMA MoveInvariant ==
  ASSUME ForwarderInvariant, TypeOK', Work' = Work, UNCHANGED <<ctxDone, loop, waitGroup>>, ClosedOK'
  PROVE  ForwarderInvariant'
  BY DEF ForwarderInvariant, Counted, ServeOK, loop

\* The goroutine of a connection keeps the invariant.
LEMMA ForwardInvariant ==
  ASSUME ForwarderInvariant, NEW c \in Conn, ForwardStep(c) \/ RelayOver(c)
  PROVE  ForwarderInvariant'
<1>1. CASE DialSucceeds(c) \/ DialFails(c) \/ Add(c) \/ RelayEnds(c) \/ RelayOver(c) \/ Remove(c) \/ Close(c)
  <2> USE DEF DialSucceeds, DialFails, Add, RelayEnds, RelayOver, Remove, Close
  <2>1. Work' = Work
    BY <1>1, MoveKeepsWork DEF ForwarderInvariant
  <2>2. UNCHANGED <<ctxDone, loop, waitGroup>>
    BY <1>1
  <2>3. TypeOK'
    BY <1>1, <2>2 DEF ForwarderInvariant, TypeOK, Moves, loop
  <2>4. ClosedOK'
    BY <1>1 DEF ForwarderInvariant, TypeOK, ClosedOK, Moves
  <2> QED
    BY <2>1, <2>2, <2>3, <2>4, MoveInvariant
<1>2. CASE Done(c)
  <2> USE DEF ForwarderInvariant, TypeOK, ClosedOK, Moves, loop
  <2>1. c \in Work /\ Work' = Work \ {c}
    BY <1>2 DEF Done, Work, Working
  <2>2. Counted'
    BY <1>2, <2>1, FS_RemoveElement DEF Done, Counted
  <2>3. waitGroup' \in Nat
    BY <2>2, FS_CardinalityType DEF Counted
  <2> QED
    BY <1>2, <2>1, <2>2, <2>3 DEF Done, ServeOK
<1> QED
  BY <1>1, <1>2 DEF ForwardStep

\* Accepting counts the new goroutine before Serve can wait for it.
LEMMA AcceptInvariant ==
  ASSUME ForwarderInvariant, NEW c \in Conn, Accept(c)
  PROVE  ForwarderInvariant'
<1> USE DEF ForwarderInvariant, TypeOK, Accept, loop
<1>1. c \notin Work /\ Work' = Work \cup {c}
  BY DEF Work, Working
<1>2. Counted'
  BY <1>1, FS_AddElement DEF Counted
<1> QED
  BY <1>1, <1>2 DEF ServeOK, ClosedOK

\* Serve, its watcher and the caller keep the invariant.
LEMMA ServeInvariant ==
  ASSUME ForwarderInvariant,
         Cancel \/ AcceptFails \/ ServeCloses \/ ServeWaits \/ ServeReturns \/ WatcherStep \/ UNCHANGED vars
  PROVE  ForwarderInvariant'
<1> USE DEF ForwarderInvariant, TypeOK, loop
<1>1. UNCHANGED <<waitGroup, forward>>
  BY DEF Cancel, AcceptFails, ServeCloses, CloseAll, ServeWaits, ServeReturns, WatcherStep,
         WatcherSeesCancel, WatcherCloses, WatcherStops, vars
<1>2. Work' = Work /\ Counted'
  BY <1>1 DEF Work, Working, Counted
<1>3. CASE Cancel
  BY <1>2, <1>3 DEF Cancel, ServeOK, ClosedOK
<1>4. CASE AcceptFails
  BY <1>2, <1>4 DEF AcceptFails, ServeOK, ClosedOK
<1>5. CASE ServeCloses
  BY <1>2, <1>5 DEF ServeCloses, CloseAll, ServeOK, ClosedOK
<1>6. CASE ServeWaits
  <2>1. Work = {}
    BY <1>6, FS_EmptySet DEF ServeWaits, Counted
  <2> QED
    BY <1>2, <1>6, <2>1 DEF ServeWaits, ServeOK, ClosedOK
<1>7. CASE ServeReturns
  BY <1>2, <1>7 DEF ServeReturns, ServeOK, ClosedOK
<1>8. CASE WatcherSeesCancel
  BY <1>2, <1>8 DEF WatcherSeesCancel, ServeOK, ClosedOK
<1>9. CASE WatcherCloses
  BY <1>2, <1>9 DEF WatcherCloses, CloseAll, ServeOK, ClosedOK
<1>10. CASE WatcherStops
  BY <1>2, <1>10 DEF WatcherStops, ServeOK, ClosedOK
<1>11. CASE UNCHANGED vars
  BY <1>2, <1>11 DEF vars, ServeOK, ClosedOK
<1> QED
  BY <1>3, <1>4, <1>5, <1>6, <1>7, <1>8, <1>9, <1>10, <1>11 DEF WatcherStep

\* No step breaks the invariant.
LEMMA StepInvariant == ForwarderInvariant /\ [Next]_vars => ForwarderInvariant'
  BY ForwardInvariant, AcceptInvariant, ServeInvariant DEF Next, ServeStep

\* The forwarder is always in a state the invariant describes.
THEOREM ForwarderInvariantHolds == Spec => []ForwarderInvariant
  BY InitInvariant, StepInvariant, PTL DEF Spec

\* Nothing outlives a goroutine of the forwarder, or Serve.
THEOREM NothingOutlives == Spec => []NothingOutlivesServe
<1>1. ForwarderInvariant => NothingOutlivesServe
  BY DEF ForwarderInvariant, ServeOK, ClosedOK, Work, NothingOutlivesServe
<1> QED
  BY <1>1, ForwarderInvariantHolds, PTL

-------------------------------------------------------------------------------
(* The refinement *)

\* A goroutine begins or ends a piece of work, or stutters.
LEMMA ForwardRefines ==
  ASSUME ForwarderInvariant, NEW c \in Conn, ForwardStep(c) \/ RelayOver(c) \/ Accept(c)
  PROVE  [Abstract!Next]_(Abstract!vars)
<1> USE DEF Abstract!Next, Abstract!Begin, Abstract!End, Abstract!vars, Phase, loop, ForwarderInvariant
<1>1. CASE Accept(c)
  <2>1. c \notin Work /\ Work' = Work \cup {c}
    BY <1>1 DEF Accept, Work, Working, TypeOK
  <2> QED
    BY <1>1, <2>1 DEF Accept, Work
<1>2. CASE Done(c)
  <2>1. c \in Work /\ Work' = Work \ {c}
    BY <1>2 DEF Done, Moves, Work, Working, TypeOK
  <2> QED
    BY <1>2, <2>1 DEF Done, Work
<1>3. CASE DialSucceeds(c) \/ DialFails(c) \/ Add(c) \/ RelayEnds(c) \/ RelayOver(c) \/ Remove(c) \/ Close(c)
  <2>1. Work' = Work
    BY <1>3, MoveKeepsWork DEF DialSucceeds, DialFails, Add, RelayEnds, RelayOver, Remove, Close
  <2>2. UNCHANGED <<ctxDone, serve, result>>
    BY <1>3 DEF DialSucceeds, DialFails, Add, RelayEnds, RelayOver, Remove, Close
  <2> QED
    BY <2>1, <2>2 DEF Work
<1> QED
  BY <1>1, <1>2, <1>3 DEF ForwardStep

\* Serve returns what it has, without work left, or stutters.
LEMMA ServeRefines ==
  ASSUME ForwarderInvariant,
         Cancel \/ AcceptFails \/ ServeCloses \/ ServeWaits \/ ServeReturns \/ WatcherStep \/ UNCHANGED vars
  PROVE  [Abstract!Next]_(Abstract!vars)
<1> USE DEF Abstract!Next, Abstract!vars, Phase, loop, ForwarderInvariant
<1>1. UNCHANGED forward
  BY DEF Cancel, AcceptFails, ServeCloses, CloseAll, ServeWaits, ServeReturns, WatcherStep,
         WatcherSeesCancel, WatcherCloses, WatcherStops, vars
<1>2. Work' = Work
  BY <1>1 DEF Work, Working
<1>3. CASE Cancel
  BY <1>2, <1>3 DEF Cancel, Work, Abstract!Cancel
<1>4. CASE ServeReturns
  BY <1>2, <1>4 DEF ServeReturns, ServeOK, Work, Abstract!Return
<1>5. CASE AcceptFails \/ ServeCloses \/ ServeWaits \/ WatcherStep \/ UNCHANGED vars
  <2>1. Phase' = Phase /\ UNCHANGED ctxDone /\ (serve = "returned" => UNCHANGED result)
    BY <1>5 DEF AcceptFails, ServeCloses, CloseAll, ServeWaits, WatcherStep,
                WatcherSeesCancel, WatcherCloses, WatcherStops, vars
  <2> QED
    BY <1>2, <2>1 DEF Work
<1> QED
  BY <1>3, <1>4, <1>5

\* The forwarder is a Service: it returns with no work left, and nil only because
\* its context was canceled.
THEOREM ForwarderImplementsService == Spec => ImplementsService
<1>1. Init => Abstract!Init
  BY DEF Init, Abstract!Init, Phase, Working
<1>2. ForwarderInvariant /\ [Next]_vars => [Abstract!Next]_(Abstract!vars)
  BY ForwardRefines, ServeRefines DEF Next, ServeStep
<1> QED
  BY <1>1, <1>2, ForwarderInvariantHolds, PTL DEF Spec, ImplementsService, Abstract!Spec
===============================================================================
