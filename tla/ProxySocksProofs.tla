--------------------------- MODULE ProxySocksProofs ----------------------------
(***************************************************************************)
(* The SOCKS proxy leaves no connection open, keeps its deadline to the    *)
(* handshake and implements Service, for any set of connections.           *)
(***************************************************************************)
EXTENDS ProxySocks, FiniteSetTheorems, TLAPS

Work == {c \in Conn : Running(c)}

\* server.connections are those a handler runs for, and server.active their
\* number: add and remove change both under the mutex.
Counted ==
  /\ connections = Work
  /\ IsFiniteSet(connections) /\ active = Cardinality(connections)

\* What Serve and its watcher know.
ServeOK ==
  /\ serve = "adding" => current \in Conn /\ handler[current] = "none"
  /\ serve \in {"done", "returned"} => connections = {} /\ result \in {"nil", "error"}
  /\ acceptErr = "closed" => ~listening
  /\ ~listening => ctxDone
  /\ result = "nil" => ctxDone

\* What was written tells how far the handshake is, and with it whether the
\* deadline still stands.
HandshakeOK ==
  \A c \in Conn :
    /\ handler[c] \in {"none", "greeting"} => writes[c] = 0
    /\ handler[c] \in {"requesting", "dialling", "replying"} => writes[c] = 1
    /\ handler[c] \in {"greeting", "requesting", "dialling", "replying"} => c \in armed
    /\ handler[c] \in {"replying", "relaying"} => target[c] # "absent"

\* Serve has set the deadline of what it is about to add.
AddingArmed == serve = "adding" => current \in armed

SocksInvariant ==
  /\ TypeOK /\ Counted /\ ServeOK /\ ClosingLeavesNoneOpen
  /\ HandshakeOK /\ AddingArmed /\ DeadlineIsTheHandshakes

\* A new server runs no handler.
LEMMA InitInvariant == Init => SocksInvariant
<1> SUFFICES ASSUME Init PROVE SocksInvariant
  OBVIOUS
<1>1. Work = {}
  BY DEF Init, Work, Running
<1>2. TypeOK
  <2>1. writes \in [Conn -> 0 .. 2]
    BY DEF Init
  <2> QED
    BY <2>1 DEF Init, TypeOK
<1> QED
  BY <1>1, <1>2, FS_EmptySet
  DEF Init, SocksInvariant, Counted, ServeOK, ClosingLeavesNoneOpen, HandshakeOK, AddingArmed,
      DeadlineIsTheHandshakes, Running

-------------------------------------------------------------------------------
(* The handlers, and the hosts at both ends *)

\* What neither starts nor ends a handler.
Inside(c) ==
  \/ Greet(c) \/ RequestRead(c) \/ Refuse(c) \/ Malformed(c) \/ HandshakeBreaks(c)
  \/ DialSucceeds(c) \/ DialFails(c)
  \/ Reply(c) \/ ReplyFails(c) \/ UploadEnds(c) \/ DownloadEnds(c) \/ TargetSends(c) \/ RelayEnds(c) \/ End(c)
  \/ ClientConnects(c) \/ ClientEnds(c) \/ ClientResets(c) \/ TargetEnds(c)

\* It changes no more than the connection's own state.
LEMMA InsideKeeps ==
  ASSUME SocksInvariant, NEW c \in Conn, Inside(c)
  PROVE  /\ UNCHANGED <<ctxDone, listening, loop, watcher, server>>
         /\ Work' = Work
         /\ TypeOK'
         /\ closed \subseteq closed'
         /\ \A d \in Conn : handler[d] = "none" => handler'[d] = "none"
<1> USE DEF SocksInvariant, TypeOK, Moves, Work, Running, loop, server, tunnel, handshake, HandshakeOK, Write, Success, Refusals
<1>1. CASE Greet(c) \/ RequestRead(c)
  BY <1>1 DEF Greet, RequestRead
<1>2. CASE Refuse(c) \/ DialFails(c)
  BY <1>2 DEF Refuse, DialFails
<1>3. CASE Malformed(c) \/ HandshakeBreaks(c) \/ DialSucceeds(c)
  BY <1>3 DEF Malformed, HandshakeBreaks, DialSucceeds
<1>7. CASE Reply(c) \/ ReplyFails(c)
  BY <1>7 DEF Reply, ReplyFails
<1>4. CASE UploadEnds(c) \/ DownloadEnds(c) \/ TargetSends(c)
  BY <1>4 DEF UploadEnds, DownloadEnds, TargetSends
<1>5. CASE RelayEnds(c) \/ End(c)
  BY <1>5 DEF RelayEnds, End
<1>6. CASE ClientConnects(c) \/ ClientEnds(c) \/ ClientResets(c) \/ TargetEnds(c)
  BY <1>6 DEF ClientConnects, ClientEnds, ClientResets, TargetEnds
<1> QED
  BY <1>1, <1>2, <1>3, <1>4, <1>5, <1>6, <1>7 DEF Inside

\* Only the second write, and only if it says success, clears the deadline: what it
\* is called with tells the reply to a request that was granted.
LEMMA InsideHandshake ==
  ASSUME SocksInvariant, NEW c \in Conn, Inside(c)
  PROVE  HandshakeOK' /\ DeadlineIsTheHandshakes' /\ AddingArmed'
<1> USE DEF SocksInvariant, TypeOK, HandshakeOK, AddingArmed, ServeOK, DeadlineIsTheHandshakes, Running,
            Moves, Write, Success, Refusals, handshake, loop
<1>1. CASE Greet(c)
  BY <1>1 DEF Greet, Sendable
<1>2. CASE Refuse(c)
  BY <1>2 DEF Refuse
<1>3. CASE DialFails(c)
  BY <1>3 DEF DialFails
<1>4. CASE Reply(c)
  BY <1>4 DEF Reply, Sendable
<1>5. CASE ReplyFails(c)
  BY <1>5 DEF ReplyFails
<1>6. CASE RequestRead(c) \/ Malformed(c) \/ HandshakeBreaks(c)
  BY <1>6 DEF RequestRead, Malformed, HandshakeBreaks
<1>7. CASE DialSucceeds(c)
  BY <1>7 DEF DialSucceeds
<1>8. CASE RelayEnds(c) \/ End(c)
  BY <1>8 DEF RelayEnds, End
<1>9. CASE UploadEnds(c) \/ DownloadEnds(c) \/ TargetSends(c)
  BY <1>9 DEF UploadEnds, DownloadEnds, TargetSends
<1>10. CASE ClientConnects(c) \/ ClientEnds(c) \/ ClientResets(c)
  BY <1>10 DEF ClientConnects, ClientEnds, ClientResets
<1>11. CASE TargetEnds(c)
  BY <1>11 DEF TargetEnds
<1> QED
  BY <1>1, <1>2, <1>3, <1>4, <1>5, <1>6, <1>7, <1>8, <1>9, <1>10, <1>11 DEF Inside

\* What happens to a connection while its handler runs keeps the invariant.
LEMMA InsideInvariant ==
  ASSUME SocksInvariant, NEW c \in Conn, Inside(c)
  PROVE  SocksInvariant'
<1>1. ServeOK'
  BY InsideKeeps DEF SocksInvariant, ServeOK, TypeOK, loop, server
<1>2. Counted' /\ ClosingLeavesNoneOpen'
  BY InsideKeeps DEF SocksInvariant, Counted, ClosingLeavesNoneOpen, server
<1> QED
  BY <1>1, <1>2, InsideKeeps, InsideHandshake DEF SocksInvariant

\* remove takes the connection out of the set and counts down.
LEMMA RemoveWork ==
  ASSUME SocksInvariant, NEW c \in Conn, Remove(c)
  PROVE  c \in Work /\ Work' = Work \ {c}
  BY DEF Remove, Moves, SocksInvariant, TypeOK, Work, Running

\* Removing keeps the invariant.
LEMMA RemoveInvariant ==
  ASSUME SocksInvariant, NEW c \in Conn, Remove(c)
  PROVE  SocksInvariant'
<1> USE DEF SocksInvariant, Remove, Moves, loop, tunnel, handshake
<1>1. Counted'
  BY RemoveWork, FS_RemoveElement DEF Counted
<1>2. TypeOK'
  BY <1>1, FS_CardinalityType DEF TypeOK, Counted
<1> QED
  BY <1>1, <1>2
  DEF TypeOK, ServeOK, ClosingLeavesNoneOpen, HandshakeOK, AddingArmed, DeadlineIsTheHandshakes, Running, handshake

-------------------------------------------------------------------------------
(* Serve and its watcher *)

\* add puts the connection into the set, counts up and starts its handler, unless
\* the server is closing.
LEMMA AddWork ==
  ASSUME SocksInvariant, Add
  PROVE  /\ current \in Conn
         /\ closing => Work' = Work /\ connections' = connections
         /\ ~closing => current \notin Work /\ Work' = Work \cup {current} /\ connections' = connections \cup {current}
  BY DEF Add, SocksInvariant, TypeOK, ServeOK, Work, Running

\* Adding keeps the invariant: a refused connection is closed, an accepted one open
\* only in a server that is not closing.
LEMMA AddInvariant ==
  ASSUME SocksInvariant, Add
  PROVE  SocksInvariant'
<1> USE AddWork DEF SocksInvariant, Add
<1>1. Counted'
  BY FS_AddElement DEF Counted
<1>2. TypeOK'
  BY <1>1, FS_CardinalityType DEF TypeOK, Counted, tunnel, handshake
<1>3. ServeOK'
  BY <1>2 DEF ServeOK, TypeOK
<1>4. ClosingLeavesNoneOpen' /\ HandshakeOK' /\ AddingArmed' /\ DeadlineIsTheHandshakes'
  BY <1>2 DEF ClosingLeavesNoneOpen, HandshakeOK, AddingArmed, DeadlineIsTheHandshakes, Running, ServeOK, TypeOK, handshake
<1> QED
  BY <1>1, <1>2, <1>3, <1>4

\* The rest of Serve, its watcher and the caller
Around ==
  \/ Cancel \/ (\E c \in Conn : Accept(c)) \/ AcceptFails \/ ServeCloses \/ ServeWaits \/ ServeReturns
  \/ WatcherStep \/ UNCHANGED vars

\* It leaves the handlers and the set alone.
LEMMA AroundKeeps ==
  ASSUME SocksInvariant, Around
  PROVE  UNCHANGED <<active, connections, handler>> /\ Work' = Work /\ Counted'
<1>1. UNCHANGED <<active, connections, handler>>
  BY DEF Around, Cancel, Accept, AcceptFails, ServeCloses, CloseAll, ServeWaits, ServeReturns,
         WatcherStep, WatcherSeesCancel, WatcherCloses, WatcherStops, vars, server
<1> QED
  BY <1>1 DEF Work, Running, SocksInvariant, Counted

\* It keeps the invariant; Serve waits until no handler is left.
LEMMA AroundInvariant ==
  ASSUME SocksInvariant, Around
  PROVE  SocksInvariant'
<1> USE AroundKeeps DEF SocksInvariant, TypeOK, ServeOK, ClosingLeavesNoneOpen, HandshakeOK, AddingArmed,
                        DeadlineIsTheHandshakes, Running, loop, server, tunnel, handshake
<1>1. CASE Cancel
  BY <1>1 DEF Cancel
<1>2. ASSUME NEW c \in Conn, Accept(c) PROVE SocksInvariant'
  BY <1>2 DEF Accept
<1>3. CASE AcceptFails
  BY <1>3 DEF AcceptFails
<1>4. CASE ServeCloses
  BY <1>4 DEF ServeCloses, CloseAll
<1>5. CASE ServeWaits
  <2>1. connections = {}
    BY <1>5, FS_EmptySet DEF ServeWaits, Counted
  <2> QED
    BY <1>5, <2>1 DEF ServeWaits
<1>6. CASE ServeReturns
  BY <1>6 DEF ServeReturns
<1>7. CASE WatcherSeesCancel
  <2>1. UNCHANGED <<loop, server, handler, client, target, closed, handshake, tunnel>>
    BY <1>7 DEF WatcherSeesCancel
  <2>2. ctxDone' = TRUE /\ listening' = FALSE /\ watcher' = "closing"
    BY <1>7 DEF WatcherSeesCancel
  <2>3. TypeOK' /\ ServeOK'
    BY <2>1, <2>2
  <2>4. HandshakeOK' /\ AddingArmed' /\ DeadlineIsTheHandshakes'
    BY <2>1
  <2> QED
    BY <2>1, <2>3, <2>4
<1>8. CASE WatcherCloses
  BY <1>8 DEF WatcherCloses, CloseAll
<1>9. CASE WatcherStops
  BY <1>9 DEF WatcherStops
<1>10. CASE UNCHANGED vars
  BY <1>10 DEF vars
<1> QED
  BY <1>1, <1>2, <1>3, <1>4, <1>5, <1>6, <1>7, <1>8, <1>9, <1>10 DEF Around, WatcherStep

-------------------------------------------------------------------------------

\* The disjuncts of Next, as they are treated here.
LEMMA Steps ==
  ASSUME [Next]_vars
  PROVE  Around \/ Add \/ \E c \in Conn : Inside(c) \/ Remove(c)
  BY DEF Next, ServeStep, ClientTalks, HandlerStep, DialEnds, Around, Inside

\* No step breaks the invariant.
LEMMA StepInvariant == SocksInvariant /\ [Next]_vars => SocksInvariant'
  BY Steps, AroundInvariant, AddInvariant, InsideInvariant, RemoveInvariant

\* The SOCKS proxy is always in a state the invariant describes.
THEOREM SocksInvariantHolds == Spec => []SocksInvariant
  BY InitInvariant, StepInvariant, PTL DEF Spec

\* A connection accepted while the server closes is closed, as are all before it.
THEOREM NoneOpen == Spec => []ClosingLeavesNoneOpen
  BY SocksInvariantHolds, PTL DEF SocksInvariant

\* No tunnel carries the deadline of the handshake, and no connection without a
\* target has lost it: neither the answer to the greeting nor a refusal clears it.
THEOREM HandshakeDeadline == Spec => []DeadlineIsTheHandshakes
  BY SocksInvariantHolds, PTL DEF SocksInvariant

-------------------------------------------------------------------------------
(* The refinement *)

\* Adding begins a piece of work, removing ends one, and what lies between
\* stutters.
LEMMA WorkRefines ==
  ASSUME SocksInvariant, NEW c \in Conn, Add \/ Inside(c) \/ Remove(c)
  PROVE  [Abstract!Next]_(Abstract!vars)
<1> USE DEF Abstract!Next, Abstract!Begin, Abstract!End, Abstract!vars
<1>1. CASE Add
  <2>1. UNCHANGED <<ctxDone, result>> /\ serve # "returned" /\ serve' # "returned"
    BY <1>1 DEF Add
  <2> QED
    BY <1>1, <2>1, AddWork DEF Work
<1>2. CASE Inside(c)
  BY <1>2, InsideKeeps DEF Work, loop
<1>3. CASE Remove(c)
  <2>1. UNCHANGED <<ctxDone, result, serve>>
    BY <1>3 DEF Remove, loop
  <2> QED
    BY <1>3, <2>1, RemoveWork DEF Work
<1> QED
  BY <1>1, <1>2, <1>3

\* Serve returns what it has, without work left, or stutters.
LEMMA ServeRefines ==
  ASSUME SocksInvariant, Around
  PROVE  [Abstract!Next]_(Abstract!vars)
<1> USE AroundKeeps DEF Abstract!Next, Abstract!vars, Work, loop
<1>1. CASE Cancel
  BY <1>1 DEF Cancel, Abstract!Cancel
<1>2. CASE ServeReturns
  BY <1>2 DEF ServeReturns, Abstract!Return, SocksInvariant, ServeOK, Counted
<1>3. CASE \/ (\E c \in Conn : Accept(c)) \/ AcceptFails \/ ServeCloses \/ ServeWaits
           \/ WatcherStep \/ UNCHANGED vars
  <2>1. UNCHANGED ctxDone /\ (serve = "returned" <=> serve' = "returned") /\ (serve = "returned" => UNCHANGED result)
    BY <1>3 DEF Accept, AcceptFails, ServeCloses, CloseAll, ServeWaits, WatcherStep,
                WatcherSeesCancel, WatcherCloses, WatcherStops, vars
  <2> QED
    BY <2>1
<1> QED
  BY <1>1, <1>2, <1>3 DEF Around

\* The SOCKS proxy is a Service: it returns with no handler left, and nil only
\* because its context was canceled.
THEOREM SocksImplementsService == Spec => ImplementsService
<1>1. Init => Abstract!Init
  BY DEF Init, Abstract!Init, Running
<1>2. SocksInvariant /\ [Next]_vars => [Abstract!Next]_(Abstract!vars)
  <2> SUFFICES ASSUME SocksInvariant, [Next]_vars PROVE [Abstract!Next]_(Abstract!vars)
    OBVIOUS
  <2>1. CASE Add
    BY <2>1, AddWork, WorkRefines
  <2> QED
    BY <2>1, Steps, WorkRefines, ServeRefines
<1> QED
  BY <1>1, <1>2, SocksInvariantHolds, PTL DEF Spec, ImplementsService, Abstract!Spec
===============================================================================
