---------------------------- MODULE ProxyHttpProofs ----------------------------
(***************************************************************************)
(* The HTTP proxy loses neither an upstream nor a hijacked connection and  *)
(* implements Service, for any set of connections.                         *)
(***************************************************************************)
EXTENDS ProxyHttp, FiniteSetTheorems, TLAPS

Work == {c \in Conn : InHandler(c)}

\* The stages at which a connection is in the connectionSet
InTunnel == {"confirming", "relaying", "dropping", "removing"}

\* The counters of both sets count what they are meant to: neither wait is over
\* early, and neither lasts for nothing.
Counted ==
  /\ IsFiniteSet(Work) /\ handlersActive = Cardinality(Work)
  /\ IsFiniteSet(tunnels) /\ tunnelsActive = Cardinality(tunnels)

\* The types of what is kept of the connections, and of Serve and both sets
ConnTypes ==
  /\ accepted \in Conn \cup {NoConn}
  /\ tracked \subseteq Conn
  /\ client \in [Conn -> {"absent", "live", "gone"}]
  /\ closed \subseteq Conn
  /\ stage \in [Conn -> {"none", "idle", "entering", "dialling", "hijacking", "adding",
                         "confirming", "relaying", "dropping", "removing", "forwarding",
                         "leaving", "over"}]
  /\ upstream \in [Conn -> {"absent", "open", "closed"}]
  /\ input \in [Conn -> {"none", "body", "watched", "more"}]

ServeTypes ==
  /\ ctxDone \in BOOLEAN
  /\ serve \in {"select", "failed", "canceled", "closing tunnels", "closing all",
                "closing server", "awaiting server", "awaiting handlers",
                "awaiting tunnels", "returned"}
  /\ result \in {"none", "nil", "error"}
  /\ httpServer \in {"accepting", "closed", "failed"}
  /\ shutDown \in BOOLEAN
  /\ handlersClosing \in BOOLEAN
  /\ tunnelsClosing \in BOOLEAN

SetTypes == handlersActive \in Nat /\ tunnelsActive \in Nat /\ tunnels \subseteq Conn

\* Together they are the type invariant.
LEMMA Types == TypeOK <=> ConnTypes /\ ServeTypes /\ SetTypes
  BY DEF TypeOK, ConnTypes, ServeTypes, SetTypes

\* What is known of each connection: the three properties, and that a tunnel's
\* client is closed before the tunnel is removed.
Cared(c) ==
  /\ c \in tunnels <=> stage[c] \in InTunnel
  /\ stage[c] = "removing" => c \in closed
  /\ upstream[c] = "open" => stage[c] \in {"hijacking", "adding", "confirming", "relaying", "dropping", "forwarding"}
  /\ tunnelsClosing /\ c \in tunnels => c \in closed /\ upstream[c] = "closed"
  /\ stage[c] \notin {"none", "over"} => c \in tracked \cup tunnels \cup closed \/ stage[c] = "adding"

ConnOK ==
  /\ ConnTypes /\ ServeTypes /\ SetTypes
  /\ accepted # NoConn => stage[accepted] = "none"
  /\ \A c \in Conn : Cared(c)

\* What Serve knows: only a cancellation makes it close the HTTP server, and it
\* admits no handler once it waits for them.
ServeOK ==
  /\ serve \notin {"select", "failed", "canceled"} => handlersClosing
  /\ serve \in {"awaiting tunnels", "returned"} => Work = {}
  /\ serve \in {"canceled", "closing all", "closing server", "awaiting server"} => ctxDone
  /\ shutDown => ctxDone
  /\ httpServer = "closed" => shutDown
  /\ serve # "returned" => result = "none"

HttpInvariant == Counted /\ ConnOK /\ ServeOK

\* A new server has no connection.
LEMMA InitInvariant == Init => HttpInvariant
<1> SUFFICES ASSUME Init PROVE HttpInvariant
  OBVIOUS
<1>1. Work = {}
  BY DEF Init, Work, InHandler
<1>2. ConnTypes /\ ServeTypes /\ SetTypes
  BY DEF Init, ConnTypes, ServeTypes, SetTypes
<1> QED
  BY <1>1, <1>2, FS_EmptySet
  DEF Init, HttpInvariant, Counted, ConnOK, Cared, ServeOK, InTunnel

-------------------------------------------------------------------------------
(* The connections *)

\* What neither admits nor ends a handler or a tunnel
Inside(c) ==
  \/ ClientConnects(c) \/ ClientLeaves(c) \/ Accept(c) \/ Track \/ RequestArrives(c) \/ ClientSendsMore(c)
  \/ BodyConsumed(c) \/ IdleEnds(c) \/ Refuse(c) \/ DialSucceeds(c) \/ DialFails(c) \/ Hijack(c) \/ HijackFails(c)
  \/ Confirm(c) \/ RelayOver(c) \/ Drop(c) \/ ForwardOver(c)

\* It leaves Serve and both sets alone.
LEMMA InsideKeeps ==
  ASSUME HttpInvariant, NEW c \in Conn, Inside(c)
  PROVE  /\ UNCHANGED <<ctxDone, serve, result, httpServer, shutDown, handlers, tunnelSet>>
         /\ Work' = Work
<1> USE DEF HttpInvariant, ConnOK, ConnTypes, Work, InHandler, handlers, tunnelSet, netHttp, NextRequest
<1>1. CASE \/ ClientConnects(c) \/ ClientLeaves(c) \/ Accept(c) \/ RequestArrives(c)
           \/ ClientSendsMore(c) \/ BodyConsumed(c) \/ IdleEnds(c)
  BY <1>1 DEF ClientConnects, ClientLeaves, Accept, RequestArrives, ClientSendsMore, BodyConsumed, IdleEnds
<1>2. CASE Track
  BY <1>2 DEF Track
<1>3. CASE Refuse(c)
  BY <1>3 DEF Refuse
<1>4. CASE DialSucceeds(c) \/ DialFails(c) \/ Hijack(c) \/ HijackFails(c)
  BY <1>4 DEF DialSucceeds, DialFails, Hijack, HijackFails
<1>5. CASE Confirm(c) \/ RelayOver(c) \/ Drop(c) \/ ForwardOver(c)
  BY <1>5 DEF Confirm, RelayOver, Drop, ForwardOver
<1> QED
  BY <1>1, <1>2, <1>3, <1>4, <1>5 DEF Inside

\* It keeps the types.
LEMMA InsideTypes ==
  ASSUME HttpInvariant, NEW c \in Conn, Inside(c)
  PROVE  ConnTypes'
<1> ConnTypes
  BY DEF HttpInvariant, ConnOK
<1> USE DEF ConnTypes, netHttp
<1>1. CASE ClientConnects(c) \/ ClientLeaves(c)
  BY <1>1 DEF ClientConnects, ClientLeaves
<1>2. CASE Accept(c)
  BY <1>2 DEF Accept
<1>3. CASE Track
  BY <1>3 DEF Track
<1>4. CASE RequestArrives(c) \/ ClientSendsMore(c) \/ BodyConsumed(c)
  BY <1>4 DEF RequestArrives, ClientSendsMore, BodyConsumed
<1>5. CASE IdleEnds(c)
  BY <1>5 DEF IdleEnds
<1>6. CASE Refuse(c)
  BY <1>6 DEF Refuse, NextRequest
<1>7. CASE DialSucceeds(c) \/ DialFails(c)
  BY <1>7 DEF DialSucceeds, DialFails
<1>8. CASE Hijack(c) \/ HijackFails(c)
  BY <1>8 DEF Hijack, HijackFails
<1>9. CASE Confirm(c) \/ RelayOver(c)
  BY <1>9 DEF Confirm, RelayOver
<1>10. CASE Drop(c) \/ ForwardOver(c)
  BY <1>10 DEF Drop, ForwardOver
<1> QED
  BY <1>1, <1>2, <1>3, <1>4, <1>5, <1>6, <1>7, <1>8, <1>9, <1>10 DEF Inside

\* It keeps what is known of each connection.
LEMMA InsideCares ==
  ASSUME HttpInvariant, NEW c \in Conn, Inside(c), NEW d \in Conn
  PROVE  Cared(d)'
<1> ConnTypes /\ Cared(d) /\ (accepted # NoConn => stage[accepted] = "none")
  BY DEF HttpInvariant, ConnOK
<1> UNCHANGED <<tunnels, tunnelsClosing>>
  BY InsideKeeps DEF tunnelSet
<1> USE DEF ConnTypes, netHttp, Cared, InTunnel
<1>1. CASE ClientConnects(c) \/ ClientLeaves(c)
  BY <1>1 DEF ClientConnects, ClientLeaves
<1>2. CASE Accept(c)
  BY <1>2 DEF Accept
<1>3. CASE Track
  BY <1>3 DEF Track
<1>4. CASE RequestArrives(c) \/ ClientSendsMore(c) \/ BodyConsumed(c)
  BY <1>4 DEF RequestArrives, ClientSendsMore, BodyConsumed
<1>5. CASE IdleEnds(c)
  BY <1>5 DEF IdleEnds
<1>6. CASE Refuse(c)
  BY <1>6 DEF Refuse, NextRequest
<1>7. CASE DialSucceeds(c) \/ DialFails(c)
  BY <1>7 DEF DialSucceeds, DialFails
<1>8. CASE Hijack(c) \/ HijackFails(c)
  BY <1>8 DEF Hijack, HijackFails
<1>9. CASE Confirm(c) \/ RelayOver(c)
  BY <1>9 DEF Confirm, RelayOver
<1>10. CASE Drop(c) \/ ForwardOver(c)
  BY <1>10 DEF Drop, ForwardOver
<1> QED
  BY <1>1, <1>2, <1>3, <1>4, <1>5, <1>6, <1>7, <1>8, <1>9, <1>10 DEF Inside

\* A connection that net/http accepted and does not track yet is not served yet.
LEMMA InsideAccepted ==
  ASSUME HttpInvariant, NEW c \in Conn, Inside(c), accepted' # NoConn
  PROVE  stage'[accepted'] = "none"
<1> ConnTypes /\ (accepted # NoConn => stage[accepted] = "none")
  BY DEF HttpInvariant, ConnOK
<1> USE DEF ConnTypes, netHttp
<1>1. CASE ClientConnects(c) \/ ClientLeaves(c)
  BY <1>1 DEF ClientConnects, ClientLeaves
<1>2. CASE Accept(c)
  BY <1>2 DEF Accept
<1>3. CASE Track
  BY <1>3 DEF Track
<1>4. CASE RequestArrives(c) \/ ClientSendsMore(c) \/ BodyConsumed(c)
  BY <1>4 DEF RequestArrives, ClientSendsMore, BodyConsumed
<1>5. CASE IdleEnds(c)
  BY <1>5 DEF IdleEnds
<1>6. CASE Refuse(c)
  BY <1>6 DEF Refuse, NextRequest
<1>7. CASE DialSucceeds(c) \/ DialFails(c)
  BY <1>7 DEF DialSucceeds, DialFails
<1>8. CASE Hijack(c) \/ HijackFails(c)
  BY <1>8 DEF Hijack, HijackFails
<1>9. CASE Confirm(c) \/ RelayOver(c)
  BY <1>9 DEF Confirm, RelayOver
<1>10. CASE Drop(c) \/ ForwardOver(c)
  BY <1>10 DEF Drop, ForwardOver
<1> QED
  BY <1>1, <1>2, <1>3, <1>4, <1>5, <1>6, <1>7, <1>8, <1>9, <1>10 DEF Inside

\* Nothing of this is lost.
LEMMA InsideConn ==
  ASSUME HttpInvariant, NEW c \in Conn, Inside(c)
  PROVE  ConnOK'
<1>1. ServeTypes' /\ SetTypes'
  BY InsideKeeps DEF HttpInvariant, ConnOK, ServeTypes, SetTypes, handlers, tunnelSet
<1> QED
  BY <1>1, InsideTypes, InsideCares, InsideAccepted DEF ConnOK

\* It keeps the invariant.
LEMMA InsideInvariant ==
  ASSUME HttpInvariant, NEW c \in Conn, Inside(c)
  PROVE  HttpInvariant'
  BY InsideKeeps, InsideConn DEF HttpInvariant, Counted, ServeOK, handlers, tunnelSet

-------------------------------------------------------------------------------
(* Admission to, and leaving of, both sets *)

Admission(c) == Enter(c) \/ Leave(c) \/ AddTunnel(c) \/ RemoveTunnel(c)

\* A handler that enters is worked on from then on.
LEMMA EnterWork ==
  ASSUME HttpInvariant, NEW c \in Conn, Enter(c)
  PROVE  c \notin Work /\ Work' = Work \cup {c}
  BY DEF HttpInvariant, ConnOK, ConnTypes, Enter, Work, InHandler

\* A handler that leaves is no longer worked on.
LEMMA LeaveWork ==
  ASSUME HttpInvariant, NEW c \in Conn, Leave(c)
  PROVE  c \in Work /\ Work' = Work \ {c}
  BY DEF HttpInvariant, ConnOK, ConnTypes, Leave, NextRequest, Work, InHandler

\* A tunnel begins and ends within its handler.
LEMMA TunnelWork ==
  ASSUME HttpInvariant, NEW c \in Conn, AddTunnel(c) \/ RemoveTunnel(c)
  PROVE  Work' = Work
  BY DEF HttpInvariant, ConnOK, ConnTypes, AddTunnel, RemoveTunnel, Work, InHandler

\* The counters follow the sets.
LEMMA AdmissionCounted ==
  ASSUME HttpInvariant, NEW c \in Conn, Admission(c)
  PROVE  Counted' /\ handlersActive' \in Nat /\ tunnelsActive' \in Nat
<1>1. Counted'
  <2> USE DEF HttpInvariant, Counted, handlers, tunnelSet
  <2>1. CASE Enter(c)
    <3>1. handlersActive' = handlersActive + 1 /\ UNCHANGED <<tunnels, tunnelsActive>>
      BY <2>1 DEF Enter
    <3>2. IsFiniteSet(Work \cup {c}) /\ Cardinality(Work \cup {c}) = Cardinality(Work) + 1
      BY <2>1, EnterWork, FS_AddElement
    <3> QED
      BY <2>1, <3>1, <3>2, EnterWork
  <2>2. CASE Leave(c)
    BY <2>2, LeaveWork, FS_RemoveElement DEF Leave
  <2>3. CASE AddTunnel(c)
    <3>1. c \notin tunnels
      BY <2>3 DEF AddTunnel, ConnOK, Cared, InTunnel
    <3> QED
      BY <2>3, <3>1, TunnelWork, FS_AddElement DEF AddTunnel
  <2>4. CASE RemoveTunnel(c)
    <3>1. c \in tunnels
      BY <2>4 DEF RemoveTunnel, ConnOK, Cared, InTunnel
    <3> QED
      BY <2>4, <3>1, TunnelWork, FS_RemoveElement DEF RemoveTunnel
  <2> QED
    BY <2>1, <2>2, <2>3, <2>4 DEF Admission
<1> QED
  BY <1>1, FS_CardinalityType DEF Counted

\* Admission leaves Serve, net/http's server and the clients alone.
LEMMA AdmissionKeeps ==
  ASSUME NEW c \in Conn, Admission(c)
  PROVE  UNCHANGED <<ctxDone, serve, result, httpServer, shutDown, accepted, client, handlersClosing, tunnelsClosing>>
  BY DEF Admission, Enter, Leave, AddTunnel, RemoveTunnel, netHttp, handlers, tunnelSet

\* Admission keeps the types.
LEMMA AdmissionTypes ==
  ASSUME HttpInvariant, NEW c \in Conn, Admission(c)
  PROVE  ConnTypes' /\ tunnels' \subseteq Conn
<1> ConnTypes /\ tunnels \subseteq Conn
  BY DEF HttpInvariant, ConnOK, SetTypes
<1> USE DEF ConnTypes, netHttp, tunnelSet
<1>1. CASE Enter(c)
  BY <1>1 DEF Enter
<1>2. CASE Leave(c)
  BY <1>2 DEF Leave, NextRequest
<1>3. CASE AddTunnel(c)
  BY <1>3 DEF AddTunnel
<1>4. CASE RemoveTunnel(c)
  BY <1>4 DEF RemoveTunnel
<1> QED
  BY <1>1, <1>2, <1>3, <1>4 DEF Admission

\* Admission keeps what is known of each connection.
LEMMA AdmissionCares ==
  ASSUME HttpInvariant, NEW c \in Conn, Admission(c), NEW d \in Conn
  PROVE  Cared(d)'
<1> ConnTypes /\ Cared(d) /\ tunnelsClosing \in BOOLEAN
  BY DEF HttpInvariant, ConnOK, ServeTypes
<1> USE DEF ConnTypes, netHttp, tunnelSet, Cared, InTunnel
<1>1. CASE Enter(c)
  BY <1>1 DEF Enter
<1>2. CASE Leave(c)
  BY <1>2 DEF Leave, NextRequest
<1>3. CASE AddTunnel(c)
  BY <1>3 DEF AddTunnel
<1>4. CASE RemoveTunnel(c)
  BY <1>4 DEF RemoveTunnel
<1> QED
  BY <1>1, <1>2, <1>3, <1>4 DEF Admission

\* Admission is of connections that are tracked already.
LEMMA AdmissionAccepted ==
  ASSUME HttpInvariant, NEW c \in Conn, Admission(c), accepted' # NoConn
  PROVE  stage'[accepted'] = "none"
<1> ConnTypes /\ (accepted # NoConn => stage[accepted] = "none") /\ accepted' = accepted
  BY AdmissionKeeps DEF HttpInvariant, ConnOK
<1> USE DEF ConnTypes
<1>1. CASE Enter(c)
  BY <1>1 DEF Enter
<1>2. CASE Leave(c)
  BY <1>2 DEF Leave, NextRequest
<1>3. CASE AddTunnel(c)
  BY <1>3 DEF AddTunnel
<1>4. CASE RemoveTunnel(c)
  BY <1>4 DEF RemoveTunnel
<1> QED
  BY <1>1, <1>2, <1>3, <1>4 DEF Admission

\* Nothing of this is lost.
LEMMA AdmissionConn ==
  ASSUME HttpInvariant, NEW c \in Conn, Admission(c)
  PROVE  ConnOK'
<1>1. ServeTypes'
  BY AdmissionKeeps DEF HttpInvariant, ConnOK, ServeTypes
<1>2. SetTypes'
  BY AdmissionCounted, AdmissionTypes DEF SetTypes
<1> QED
  BY <1>1, <1>2, AdmissionTypes, AdmissionCares, AdmissionAccepted DEF ConnOK

\* Admission keeps the invariant: nobody enters once Serve waits.
LEMMA AdmissionInvariant ==
  ASSUME HttpInvariant, NEW c \in Conn, Admission(c)
  PROVE  HttpInvariant'
<1>1. serve \in {"awaiting tunnels", "returned"} => Work' = {}
  <2>1. ASSUME serve \in {"awaiting tunnels", "returned"}
        PROVE  handlersClosing /\ Work = {}
    BY <2>1 DEF HttpInvariant, ServeOK
  <2>2. CASE Enter(c)
    BY <2>1, <2>2 DEF Enter
  <2>3. CASE Leave(c)
    BY <2>1, <2>3, LeaveWork
  <2>4. CASE AddTunnel(c) \/ RemoveTunnel(c)
    BY <2>1, <2>4, TunnelWork
  <2> QED
    BY <2>2, <2>3, <2>4 DEF Admission
<1>2. ServeOK'
  BY <1>1, AdmissionKeeps DEF HttpInvariant, ServeOK
<1> QED
  BY <1>2, AdmissionCounted, AdmissionConn DEF HttpInvariant

-------------------------------------------------------------------------------
(* Serve, net/http's server and the caller *)

Around == Cancel \/ HttpCloses \/ HttpFails \/ ServeStep \/ UNCHANGED vars

\* It leaves the handlers and both sets alone.
LEMMA AroundKeeps ==
  ASSUME HttpInvariant, Around
  PROVE  UNCHANGED <<stage, handlersActive, tunnelsActive, tunnels, tracked, accepted, client, input>> /\ Work' = Work /\ Counted'
<1>1. UNCHANGED <<stage, handlersActive, tunnelsActive, tunnels, tracked, accepted, client, input>>
  BY DEF Around, Cancel, HttpCloses, HttpFails, ServeStep, SeeResult, SeeCancel, CloseHandlers, CloseTunnels,
         CloseServer, AwaitServer, AwaitHandlers, Return, vars, handlers, tunnelSet, netHttp
<1> QED
  BY <1>1 DEF Work, InHandler, HttpInvariant, Counted

\* It keeps the types of Serve.
LEMMA AroundServeTypes ==
  ASSUME HttpInvariant, Around
  PROVE  ServeTypes'
<1> ServeTypes
  BY DEF HttpInvariant, ConnOK
<1> USE DEF ServeTypes, handlers, tunnelSet, netHttp
<1>1. CASE Cancel \/ HttpCloses \/ HttpFails \/ UNCHANGED vars
  BY <1>1 DEF Cancel, HttpCloses, HttpFails, vars
<1>2. CASE SeeResult \/ SeeCancel
  BY <1>2 DEF SeeResult, SeeCancel
<1>3. CASE CloseHandlers
  BY <1>3 DEF CloseHandlers
<1>4. CASE CloseTunnels
  BY <1>4 DEF CloseTunnels
<1>5. CASE CloseServer
  BY <1>5 DEF CloseServer
<1>6. CASE AwaitServer \/ AwaitHandlers \/ Return
  BY <1>6 DEF AwaitServer, AwaitHandlers, Return
<1> QED
  BY <1>1, <1>2, <1>3, <1>4, <1>5, <1>6 DEF Around, ServeStep

\* It closes connections, and the upstreams of the tunnels.
LEMMA AroundCloses ==
  ASSUME HttpInvariant, Around
  PROVE  /\ closed \subseteq closed' /\ closed' \subseteq Conn
         /\ \/ UNCHANGED <<upstream, tunnelsClosing>>
            \/ /\ tunnels \subseteq closed'
               /\ upstream' = [c \in Conn |-> IF c \in tunnels THEN "closed" ELSE upstream[c]]
<1>1. closed \subseteq Conn /\ tunnels \subseteq Conn /\ tracked \subseteq Conn
  BY DEF HttpInvariant, ConnOK, ConnTypes, SetTypes
<1>2. CASE CloseTunnels
  BY <1>1, <1>2 DEF CloseTunnels
<1>3. CASE CloseServer
  BY <1>1, <1>3 DEF CloseServer, tunnelSet
<1>4. CASE \/ Cancel \/ HttpCloses \/ HttpFails \/ SeeResult \/ SeeCancel \/ CloseHandlers
           \/ AwaitServer \/ AwaitHandlers \/ Return \/ UNCHANGED vars
  <2>1. UNCHANGED <<closed, upstream, tunnelsClosing>>
    BY <1>4 DEF Cancel, HttpCloses, HttpFails, SeeResult, SeeCancel, CloseHandlers, AwaitServer,
                AwaitHandlers, Return, vars, tunnelSet
  <2> QED
    BY <1>1, <2>1
<1> QED
  BY <1>2, <1>3, <1>4 DEF Around, ServeStep

\* Nothing that is known of the connections is lost.
LEMMA AroundConn ==
  ASSUME HttpInvariant, Around
  PROVE  ConnOK'
<1> ConnTypes /\ SetTypes
  BY DEF HttpInvariant, ConnOK
<1>1. ConnTypes' /\ SetTypes'
  BY AroundKeeps, AroundCloses DEF ConnTypes, SetTypes
<1>2. ASSUME NEW c \in Conn PROVE Cared(c)'
  <2> Cared(c)
    BY DEF HttpInvariant, ConnOK
  <2> QED
    BY AroundKeeps, AroundCloses DEF Cared, ConnTypes, InTunnel
<1>3. accepted' # NoConn => stage'[accepted'] = "none"
  BY AroundKeeps DEF HttpInvariant, ConnOK
<1> QED
  BY <1>1, <1>2, <1>3, AroundServeTypes DEF ConnOK

\* It keeps the invariant; Serve waits until no handler is left.
LEMMA AroundInvariant ==
  ASSUME HttpInvariant, Around
  PROVE  HttpInvariant'
<1>1. ServeOK'
  <2> ServeTypes /\ ServeTypes' /\ ServeOK
    BY AroundServeTypes DEF HttpInvariant, ConnOK
  <2> USE AroundKeeps DEF ServeOK, ServeTypes, handlers, netHttp
  <2>1. CASE Cancel \/ HttpCloses \/ HttpFails \/ UNCHANGED vars
    BY <2>1 DEF Cancel, HttpCloses, HttpFails, vars
  <2>2. CASE SeeResult \/ SeeCancel \/ CloseHandlers
    BY <2>2 DEF SeeResult, SeeCancel, CloseHandlers
  <2>3. CASE CloseTunnels \/ CloseServer \/ AwaitServer \/ Return
    BY <2>3 DEF CloseTunnels, CloseServer, AwaitServer, Return
  <2>4. CASE AwaitHandlers
    <3>1. Work = {}
      BY <2>4, FS_EmptySet DEF AwaitHandlers, HttpInvariant, Counted
    <3> QED
      BY <2>4, <3>1 DEF AwaitHandlers
  <2> QED
    BY <2>1, <2>2, <2>3, <2>4 DEF Around, ServeStep
<1> QED
  BY <1>1, AroundKeeps, AroundConn DEF HttpInvariant

-------------------------------------------------------------------------------

\* The disjuncts of Next, as they are treated here.
LEMMA Steps ==
  ASSUME [Next]_vars
  PROVE  Around \/ Track \/ \E c \in Conn : Inside(c) \/ Admission(c)
  BY DEF Next, HandlerStep, DialAborted, RelayClosed, ForwardAborted, Around, Inside, Admission

\* A tracked connection was accepted, so that there is one.
LEMMA TrackInside ==
  ASSUME HttpInvariant, Track
  PROVE  accepted \in Conn /\ Inside(accepted)
  BY DEF HttpInvariant, ConnOK, ConnTypes, Track, Inside

\* No step breaks the invariant.
LEMMA StepInvariant == HttpInvariant /\ [Next]_vars => HttpInvariant'
  BY Steps, TrackInside, AroundInvariant, InsideInvariant, AdmissionInvariant DEF Admission

\* The HTTP proxy is always in a state the invariant describes.
THEOREM HttpInvariantHolds == Spec => []HttpInvariant
  BY InitInvariant, StepInvariant, PTL DEF Spec

\* No early return of a handler leaks the upstream.
THEOREM UpstreamOwned == Spec => []UpstreamHasOwner
<1>1. HttpInvariant => UpstreamHasOwner
  BY Types DEF HttpInvariant, ConnOK, Cared, UpstreamHasOwner
<1> QED
  BY <1>1, HttpInvariantHolds, PTL

\* A shutdown closes both ends of every tunnel, also of one it could not see yet.
THEOREM NoTunnelOpen == Spec => []ClosingLeavesNoTunnelOpen
<1>1. HttpInvariant => ClosingLeavesNoTunnelOpen
  BY DEF HttpInvariant, ConnOK, SetTypes, Cared, ClosingLeavesNoTunnelOpen
<1> QED
  BY <1>1, HttpInvariantHolds, PTL

\* A hijacked connection does not escape Serve.
THEOREM HijackedAccounted == Spec => []HijackedIsAccountedFor
<1>1. HttpInvariant => HijackedIsAccountedFor
  BY DEF HttpInvariant, ConnOK, Cared, HijackedIsAccountedFor
<1> QED
  BY <1>1, HttpInvariantHolds, PTL

-------------------------------------------------------------------------------
(* The refinement *)

\* Entering begins a piece of work, leaving ends one, what lies between stutters.
LEMMA WorkRefines ==
  ASSUME HttpInvariant, NEW c \in Conn, Inside(c) \/ Admission(c)
  PROVE  [Abstract!Next]_(Abstract!vars)
<1> USE DEF Abstract!Next, Abstract!Begin, Abstract!End, Abstract!vars, Work
<1>1. CASE Inside(c)
  BY <1>1, InsideKeeps
<1>2. CASE Enter(c)
  <2>1. UNCHANGED <<ctxDone, result, serve>> /\ serve # "returned"
    BY <1>2 DEF Enter, HttpInvariant, ServeOK
  <2> QED
    BY <1>2, <2>1, EnterWork
<1>3. CASE Leave(c)
  <2>1. UNCHANGED <<ctxDone, result, serve>>
    BY <1>3 DEF Leave
  <2> QED
    BY <1>3, <2>1, LeaveWork
<1>4. CASE AddTunnel(c) \/ RemoveTunnel(c)
  <2>1. UNCHANGED <<ctxDone, result, serve>>
    BY <1>4 DEF AddTunnel, RemoveTunnel
  <2> QED
    BY <1>4, <2>1, TunnelWork
<1> QED
  BY <1>1, <1>2, <1>3, <1>4 DEF Admission

\* Serve returns what it has, without work left, or stutters.
LEMMA ServeRefines ==
  ASSUME HttpInvariant, Around
  PROVE  [Abstract!Next]_(Abstract!vars)
<1> USE AroundKeeps DEF Abstract!Next, Abstract!vars, Work
<1>1. CASE Cancel
  BY <1>1 DEF Cancel, Abstract!Cancel
<1>2. CASE Return
  BY <1>2 DEF Return, Abstract!Return, HttpInvariant, ServeOK
<1>3. CASE \/ HttpCloses \/ HttpFails \/ SeeResult \/ SeeCancel \/ CloseHandlers \/ CloseTunnels
           \/ CloseServer \/ AwaitServer \/ AwaitHandlers \/ UNCHANGED vars
  <2>1. UNCHANGED <<ctxDone, result>> /\ (serve = "returned" <=> serve' = "returned")
    BY <1>3 DEF HttpCloses, HttpFails, SeeResult, SeeCancel, CloseHandlers, CloseTunnels,
                CloseServer, AwaitServer, AwaitHandlers, vars
  <2> QED
    BY <2>1
<1> QED
  BY <1>1, <1>2, <1>3 DEF Around, ServeStep

\* The HTTP proxy is a Service: it returns with no handler left, and nil only
\* because its context was canceled.
THEOREM HttpImplementsService == Spec => ImplementsService
<1>1. Init => Abstract!Init
  BY DEF Init, Abstract!Init, InHandler
<1>2. HttpInvariant /\ [Next]_vars => [Abstract!Next]_(Abstract!vars)
  BY Steps, TrackInside, WorkRefines, ServeRefines
<1> QED
  BY <1>1, <1>2, HttpInvariantHolds, PTL DEF Spec, ImplementsService, Abstract!Spec
===============================================================================
