------------------------------- MODULE ProxyHttp -------------------------------
(***************************************************************************)
(* proxyhttp.Server: Serve and its shutdown, the activitySet of handlers,  *)
(* the connectionSet of tunnels, and one handler goroutine per request.    *)
(* The net/http server below it is external: it accepts connections,       *)
(* tracks those that are not hijacked and closes the tracked ones in       *)
(* Close.  Close cancels no context: what cancels that of a request is the *)
(* background read of its connection, which begins when the body of the    *)
(* request has been consumed and ends with the first byte that follows it. *)
(* The copying inside a tunnel is module Relay.                            *)
(***************************************************************************)
EXTENDS Naturals

CONSTANT Conn  \* client connections

VARIABLES
  ctxDone,        \* the context of Serve is canceled
  serve,          \* where Serve stands
  result,         \* what Serve returned
  httpServer,     \* net/http: accepting, closed (ErrServerClosed) or failed
  shutDown,       \* net/http: Close was called
  accepted,       \* net/http: connection accepted and not yet tracked
  tracked,        \* net/http: connections Close closes
  client,         \* the client's end of a connection
  closed,         \* connections the proxy closed
  stage,          \* where the goroutine that serves the connection stands
  upstream,       \* the connection Dial returned
  input,          \* net/http: what is next to be read from a connection in a request
  handlersClosing, handlersActive,  \* activitySet
  tunnelsClosing, tunnelsActive,    \* connectionSet
  tunnels         \* connectionSet.connections, by the client's connection

handlers == <<handlersClosing, handlersActive>>
tunnelSet == <<tunnelsClosing, tunnelsActive, tunnels>>
netHttp == <<httpServer, shutDown, accepted, tracked>>
vars == <<ctxDone, serve, result, netHttp, client, closed, stage, upstream, input, handlers, tunnelSet>>

NoConn == "none"

Init ==
  /\ ctxDone = FALSE
  /\ serve = "select"
  /\ result = "none"
  /\ httpServer = "accepting"
  /\ shutDown = FALSE
  /\ accepted = NoConn
  /\ tracked = {}
  /\ client = [c \in Conn |-> "absent"]
  /\ closed = {}
  /\ stage = [c \in Conn |-> "none"]
  /\ upstream = [c \in Conn |-> "absent"]
  /\ input = [c \in Conn |-> "none"]
  /\ handlersClosing = FALSE /\ handlersActive = 0
  /\ tunnelsClosing = FALSE /\ tunnelsActive = 0
  /\ tunnels = {}

-------------------------------------------------------------------------------
(* The context and the clients *)

Cancel ==
  /\ ~ctxDone
  /\ ctxDone' = TRUE
  /\ UNCHANGED <<serve, result, netHttp, client, closed, stage, upstream, input, handlers, tunnelSet>>

ClientConnects(c) ==
  /\ client[c] = "absent" /\ ~shutDown
  /\ client' = [client EXCEPT ![c] = "live"]
  /\ UNCHANGED <<ctxDone, serve, result, netHttp, closed, stage, upstream, input, handlers, tunnelSet>>

ClientLeaves(c) ==
  /\ client[c] = "live"
  /\ client' = [client EXCEPT ![c] = "gone"]
  /\ UNCHANGED <<ctxDone, serve, result, netHttp, closed, stage, upstream, input, handlers, tunnelSet>>

Reachable(c) == client[c] = "live" /\ c \notin closed

\* The context of the request: the background read fails with its connection.
Canceled(c) == input[c] = "watched" /\ ~Reachable(c)

-------------------------------------------------------------------------------
(* net/http *)

\* Server.Serve between Accept and trackConn, which Close may come between.
Accept(c) ==
  /\ httpServer = "accepting" /\ ~shutDown /\ accepted = NoConn
  /\ client[c] # "absent" /\ stage[c] = "none"
  /\ accepted' = c
  /\ UNCHANGED <<ctxDone, serve, result, httpServer, shutDown, tracked, client, closed, stage, upstream, input, handlers, tunnelSet>>

Track ==
  /\ accepted # NoConn
  /\ tracked' = tracked \cup {accepted}
  /\ stage' = [stage EXCEPT ![accepted] = "idle"]
  /\ accepted' = NoConn
  /\ UNCHANGED <<ctxDone, serve, result, httpServer, shutDown, client, closed, upstream, input, handlers, tunnelSet>>

\* Server.Serve returns because of Close.
HttpCloses ==
  /\ httpServer = "accepting" /\ shutDown /\ accepted = NoConn
  /\ httpServer' = "closed"
  /\ UNCHANGED <<ctxDone, serve, result, shutDown, accepted, tracked, client, closed, stage, upstream, input, handlers, tunnelSet>>

\* Accept fails for good; net/http repeats it after a temporary error.
HttpFails ==
  /\ httpServer = "accepting" /\ ~shutDown /\ accepted = NoConn
  /\ httpServer' = "failed"
  /\ UNCHANGED <<ctxDone, serve, result, shutDown, accepted, tracked, client, closed, stage, upstream, input, handlers, tunnelSet>>

\* The handler starts with the request's body still to be read, or there is none
\* and the background read watches the connection.
RequestArrives(c) ==
  /\ stage[c] = "idle" /\ Reachable(c)
  /\ stage' = [stage EXCEPT ![c] = "entering"]
  /\ \E next \in {"body", "watched"} : input' = [input EXCEPT ![c] = next]
  /\ UNCHANGED <<ctxDone, serve, result, netHttp, client, closed, upstream, handlers, tunnelSet>>

\* A byte behind the request, of the next one or of the tunnel it asks for, ends
\* the background read: nothing watches the connection any longer.
ClientSendsMore(c) ==
  /\ input[c] = "watched" /\ Reachable(c)
  /\ input' = [input EXCEPT ![c] = "more"]
  /\ UNCHANGED <<ctxDone, serve, result, netHttp, client, closed, stage, upstream, handlers, tunnelSet>>

\* The reverse proxy has passed the whole body on, and the background read begins.
BodyConsumed(c) ==
  /\ stage[c] = "forwarding" /\ input[c] = "body" /\ c \notin closed
  /\ input' = [input EXCEPT ![c] = "watched"]
  /\ UNCHANGED <<ctxDone, serve, result, netHttp, client, closed, stage, upstream, handlers, tunnelSet>>

\* The connection has gone, or its client sends no request in time.
IdleEnds(c) ==
  /\ stage[c] = "idle"
  /\ stage' = [stage EXCEPT ![c] = "over"]
  /\ closed' = closed \cup {c}
  /\ tracked' = tracked \ {c}
  /\ UNCHANGED <<ctxDone, serve, result, httpServer, shutDown, accepted, client, upstream, input, handlers, tunnelSet>>

-------------------------------------------------------------------------------
(* Serve *)

SeeResult ==
  /\ serve = "select" /\ httpServer # "accepting"
  /\ serve' = "failed"
  /\ UNCHANGED <<ctxDone, result, netHttp, client, closed, stage, upstream, input, handlers, tunnelSet>>

SeeCancel ==
  /\ serve = "select" /\ ctxDone
  /\ serve' = "canceled"
  /\ UNCHANGED <<ctxDone, result, netHttp, client, closed, stage, upstream, input, handlers, tunnelSet>>

\* Mutant: handlers go on being admitted.
CloseHandlersNot ==
  /\ serve \in {"failed", "canceled"}
  /\ serve' = IF serve = "failed" THEN "closing tunnels" ELSE "closing all"
  /\ UNCHANGED <<ctxDone, result, netHttp, client, closed, stage, upstream, input, handlers, tunnelSet>>

\* handlers.close
CloseHandlers ==
  /\ serve \in {"failed", "canceled"}
  /\ handlersClosing' = TRUE
  /\ serve' = IF serve = "failed" THEN "closing tunnels" ELSE "closing all"
  /\ UNCHANGED <<ctxDone, result, netHttp, client, closed, stage, upstream, input, handlersActive, tunnelSet>>

\* Mutant: the clients of the tunnels are closed, the upstreams are not.
CloseTunnelClients ==
  /\ serve \in {"closing tunnels", "closing all"}
  /\ tunnelsClosing' = TRUE
  /\ closed' = closed \cup tunnels
  /\ serve' = IF serve = "closing tunnels" THEN "awaiting handlers" ELSE "closing server"
  /\ UNCHANGED <<ctxDone, result, netHttp, client, stage, upstream, input, handlers, tunnelsActive, tunnels>>

\* tunnels.closeAll: both connections of every tunnel.
CloseTunnels ==
  /\ serve \in {"closing tunnels", "closing all"}
  /\ tunnelsClosing' = TRUE
  /\ closed' = closed \cup tunnels
  /\ upstream' = [c \in Conn |-> IF c \in tunnels THEN "closed" ELSE upstream[c]]
  /\ serve' = IF serve = "closing tunnels" THEN "awaiting handlers" ELSE "closing server"
  /\ UNCHANGED <<ctxDone, result, netHttp, client, stage, input, handlers, tunnelsActive, tunnels>>

\* httpServer.Close: the listener and every tracked connection.
CloseServer ==
  /\ serve = "closing server"
  /\ shutDown' = TRUE
  /\ closed' = closed \cup tracked
  /\ serve' = "awaiting server"
  /\ UNCHANGED <<ctxDone, result, httpServer, accepted, tracked, client, stage, upstream, input, handlers, tunnelSet>>

AwaitServer ==
  /\ serve = "awaiting server" /\ httpServer # "accepting"
  /\ serve' = "awaiting handlers"
  /\ UNCHANGED <<ctxDone, result, netHttp, client, closed, stage, upstream, input, handlers, tunnelSet>>

AwaitHandlers ==
  /\ serve = "awaiting handlers" /\ handlersActive = 0
  /\ serve' = "awaiting tunnels"
  /\ UNCHANGED <<ctxDone, result, netHttp, client, closed, stage, upstream, input, handlers, tunnelSet>>

Return ==
  /\ serve = "awaiting tunnels" /\ tunnelsActive = 0
  /\ serve' = "returned"
  /\ result' = IF httpServer = "closed" THEN "nil" ELSE "error"
  /\ UNCHANGED <<ctxDone, netHttp, client, closed, stage, upstream, input, handlers, tunnelSet>>

ServeStep ==
  \/ SeeResult \/ SeeCancel \/ CloseHandlers \/ CloseTunnels \/ CloseServer
  \/ AwaitServer \/ AwaitHandlers \/ Return

-------------------------------------------------------------------------------
(* ServeHTTP *)

\* net/http goes on with a connection whose handler returned, unless it shuts
\* down, the connection is no longer usable, or too much of a body is left to skip.
NextRequest(c) ==
  /\ input' = [input EXCEPT ![c] = "none"]
  /\ \/ /\ shutDown \/ c \in closed \/ client[c] = "gone" \/ input[c] = "body"
        /\ stage' = [stage EXCEPT ![c] = "over"]
        /\ closed' = closed \cup {c}
        /\ tracked' = tracked \ {c}
     \/ /\ ~shutDown /\ c \notin closed /\ client[c] # "gone"
        /\ stage' = [stage EXCEPT ![c] = "idle"]
        /\ UNCHANGED <<closed, tracked>>

\* handlers.add admits the request.
Enter(c) ==
  /\ stage[c] = "entering" /\ ~handlersClosing
  /\ handlersActive' = handlersActive + 1
  /\ stage' = [stage EXCEPT ![c] = "dialling"]
  /\ UNCHANGED <<ctxDone, serve, result, netHttp, client, closed, upstream, input, handlersClosing, tunnelSet>>

\* handlers.add refuses it: 503.
Refuse(c) ==
  /\ stage[c] = "entering" /\ handlersClosing
  /\ NextRequest(c)
  /\ UNCHANGED <<ctxDone, serve, result, httpServer, shutDown, accepted, client, upstream, handlers, tunnelSet>>

\* Connector.Dial for a CONNECT request, or for a plain HTTP request.
DialSucceeds(c) ==
  /\ stage[c] = "dialling"
  /\ upstream' = [upstream EXCEPT ![c] = "open"]
  /\ \E next \in {"hijacking", "forwarding"} : stage' = [stage EXCEPT ![c] = next]
  /\ UNCHANGED <<ctxDone, serve, result, netHttp, client, closed, input, handlers, tunnelSet>>

\* A malformed target (400), a denied one (403), a failed dial (502), or the
\* context of the request.
DialFails(c) ==
  /\ stage[c] = "dialling"
  /\ stage' = [stage EXCEPT ![c] = "leaving"]
  /\ UNCHANGED <<ctxDone, serve, result, netHttp, client, closed, upstream, input, handlers, tunnelSet>>

\* From here net/http neither tracks nor closes the connection, nor does it read it.
Hijack(c) ==
  /\ stage[c] = "hijacking"
  /\ tracked' = tracked \ {c}
  /\ stage' = [stage EXCEPT ![c] = "adding"]
  /\ input' = [input EXCEPT ![c] = "none"]
  /\ UNCHANGED <<ctxDone, serve, result, httpServer, shutDown, accepted, client, closed, upstream, handlers, tunnelSet>>

\* Mutant: the upstream is left open.
HijackFailsOpen(c) ==
  /\ stage[c] = "hijacking"
  /\ stage' = [stage EXCEPT ![c] = "leaving"]
  /\ UNCHANGED <<ctxDone, serve, result, netHttp, client, closed, upstream, input, handlers, tunnelSet>>

HijackFails(c) ==
  /\ stage[c] = "hijacking"
  /\ upstream' = [upstream EXCEPT ![c] = "closed"]
  /\ stage' = [stage EXCEPT ![c] = "leaving"]
  /\ UNCHANGED <<ctxDone, serve, result, netHttp, client, closed, input, handlers, tunnelSet>>

\* Mutant: tunnels.add does not look at closing.
AddTunnelAlways(c) ==
  /\ stage[c] = "adding"
  /\ tunnels' = tunnels \cup {c}
  /\ tunnelsActive' = tunnelsActive + 1
  /\ stage' = [stage EXCEPT ![c] = "confirming"]
  /\ UNCHANGED <<ctxDone, serve, result, netHttp, client, closed, upstream, input, handlers, tunnelsClosing>>

\* tunnels.add; a refused tunnel is closed at both ends.
AddTunnel(c) ==
  /\ stage[c] = "adding"
  /\ IF tunnelsClosing
     THEN /\ stage' = [stage EXCEPT ![c] = "leaving"]
          /\ closed' = closed \cup {c}
          /\ upstream' = [upstream EXCEPT ![c] = "closed"]
          /\ UNCHANGED <<tunnels, tunnelsActive>>
     ELSE /\ tunnels' = tunnels \cup {c}
          /\ tunnelsActive' = tunnelsActive + 1
          /\ stage' = [stage EXCEPT ![c] = "confirming"]
          /\ UNCHANGED <<closed, upstream>>
  /\ UNCHANGED <<ctxDone, serve, result, netHttp, client, input, handlers, tunnelsClosing>>

\* 200 Connection Established, which fails if the client is gone or closed.
Confirm(c) ==
  /\ stage[c] = "confirming"
  /\ stage' = [stage EXCEPT ![c] = IF Reachable(c) THEN "relaying" ELSE "dropping"]
  /\ UNCHANGED <<ctxDone, serve, result, netHttp, client, closed, upstream, input, handlers, tunnelSet>>

RelayOver(c) ==
  /\ stage[c] = "relaying"
  /\ stage' = [stage EXCEPT ![c] = "dropping"]
  /\ UNCHANGED <<ctxDone, serve, result, netHttp, client, closed, upstream, input, handlers, tunnelSet>>

\* Relay!StoppedRelayEnds
RelayClosed(c) == c \in closed /\ upstream[c] = "closed" /\ RelayOver(c)

\* Mutant: the hijacked connection is left to net/http to close.
DropUpstream(c) ==
  /\ stage[c] = "dropping"
  /\ upstream' = [upstream EXCEPT ![c] = "closed"]
  /\ stage' = [stage EXCEPT ![c] = "removing"]
  /\ UNCHANGED <<ctxDone, serve, result, netHttp, client, closed, input, handlers, tunnelSet>>

\* The deferred calls, upstream.Close, client.Close and tunnels.remove.
Drop(c) ==
  /\ stage[c] = "dropping"
  /\ upstream' = [upstream EXCEPT ![c] = "closed"]
  /\ closed' = closed \cup {c}
  /\ stage' = [stage EXCEPT ![c] = "removing"]
  /\ UNCHANGED <<ctxDone, serve, result, netHttp, client, input, handlers, tunnelSet>>

RemoveTunnel(c) ==
  /\ stage[c] = "removing"
  /\ tunnels' = tunnels \ {c}
  /\ tunnelsActive' = tunnelsActive - 1
  /\ stage' = [stage EXCEPT ![c] = "leaving"]
  /\ UNCHANGED <<ctxDone, serve, result, netHttp, client, closed, upstream, input, handlers, tunnelsClosing>>

\* servePlainHTTP: the reverse proxy over the one prepared connection, which is
\* closed in the end.
ForwardOver(c) ==
  /\ stage[c] = "forwarding"
  /\ upstream' = [upstream EXCEPT ![c] = "closed"]
  /\ stage' = [stage EXCEPT ![c] = "leaving"]
  /\ UNCHANGED <<ctxDone, serve, result, netHttp, client, closed, input, handlers, tunnelSet>>

\* The background read has failed: the context of the request ends the round trip.
ForwardAborted(c) == Canceled(c) /\ ForwardOver(c)

\* handlers.done
Leave(c) ==
  /\ stage[c] = "leaving"
  /\ handlersActive' = handlersActive - 1
  /\ NextRequest(c)
  /\ UNCHANGED <<ctxDone, serve, result, httpServer, shutDown, accepted, client, upstream, handlersClosing, tunnelSet>>

\* ... or the dial.
DialAborted(c) == Canceled(c) /\ DialFails(c)

\* What a handler does by itself, and what the context of its request sees to.
HandlerStep(c) ==
  \/ Enter(c) \/ Refuse(c) \/ DialAborted(c)
  \/ Hijack(c) \/ HijackFails(c) \/ AddTunnel(c) \/ Confirm(c)
  \/ RelayClosed(c) \/ Drop(c) \/ RemoveTunnel(c)
  \/ ForwardAborted(c) \/ Leave(c)

-------------------------------------------------------------------------------

Next ==
  \/ Cancel \/ Track \/ HttpCloses \/ HttpFails \/ ServeStep
  \/ \E c \in Conn :
       \/ ClientConnects(c) \/ ClientLeaves(c)
       \/ Accept(c) \/ RequestArrives(c) \/ ClientSendsMore(c) \/ BodyConsumed(c) \/ IdleEnds(c)
       \/ HandlerStep(c) \/ DialSucceeds(c) \/ DialFails(c) \/ RelayOver(c) \/ ForwardOver(c)

Spec == Init /\ [][Next]_vars

\* The goroutines are scheduled, and net/http cancels the context of a request
\* when the background read of its connection fails.
FairSpec ==
  /\ Spec
  /\ WF_vars(ServeStep) /\ WF_vars(Track) /\ WF_vars(HttpCloses)
  /\ \A c \in Conn : WF_vars(HandlerStep(c))

\* Of the hosts outside, for the requests nobody watches, those with an unread body
\* and those with a byte behind them, once their connection is closed: no outer
\* SOCKS proxy keeps their dial waiting for ever (every other route has a timeout of
\* its own, EnvironmentRouter!DialEnds), ...
UnwatchedDialsEnd == \A c \in Conn : WF_vars(~Reachable(c) /\ ~Canceled(c) /\ DialFails(c))

\* ... and no upstream leaves off for ever reading their body or sending its answer.
UnwatchedForwardsEnd == \A c \in Conn : WF_vars(~Reachable(c) /\ ~Canceled(c) /\ ForwardOver(c))

FairUpstreamsSpec == FairSpec /\ UnwatchedDialsEnd /\ UnwatchedForwardsEnd

-------------------------------------------------------------------------------
(* Properties *)

TypeOK ==
  /\ ctxDone \in BOOLEAN
  /\ serve \in {"select", "failed", "canceled", "closing tunnels", "closing all",
                "closing server", "awaiting server", "awaiting handlers",
                "awaiting tunnels", "returned"}
  /\ result \in {"none", "nil", "error"}
  /\ httpServer \in {"accepting", "closed", "failed"}
  /\ shutDown \in BOOLEAN
  /\ accepted \in Conn \cup {NoConn}
  /\ tracked \subseteq Conn
  /\ client \in [Conn -> {"absent", "live", "gone"}]
  /\ closed \subseteq Conn
  /\ stage \in [Conn -> {"none", "idle", "entering", "dialling", "hijacking", "adding",
                         "confirming", "relaying", "dropping", "removing", "forwarding",
                         "leaving", "over"}]
  /\ upstream \in [Conn -> {"absent", "open", "closed"}]
  /\ input \in [Conn -> {"none", "body", "watched", "more"}]
  /\ handlersClosing \in BOOLEAN /\ handlersActive \in Nat
  /\ tunnelsClosing \in BOOLEAN /\ tunnelsActive \in Nat
  /\ tunnels \subseteq Conn

InHandler(c) == stage[c] \notin {"none", "idle", "entering", "over"}

\* An open upstream belongs to a handler that is going to close it: none of the
\* early returns after Dial leaks the connection.
UpstreamHasOwner ==
  /\ TypeOK
  /\ \A c \in Conn :
       upstream[c] = "open" =>
         stage[c] \in {"hijacking", "adding", "confirming", "relaying", "dropping", "forwarding"}

\* Once the tunnels are closing, both ends of every tunnel are closed, also of
\* one that net/http already handed over (hijacked) and tunnels.add had not seen.
ClosingLeavesNoTunnelOpen ==
  tunnelsClosing => \A c \in tunnels : c \in closed /\ upstream[c] = "closed"

\* A hijacked connection cannot escape Serve: until its goroutine closed it, it
\* is tracked by net/http or by the tunnels, or its handler is yet to ask.
HijackedIsAccountedFor ==
  \A c \in Conn :
    stage[c] \notin {"none", "over"} =>
      c \in tracked \cup tunnels \cup closed \/ stage[c] = "adding"

\* After a cancellation Serve returns, if the dials and round trips that no context
\* ends do end by themselves (UnwatchedDialsEnd, UnwatchedForwardsEnd); unless the
\* HTTP server failed first, when Serve no longer looks at the context and waits for
\* its plain requests to end by themselves.
CancelEndsServe == ctxDone ~> (serve = "returned" \/ httpServer = "failed")

Abstract == INSTANCE Service WITH
  phase <- IF serve = "returned" THEN "returned" ELSE "serving",
  work <- {c \in Conn : InHandler(c)}

\* The HTTP proxy is a Service: no request is admitted after Serve returned, it
\* returns with no handler left, and nil only after a cancellation.
ImplementsService == Abstract!Spec

===============================================================================
