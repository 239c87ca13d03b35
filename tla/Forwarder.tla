------------------------------- MODULE Forwarder -------------------------------
(***************************************************************************)
(* namespace.forwarder: inside the namespace, it accepts the command's TCP *)
(* connections to a proxy address and relays each of them to the proxy's   *)
(* Unix socket outside.  The copying itself is module Relay, of which this *)
(* module uses that a canceled context and the closing of both connections *)
(* end it.  Unlike the proxies, the forwarder keeps no closing flag.       *)
(***************************************************************************)
EXTENDS Naturals

CONSTANT Conn  \* connections of the command

VARIABLES
  ctxDone,      \* groupCtx is canceled
  listening,    \* the listener is open
  serve,        \* where Serve stands
  acceptErr,    \* the error of Accept: none, closed (net.ErrClosed) or failed
  result,       \* what Serve returned
  watcher,      \* where the watching goroutine stands
  waitGroup,    \* the counter of waitGroup
  connections,  \* the clients of forwarder.connections, each with its outer
  forward,      \* where the forward goroutine of a connection stands
  client,       \* the connection to the command
  outer         \* the connection to the proxy's socket

loop == <<listening, serve, acceptErr, result, watcher>>
vars == <<ctxDone, loop, waitGroup, connections, forward, client, outer>>

Init ==
  /\ ctxDone = FALSE
  /\ listening = TRUE
  /\ serve = "accepting"
  /\ acceptErr = "none"
  /\ result = "none"
  /\ watcher = "watching"
  /\ waitGroup = 0
  /\ connections = {}
  /\ forward = [c \in Conn |-> "none"]
  /\ client = [c \in Conn |-> "absent"]
  /\ outer = [c \in Conn |-> "absent"]

Cancel ==
  /\ ~ctxDone
  /\ ctxDone' = TRUE
  /\ UNCHANGED <<loop, waitGroup, connections, forward, client, outer>>

-------------------------------------------------------------------------------
(* Serve *)

\* Accept, waitGroup.Add, go forward
Accept(c) ==
  /\ serve = "accepting" /\ listening /\ forward[c] = "none"
  /\ waitGroup' = waitGroup + 1
  /\ forward' = [forward EXCEPT ![c] = "dialling"]
  /\ client' = [client EXCEPT ![c] = "open"]
  /\ UNCHANGED <<ctxDone, loop, connections, outer>>

AcceptFails ==
  /\ serve = "accepting"
  /\ acceptErr' = IF listening THEN "failed" ELSE "closed"
  /\ serve' = "closing"
  /\ UNCHANGED <<ctxDone, listening, result, watcher, waitGroup, connections, forward, client, outer>>

\* closeAll
CloseAll ==
  /\ client' = [c \in Conn |-> IF c \in connections THEN "closed" ELSE client[c]]
  /\ outer' = [c \in Conn |-> IF c \in connections THEN "closed" ELSE outer[c]]
  /\ UNCHANGED <<waitGroup, connections, forward>>

ServeCloses ==
  /\ serve = "closing"
  /\ CloseAll
  /\ serve' = "waiting"
  /\ UNCHANGED <<ctxDone, listening, acceptErr, result, watcher>>

\* Mutant: the error of Accept is not told from an orderly end.
ServeWaitsNil ==
  /\ serve = "waiting" /\ waitGroup = 0
  /\ result' = "nil"
  /\ serve' = "done"
  /\ UNCHANGED <<ctxDone, listening, acceptErr, watcher, waitGroup, connections, forward, client, outer>>

\* waitGroup.Wait, then the result; ctx.Err() is read only now.
ServeWaits ==
  /\ serve = "waiting" /\ waitGroup = 0
  /\ result' = IF ctxDone \/ acceptErr = "closed" THEN "nil" ELSE "error"
  /\ serve' = "done"
  /\ UNCHANGED <<ctxDone, listening, acceptErr, watcher, waitGroup, connections, forward, client, outer>>

\* <-shutdownComplete
ServeReturns ==
  /\ serve = "done" /\ watcher = "done"
  /\ serve' = "returned"
  /\ UNCHANGED <<ctxDone, listening, acceptErr, result, watcher, waitGroup, connections, forward, client, outer>>

ServeStep == (\E c \in Conn : Accept(c)) \/ ServeCloses \/ ServeWaits \/ ServeReturns

WatcherSeesCancel ==
  /\ watcher = "watching" /\ ctxDone
  /\ listening' = FALSE
  /\ watcher' = "closing"
  /\ UNCHANGED <<ctxDone, serve, acceptErr, result, waitGroup, connections, forward, client, outer>>

WatcherCloses ==
  /\ watcher = "closing"
  /\ CloseAll
  /\ watcher' = "done"
  /\ UNCHANGED <<ctxDone, listening, serve, acceptErr, result>>

WatcherStops ==
  /\ watcher = "watching" /\ serve = "done"
  /\ watcher' = "done"
  /\ UNCHANGED <<ctxDone, listening, serve, acceptErr, result, waitGroup, connections, forward, client, outer>>

WatcherStep == WatcherSeesCancel \/ WatcherCloses \/ WatcherStops

-------------------------------------------------------------------------------
(* forward *)

Moves(c, from, to) ==
  /\ forward[c] = from
  /\ forward' = [forward EXCEPT ![c] = to]

\* DialContext with the group's context fails at once when it is canceled.
DialSucceeds(c) ==
  /\ ~ctxDone
  /\ Moves(c, "dialling", "adding")
  /\ outer' = [outer EXCEPT ![c] = "open"]
  /\ UNCHANGED <<ctxDone, loop, waitGroup, connections, client>>

DialFails(c) ==
  /\ Moves(c, "dialling", "closing")
  /\ UNCHANGED <<ctxDone, loop, waitGroup, connections, client, outer>>

Add(c) ==
  /\ Moves(c, "adding", "relaying")
  /\ connections' = connections \cup {c}
  /\ UNCHANGED <<ctxDone, loop, waitGroup, client, outer>>

RelayOver(c) ==
  /\ Moves(c, "relaying", "removing")
  /\ UNCHANGED <<ctxDone, loop, waitGroup, connections, client, outer>>

\* Mutant: the relay does not get the group's context.
RelayIgnoresContext(c) ==
  /\ client[c] = "closed" /\ outer[c] = "closed"
  /\ RelayOver(c)

\* Relay!StoppedRelayEnds
RelayEnds(c) ==
  /\ ctxDone \/ (client[c] = "closed" /\ outer[c] = "closed")
  /\ RelayOver(c)

Remove(c) ==
  /\ Moves(c, "removing", "closing")
  /\ connections' = connections \ {c}
  /\ UNCHANGED <<ctxDone, loop, waitGroup, client, outer>>

\* Mutant: a failed dial leaves the command's connection open.
CloseDialled(c) ==
  /\ Moves(c, "closing", "ending")
  /\ client' = [client EXCEPT ![c] = IF outer[c] = "absent" THEN @ ELSE "closed"]
  /\ outer' = [outer EXCEPT ![c] = IF @ = "absent" THEN @ ELSE "closed"]
  /\ UNCHANGED <<ctxDone, loop, waitGroup, connections>>

\* The deferred Close of outer, if it was dialled, and of the client.
Close(c) ==
  /\ Moves(c, "closing", "ending")
  /\ client' = [client EXCEPT ![c] = "closed"]
  /\ outer' = [outer EXCEPT ![c] = IF @ = "absent" THEN @ ELSE "closed"]
  /\ UNCHANGED <<ctxDone, loop, waitGroup, connections>>

\* waitGroup.Done
Done(c) ==
  /\ Moves(c, "ending", "gone")
  /\ waitGroup' = waitGroup - 1
  /\ UNCHANGED <<ctxDone, loop, connections, client, outer>>

ForwardStep(c) ==
  \/ DialSucceeds(c) \/ DialFails(c) \/ Add(c)
  \/ RelayEnds(c) \/ Remove(c) \/ Close(c) \/ Done(c)

-------------------------------------------------------------------------------

Next ==
  \/ Cancel \/ AcceptFails \/ ServeStep \/ WatcherStep
  \/ \E c \in Conn : ForwardStep(c) \/ RelayOver(c)

Spec == Init /\ [][Next]_vars

\* The goroutines are scheduled; Accept returns when the listener is closed.
\* Nothing is assumed of the command or the proxy: a relay need not end by
\* itself.
FairSpec ==
  /\ Spec
  /\ WF_vars(ServeStep) /\ WF_vars(~listening /\ AcceptFails) /\ WF_vars(WatcherStep)
  /\ \A c \in Conn : WF_vars(ForwardStep(c))

-------------------------------------------------------------------------------
(* Properties *)

TypeOK ==
  /\ ctxDone \in BOOLEAN
  /\ listening \in BOOLEAN
  /\ serve \in {"accepting", "closing", "waiting", "done", "returned"}
  /\ acceptErr \in {"none", "closed", "failed"}
  /\ result \in {"none", "nil", "error"}
  /\ watcher \in {"watching", "closing", "done"}
  /\ waitGroup \in Nat
  /\ connections \subseteq Conn
  /\ forward \in [Conn -> {"none", "dialling", "adding", "relaying", "removing",
                           "closing", "ending", "gone"}]
  /\ client \in [Conn -> {"absent", "open", "closed"}]
  /\ outer \in [Conn -> {"absent", "open", "closed"}]

Working(c) == forward[c] \notin {"none", "gone"}

\* When a forward goroutine is done, both of its connections are closed; and
\* when Serve returns, all of them are done.
NothingOutlivesServe ==
  /\ TypeOK
  /\ \A c \in Conn :
       /\ forward[c] = "gone" => client[c] = "closed" /\ outer[c] # "open"
       /\ serve = "returned" => ~Working(c)

\* The forwarder returns once its context is canceled, also for a connection
\* that was still dialling while closeAll ran and was registered only then.
ServeReturnsAfterCancel == ctxDone ~> serve = "returned"

Phase == IF serve = "returned" THEN "returned" ELSE "serving"

Abstract == INSTANCE Service WITH
  phase <- Phase,
  result <- IF serve = "returned" THEN result ELSE "none",
  work <- {c \in Conn : Working(c)}

\* The forwarder is a Service: it accepts no work after it returned, returns
\* with none left, and returns nil only because its context was canceled.
ImplementsService == Abstract!Spec

===============================================================================
