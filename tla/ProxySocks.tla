------------------------------ MODULE ProxySocks ------------------------------
(***************************************************************************)
(* proxysocks.Server: its accept loop, the goroutine that watches the      *)
(* context, the set of connections with its closing flag and its wait, and *)
(* one handler goroutine per connection.  The handler is armon/go-socks5's *)
(* ServeConn (external), modelled by what the server relies on: a greeting *)
(* and its answer, a request, a dial with a context that is never          *)
(* canceled, the reply, and two copying goroutines that pass half-closes   *)
(* on.  What the handler writes goes through handshakeConnection.Write.    *)
(*                                                                         *)
(* Clients are the processes in the namespace, behind the forwarder;       *)
(* targets are remote hosts.  Both end or reset their side when they like. *)
(***************************************************************************)
EXTENDS Naturals

CONSTANT Conn  \* client connections

VARIABLES
  ctxDone,     \* the context is canceled
  listening,   \* the listener is open
  serve,       \* where Serve stands
  current,     \* the connection Serve has accepted and not yet added
  acceptErr,   \* the error of Accept: none, closed (net.ErrClosed) or failed
  result,      \* what Serve returned
  watcher,     \* where the watching goroutine stands
  closing,     \* server.closing
  active,      \* server.active
  connections, \* server.connections
  handler,     \* where the handler of a connection stands
  client,      \* the client's end of the connection
  target,      \* the target's end of the connection that was dialled
  closed,      \* connections whose client side was closed by the proxy
  armed,       \* connections with the handshake deadline set
  writes,      \* handshakeConnection.writes; the tunnel's own are not counted on
  upload,      \* the goroutine copying from client to target
  download     \* the goroutine copying from target to client

handshake == <<armed, writes>>
server == <<closing, active, connections>>
loop == <<serve, current, acceptErr, result>>
tunnel == <<upload, download>>
vars == <<ctxDone, listening, loop, watcher, server, handler, client, target, closed, handshake, tunnel>>

NoConn == "none"

Init ==
  /\ ctxDone = FALSE
  /\ listening = TRUE
  /\ serve = "accepting"
  /\ current = NoConn
  /\ acceptErr = "none"
  /\ result = "none"
  /\ watcher = "watching"
  /\ closing = FALSE
  /\ active = 0
  /\ connections = {}
  /\ handler = [c \in Conn |-> "none"]
  /\ client = [c \in Conn |-> "absent"]
  /\ target = [c \in Conn |-> "absent"]
  /\ closed = {}
  /\ armed = {}
  /\ writes = [c \in Conn |-> 0]
  /\ upload = [c \in Conn |-> "idle"]
  /\ download = [c \in Conn |-> "idle"]

-------------------------------------------------------------------------------
(* The environment: context, clients, targets *)

Cancel ==
  /\ ~ctxDone
  /\ ctxDone' = TRUE
  /\ UNCHANGED <<listening, loop, watcher, server, handler, client, target, closed, handshake, tunnel>>

ClientConnects(c) ==
  /\ client[c] = "absent" /\ listening
  /\ client' = [client EXCEPT ![c] = "live"]
  /\ UNCHANGED <<ctxDone, listening, loop, watcher, server, handler, target, closed, handshake, tunnel>>

\* The client closes its sending half, or goes away altogether.
ClientEnds(c) ==
  /\ client[c] = "live" /\ c \notin closed
  /\ client' = [client EXCEPT ![c] = "ended"]
  /\ UNCHANGED <<ctxDone, listening, loop, watcher, server, handler, target, closed, handshake, tunnel>>

ClientResets(c) ==
  /\ client[c] \in {"live", "ended"} /\ c \notin closed
  /\ client' = [client EXCEPT ![c] = "reset"]
  /\ UNCHANGED <<ctxDone, listening, loop, watcher, server, handler, target, closed, handshake, tunnel>>

\* The target closes its sending half, or resets.
TargetEnds(c) ==
  /\ target[c] = "live"
  /\ \E end \in {"ended", "reset"} : target' = [target EXCEPT ![c] = end]
  /\ UNCHANGED <<ctxDone, listening, loop, watcher, server, handler, client, closed, handshake, tunnel>>

-------------------------------------------------------------------------------
(* Serve *)

\* The handshake deadline is set before the connection is added.
Accept(c) ==
  /\ serve = "accepting" /\ listening
  /\ client[c] # "absent" /\ handler[c] = "none" /\ c \notin closed
  /\ serve' = "adding"
  /\ current' = c
  /\ armed' = armed \cup {c}
  /\ UNCHANGED <<ctxDone, listening, acceptErr, result, watcher, server, handler, client, target, closed, writes, tunnel>>

\* Mutant: server.closing is not looked at.
AddAlways ==
  /\ serve = "adding"
  /\ serve' = "accepting"
  /\ current' = NoConn
  /\ active' = active + 1
  /\ connections' = connections \cup {current}
  /\ handler' = [handler EXCEPT ![current] = "greeting"]
  /\ UNCHANGED <<ctxDone, listening, acceptErr, result, watcher, closing, client, target, closed, handshake, tunnel>>

\* add refuses the connection once the server is closing: it is closed again.
Add ==
  /\ serve = "adding"
  /\ serve' = "accepting"
  /\ current' = NoConn
  /\ IF closing
     THEN /\ closed' = closed \cup {current}
          /\ UNCHANGED <<active, connections, handler>>
     ELSE /\ active' = active + 1
          /\ connections' = connections \cup {current}
          /\ handler' = [handler EXCEPT ![current] = "greeting"]
          /\ UNCHANGED closed
  /\ UNCHANGED <<ctxDone, listening, acceptErr, result, watcher, closing, client, target, handshake, tunnel>>

\* The listener was closed by the watcher, or Accept fails by itself.
AcceptFails ==
  /\ serve = "accepting"
  /\ acceptErr' = IF listening THEN "failed" ELSE "closed"
  /\ serve' = "closing"
  /\ UNCHANGED <<ctxDone, listening, current, result, watcher, server, handler, client, target, closed, handshake, tunnel>>

\* Mutant: later connections are refused, the present ones stay open.
CloseAllLater ==
  /\ closing' = TRUE
  /\ UNCHANGED <<closed, active, connections>>

\* closeAll: the clients' connections, not the targets'.
CloseAll ==
  /\ closing' = TRUE
  /\ closed' = closed \cup connections
  /\ UNCHANGED <<active, connections>>

ServeCloses ==
  /\ serve = "closing"
  /\ CloseAll
  /\ serve' = "waiting"
  /\ UNCHANGED <<ctxDone, listening, current, acceptErr, result, watcher, handler, client, target, handshake, tunnel>>

\* Mutant: every end of the accept loop is an orderly one.
ServeWaitsNil ==
  /\ serve = "waiting" /\ active = 0
  /\ result' = "nil"
  /\ serve' = "done"
  /\ UNCHANGED <<ctxDone, listening, current, acceptErr, watcher, server, handler, client, target, closed, handshake, tunnel>>

\* wait, then the result; ctx.Err() is read only now.  Closing serveDone ends
\* the watcher.
ServeWaits ==
  /\ serve = "waiting" /\ active = 0
  /\ result' = IF ctxDone \/ acceptErr = "closed" THEN "nil" ELSE "error"
  /\ serve' = "done"
  /\ UNCHANGED <<ctxDone, listening, current, acceptErr, watcher, server, handler, client, target, closed, handshake, tunnel>>

\* <-shutdownComplete
ServeReturns ==
  /\ serve = "done" /\ watcher = "done"
  /\ serve' = "returned"
  /\ UNCHANGED <<ctxDone, listening, current, acceptErr, result, watcher, server, handler, client, target, closed, handshake, tunnel>>

ServeStep == (\E c \in Conn : Accept(c)) \/ Add \/ ServeCloses \/ ServeWaits \/ ServeReturns

WatcherSeesCancel ==
  /\ watcher = "watching" /\ ctxDone
  /\ listening' = FALSE
  /\ watcher' = "closing"
  /\ UNCHANGED <<ctxDone, loop, server, handler, client, target, closed, handshake, tunnel>>

WatcherCloses ==
  /\ watcher = "closing"
  /\ CloseAll
  /\ watcher' = "done"
  /\ UNCHANGED <<ctxDone, listening, loop, handler, client, target, handshake, tunnel>>

WatcherStops ==
  /\ watcher = "watching" /\ serve = "done"
  /\ watcher' = "done"
  /\ UNCHANGED <<ctxDone, listening, loop, server, handler, client, target, closed, handshake, tunnel>>

WatcherStep == WatcherSeesCancel \/ WatcherCloses \/ WatcherStops

-------------------------------------------------------------------------------
(* The handler of a connection: ServeConn, then remove *)

Moves(c, from, to) ==
  /\ handler[c] = from
  /\ handler' = [handler EXCEPT ![c] = to]

Sendable(c) == c \notin closed /\ client[c] # "reset"

\* Mutant: the first answer that reads like a success is taken for the reply.
WriteFirst(c, code) ==
  /\ writes' = [writes EXCEPT ![c] = @ + 1]
  /\ armed' = IF code = 0 /\ c \notin closed THEN armed \ {c} ELSE armed

\* handshakeConnection.Write of an answer with this code in its second byte: the
\* second write, if it says success, clears the deadline before it is sent.  The
\* deadline of a connection that was closed can no longer be changed.
Write(c, code) ==
  /\ writes' = [writes EXCEPT ![c] = @ + 1]
  /\ armed' = IF writes'[c] = 2 /\ code = 0 /\ c \notin closed THEN armed \ {c} ELSE armed

Success == 0
Refusals == {1, 255}  \* of a request, and of every method of a greeting

\* The greeting was read and is answered: go on without authentication.  Whatever
\* was sent before the client ended its stream can still be read.
Greet(c) ==
  /\ handler[c] = "greeting"
  /\ Write(c, Success)
  /\ handler' = [handler EXCEPT ![c] = IF Sendable(c) THEN "requesting" ELSE "ending"]
  /\ UNCHANGED <<ctxDone, listening, loop, watcher, server, client, target, closed, tunnel>>

\* The request was read; it names a destination to connect to.
RequestRead(c) ==
  /\ Moves(c, "requesting", "dialling")
  /\ Sendable(c)
  /\ UNCHANGED <<ctxDone, listening, loop, watcher, server, client, target, closed, handshake, tunnel>>

\* No acceptable method; a command, an address type or a name that is refused.
Refuse(c) ==
  /\ \/ Moves(c, "greeting", "ending") \/ Moves(c, "requesting", "ending")
  /\ \E code \in Refusals : Write(c, code)
  /\ UNCHANGED <<ctxDone, listening, loop, watcher, server, client, target, closed, tunnel>>

\* What the client sent is no SOCKS message: the handler just ends.
Malformed(c) ==
  /\ \/ Moves(c, "greeting", "ending") \/ Moves(c, "requesting", "ending")
  /\ Sendable(c)
  /\ UNCHANGED <<ctxDone, listening, loop, watcher, server, client, target, closed, handshake, tunnel>>

\* The read of a message ends without one: the client is gone, or has sent all it
\* has to send, or the deadline is reached.
HandshakeBreaks(c) ==
  /\ \/ Moves(c, "greeting", "ending") \/ Moves(c, "requesting", "ending")
  /\ ~Sendable(c) \/ client[c] = "ended" \/ c \in armed
  /\ UNCHANGED <<ctxDone, listening, loop, watcher, server, client, target, closed, handshake, tunnel>>

\* Connector.Dial; the client is neither read nor is its end noticed meanwhile.
DialSucceeds(c) ==
  /\ Moves(c, "dialling", "replying")
  /\ target' = [target EXCEPT ![c] = "live"]
  /\ UNCHANGED <<ctxDone, listening, loop, watcher, server, client, closed, handshake, tunnel>>

\* The failure is answered.
DialFails(c) ==
  /\ Moves(c, "dialling", "ending")
  /\ \E code \in Refusals : Write(c, code)
  /\ UNCHANGED <<ctxDone, listening, loop, watcher, server, client, target, closed, tunnel>>

\* The success is answered; then the two copying goroutines start.
Reply(c) ==
  /\ Moves(c, "replying", "relaying")
  /\ Sendable(c)
  /\ Write(c, Success)
  /\ upload' = [upload EXCEPT ![c] = "copying"]
  /\ download' = [download EXCEPT ![c] = "copying"]
  /\ UNCHANGED <<ctxDone, listening, loop, watcher, server, client, target, closed>>

ReplyFails(c) ==
  /\ Moves(c, "replying", "ending")
  /\ ~Sendable(c)
  /\ Write(c, Success)
  /\ UNCHANGED <<ctxDone, listening, loop, watcher, server, client, target, closed, tunnel>>

\* io.Copy from the client: its end, or an error.
UploadEnds(c) ==
  /\ handler[c] = "relaying" /\ upload[c] = "copying"
  /\ \/ Sendable(c) /\ client[c] = "ended" /\ upload' = [upload EXCEPT ![c] = "ended"]
     \/ ~Sendable(c) /\ upload' = [upload EXCEPT ![c] = "failed"]
  /\ UNCHANGED <<ctxDone, listening, loop, watcher, server, handler, client, target, closed, handshake, download>>

\* io.Copy to the client: it reads the target, and notices that the client was
\* closed only when it has something to write.
DownloadEnds(c) ==
  /\ handler[c] = "relaying" /\ download[c] = "copying"
  /\ \/ target[c] = "ended" /\ download' = [download EXCEPT ![c] = "ended"]
     \/ target[c] = "reset" /\ download' = [download EXCEPT ![c] = "failed"]
  /\ UNCHANGED <<ctxDone, listening, loop, watcher, server, handler, client, target, closed, handshake, upload>>

\* The target sends, and the write to the client fails.
TargetSends(c) ==
  /\ handler[c] = "relaying" /\ download[c] = "copying"
  /\ target[c] = "live" /\ ~Sendable(c)
  /\ download' = [download EXCEPT ![c] = "failed"]
  /\ UNCHANGED <<ctxDone, listening, loop, watcher, server, handler, client, target, closed, handshake, upload>>

\* ServeConn returns at the first error, or when both directions have ended.
RelayEnds(c) ==
  /\ Moves(c, "relaying", "ending")
  /\ \/ "failed" \in {upload[c], download[c]}
     \/ {upload[c], download[c]} = {"ended"}
  /\ UNCHANGED <<ctxDone, listening, loop, watcher, server, client, target, closed, handshake, tunnel>>

\* The deferred Close of the target and of the client.
End(c) ==
  /\ Moves(c, "ending", "removing")
  /\ target' = [target EXCEPT ![c] = IF @ = "absent" THEN @ ELSE "closed"]
  /\ closed' = closed \cup {c}
  /\ UNCHANGED <<ctxDone, listening, loop, watcher, server, client, handshake, tunnel>>

Remove(c) ==
  /\ Moves(c, "removing", "gone")
  /\ active' = active - 1
  /\ connections' = connections \ {c}
  /\ UNCHANGED <<ctxDone, listening, loop, watcher, closing, client, target, closed, handshake, tunnel>>

DialEnds(c) == DialSucceeds(c) \/ DialFails(c)

\* What the client sends in the handshake, and when, is up to it.
ClientTalks(c) == Greet(c) \/ RequestRead(c) \/ Refuse(c) \/ Malformed(c)

HandlerStep(c) ==
  \/ HandshakeBreaks(c)
  \/ Reply(c) \/ ReplyFails(c)
  \/ RelayEnds(c) \/ End(c) \/ Remove(c)

-------------------------------------------------------------------------------

Next ==
  \/ Cancel \/ AcceptFails \/ ServeStep \/ WatcherStep
  \/ \E c \in Conn :
       \/ ClientConnects(c) \/ ClientEnds(c) \/ ClientResets(c)
       \/ TargetEnds(c) \/ TargetSends(c)
       \/ ClientTalks(c) \/ HandlerStep(c) \/ DialEnds(c) \/ UploadEnds(c) \/ DownloadEnds(c)

Spec == Init /\ [][Next]_vars

\* The goroutines are scheduled; a handshake is ended by its deadline, if it still
\* has one, and by a broken connection.  Accept returns when the listener is closed.
Scheduling ==
  /\ WF_vars(ServeStep) /\ WF_vars(~listening /\ AcceptFails) /\ WF_vars(WatcherStep)
  /\ \A c \in Conn :
       WF_vars(HandlerStep(c)) /\ WF_vars(UploadEnds(c)) /\ WF_vars(DownloadEnds(c))

\* Of the hosts outside: no outer SOCKS proxy keeps a dial waiting for ever (its
\* handshake is bounded by the caller's context only, and go-socks5 passes one
\* that is never canceled; every other route has a timeout), ...
DialsEnd == \A c \in Conn : WF_vars(DialEnds(c))

\* ... and no target stays connected and silent for ever.
TargetsEnd == \A c \in Conn : WF_vars(TargetEnds(c))

\* What the code and its timeouts guarantee if every dial ends.
FairSpec == Spec /\ Scheduling /\ DialsEnd

FairTargetsSpec == FairSpec /\ TargetsEnd

-------------------------------------------------------------------------------
(* Properties *)

TypeOK ==
  /\ ctxDone \in BOOLEAN
  /\ listening \in BOOLEAN
  /\ serve \in {"accepting", "adding", "closing", "waiting", "done", "returned"}
  /\ current \in Conn \cup {NoConn}
  /\ acceptErr \in {"none", "closed", "failed"}
  /\ result \in {"none", "nil", "error"}
  /\ watcher \in {"watching", "closing", "done"}
  /\ closing \in BOOLEAN
  /\ active \in Nat
  /\ connections \subseteq Conn
  /\ handler \in [Conn -> {"none", "greeting", "requesting", "dialling", "replying", "relaying",
                           "ending", "removing", "gone"}]
  /\ client \in [Conn -> {"absent", "live", "ended", "reset"}]
  /\ target \in [Conn -> {"absent", "live", "ended", "reset", "closed"}]
  /\ closed \subseteq Conn
  /\ armed \subseteq Conn
  /\ writes \in [Conn -> 0 .. 2]
  /\ upload \in [Conn -> {"idle", "copying", "ended", "failed"}]
  /\ download \in [Conn -> {"idle", "copying", "ended", "failed"}]

Running(c) == handler[c] \notin {"none", "gone"}

\* Once the server is closing, no client connection it serves is open: the ones
\* it had were closed with closeAll, and a connection accepted while the watcher
\* was closing is refused by add.
ClosingLeavesNoneOpen ==
  /\ TypeOK
  /\ closing => connections \subseteq closed

\* The deadline is the handshake's: a tunnel that was confirmed to the client is not
\* cut by it, and whoever has no target yet, a client that sends half a request or
\* one that was refused, is still bound by it.  handshakeConnection.Write tells the
\* reply from the answer to the greeting by counting, and a success by its code.
DeadlineIsTheHandshakes ==
  \A c \in Conn :
    /\ handler[c] = "relaying" => c \notin armed
    /\ Running(c) /\ c \notin armed => target[c] # "absent"

\* After a cancellation Serve returns ("Serve handles SOCKS connections until
\* ctx is canceled.").
ServeReturnsAfterCancel == ctxDone ~> serve = "returned"

Abstract == INSTANCE Service WITH
  phase <- IF serve = "returned" THEN "returned" ELSE "serving",
  result <- IF serve = "returned" THEN result ELSE "none",
  work <- {c \in Conn : Running(c)}

\* The SOCKS proxy is a Service: nothing is dialled and no tunnel confirmed for
\* a client after Serve returned, it returns with no handler left, and it
\* returns nil, the application's orderly end, only after a cancellation.
ImplementsService == Abstract!Spec

===============================================================================
