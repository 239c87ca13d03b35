--------------------------- MODULE EnvironmentRouter ---------------------------
(***************************************************************************)
(* outbound.EnvironmentRouter: one Dial of an approved address, directly   *)
(* or through the outer proxy that the environment names.  The proxy's     *)
(* answer to a CONNECT is a header of some length, followed at once by     *)
(* bytes of the tunnel; it arrives byte by byte, or stops arriving.        *)
(* The names differ from those of Outbound, so that one module can extend  *)
(* both.                                                                   *)
(***************************************************************************)
EXTENDS Naturals

CONSTANTS
  MaxHeader,  \* maxConnectHeaderSize, scaled down
  Tunnel      \* bytes the destination sends right behind the header

ASSUME RouterAssumption == MaxHeader \in Nat \ {0} /\ Tunnel \in Nat

Proxies == {"none", "http", "https", "socks5"}

VARIABLES
  zone,        \* the address has a zone
  proxy,       \* the scheme of proxyURL
  bypassed,    \* NO_PROXY names the destination
  ctxDone,     \* the caller's context is canceled
  expired,     \* connectTimeout is over
  step,        \* where Dial stands
  connection,  \* the connection to the destination or to the proxy
  deadline,    \* it has a deadline
  answer,      \* what the proxy answers: the header's length and its status
  sent,        \* bytes of the answer and the tunnel that arrived
  read,        \* bytes of them that were read
  result

config == <<zone, proxy, bypassed, answer>>
routerVars == <<config, ctxDone, expired, step, connection, deadline, sent, read, result>>

\* How Dial routes: zones name interfaces of this host, NO_PROXY is obeyed
Direct == zone \/ proxy = "none" \/ bypassed

RouterInit ==
  /\ zone \in BOOLEAN /\ proxy \in Proxies /\ bypassed \in BOOLEAN
  /\ answer \in [length : 1..(MaxHeader + 1), status : {"success", "refusal", "malformed"}]
  /\ ctxDone = FALSE /\ expired = FALSE
  /\ step = "start"
  /\ connection = "none" /\ deadline = FALSE
  /\ sent = 0 /\ read = 0
  /\ result = "none"

Cancel == ~ctxDone /\ ctxDone' = TRUE /\ UNCHANGED <<config, expired, step, connection, deadline, sent, read, result>>

\* The timeout of the dialer, and of handshakeContext and the deadline made from it
Expire ==
  /\ ~expired /\ step \notin {"start", "returned"}
  /\ expired' = TRUE
  /\ UNCHANGED <<config, ctxDone, step, connection, deadline, sent, read, result>>

ProxySends ==
  /\ connection = "open" /\ step = "reading"
  /\ sent < answer.length + Tunnel
  /\ sent' = sent + 1
  /\ UNCHANGED <<config, ctxDone, expired, step, connection, deadline, read, result>>

-------------------------------------------------------------------------------
Goto(stage) == step' = stage /\ UNCHANGED <<config, ctxDone, expired, sent, result>>

\* An early return; the deferred function closes the connection, whichever the
\* variable names
Fail ==
  /\ step' = "returned" /\ result' = "error"
  /\ connection' = IF connection = "open" THEN "closed" ELSE connection
  /\ UNCHANGED <<config, ctxDone, expired, deadline, sent, read>>

Succeed(armed) ==
  /\ step' = "returned" /\ result' = "connection" /\ deadline' = armed
  /\ UNCHANGED <<config, ctxDone, expired, connection, sent, read>>

Choose == step = "start" /\ Goto("dialling") /\ UNCHANGED <<connection, deadline, read>>

\* bypass cannot evaluate NO_PROXY, or the dialer cannot be configured
ChooseFails == step = "start" /\ ~zone /\ Fail

RouteDialSucceeds ==
  /\ step = "dialling"
  /\ connection' = "open"
  /\ step' = IF Direct THEN "returned" ELSE IF proxy = "socks5" THEN "greeting" ELSE "arming"
  /\ result' = IF Direct THEN "connection" ELSE result
  /\ UNCHANGED <<config, ctxDone, expired, deadline, sent, read>>

RouteDialFails == step = "dialling" /\ Fail

\* The SOCKS handshake of x/net/proxy: bounded by the caller's context only
GreetSucceeds == step = "greeting" /\ ~ctxDone /\ Succeed(FALSE)
GreetFails == step = "greeting" /\ Fail

\* Mutant: no deadline is set
ArmNot ==
  /\ step = "arming"
  /\ Goto(IF proxy = "https" THEN "securing" ELSE "writing")
  /\ UNCHANGED <<connection, deadline, read>>

\* SetDeadline
Arm ==
  /\ step = "arming"
  /\ deadline' = TRUE
  /\ Goto(IF proxy = "https" THEN "securing" ELSE "writing")
  /\ UNCHANGED <<connection, read>>

\* HandshakeContext
Secure == step = "securing" /\ ~expired /\ ~ctxDone /\ Goto("writing") /\ UNCHANGED <<connection, deadline, read>>

\* request.Write
Write == step = "writing" /\ ~(expired /\ deadline) /\ Goto("reading") /\ UNCHANGED <<connection, deadline, read>>

\* Mutant: the header is read through a buffer, which takes what arrived
ReadBuffered ==
  /\ step = "reading" /\ read < sent /\ read < MaxHeader /\ ~(expired /\ deadline)
  /\ read' = sent
  /\ Goto(IF sent >= answer.length THEN "parsing" ELSE "reading")
  /\ UNCHANGED <<connection, deadline>>

\* readConnectHeader takes one byte at a time
ReadByte ==
  /\ step = "reading" /\ read < sent /\ read < MaxHeader /\ ~(expired /\ deadline)
  /\ read' = read + 1
  /\ Goto(IF read' = answer.length THEN "parsing" ELSE "reading")
  /\ UNCHANGED <<connection, deadline>>

\* http.ReadResponse and the status
Parse ==
  /\ step = "parsing" /\ answer.status = "success"
  /\ Goto("clearing") /\ UNCHANGED <<connection, deadline, read>>

ParseFails == step = "parsing" /\ answer.status # "success" /\ Fail

\* The header is too long
TooLong == step = "reading" /\ read = MaxHeader /\ Fail

\* SetDeadline(time.Time{})
Clear == step = "clearing" /\ Succeed(FALSE)

\* A step of the handshake fails: the proxy hangs up, or time is over
HandshakeFails == step \in {"arming", "securing", "writing", "reading", "parsing", "clearing"} /\ Fail

\* What a step waits for is over
TimedOut ==
  \/ step = "dialling" /\ (expired \/ ctxDone)
  \/ step = "securing" /\ (expired \/ ctxDone)
  \/ step \in {"writing", "reading"} /\ expired /\ deadline

\* Steps that wait for nobody
Local == Choose \/ ChooseFails \/ Arm \/ ReadByte \/ TooLong \/ Parse \/ ParseFails \/ Clear

RouterNext ==
  \/ Cancel \/ Expire \/ ProxySends
  \/ Local \/ RouteDialSucceeds \/ RouteDialFails \/ GreetSucceeds \/ GreetFails
  \/ Secure \/ Write \/ HandshakeFails

RouterSpec == RouterInit /\ [][RouterNext]_routerVars

\* Scheduling and the clock; nothing is assumed of the network or the proxy
FairRouterSpec ==
  /\ RouterSpec
  /\ WF_routerVars(Local) /\ WF_routerVars(Expire)
  /\ WF_routerVars(TimedOut /\ (RouteDialFails \/ HandshakeFails))
  /\ WF_routerVars(ctxDone /\ GreetFails)

-------------------------------------------------------------------------------
(* Properties *)

RouterTypeOK ==
  /\ zone \in BOOLEAN /\ proxy \in Proxies /\ bypassed \in BOOLEAN
  /\ answer \in [length : 1..(MaxHeader + 1), status : {"success", "refusal", "malformed"}]
  /\ ctxDone \in BOOLEAN /\ expired \in BOOLEAN
  /\ step \in {"start", "dialling", "greeting", "arming", "securing", "writing", "reading", "parsing",
             "clearing", "returned"}
  /\ connection \in {"none", "open", "closed"} /\ deadline \in BOOLEAN
  /\ sent \in 0..(MaxHeader + 1 + Tunnel) /\ read \in 0..sent
  /\ result \in {"none", "connection", "error"}

\* The connection Dial returns is a clean tunnel: the outer proxy accepted, its
\* header was read to the last byte and no byte behind it, and no deadline of
\* the handshake is left; an error leaves no connection open, wherever the
\* handshake failed (dialHTTPProxy, readConnectHeader)
ReturnsCleanTunnel ==
  /\ RouterTypeOK
  /\ step = "returned" <=> result # "none"
  /\ result = "connection" =>
       /\ connection = "open" /\ ~deadline
       /\ ~Direct /\ proxy \in {"http", "https"} =>
            answer.status = "success" /\ read = answer.length /\ read <= MaxHeader
  /\ result = "error" => connection # "open"

\* A dial ends by itself, whatever the network and the outer proxy do: all but
\* the SOCKS handshake, which a silent proxy holds until the caller gives up
\* (connectTimeout; dialSOCKSProxy has none of its own)
DialEnds == step # "returned" ~> step = "returned" \/ (step = "greeting" /\ ~ctxDone)
===============================================================================
