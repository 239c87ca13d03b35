------------------------------ MODULE Application ------------------------------
(***************************************************************************)
(* application.runWithProxies: it sets up the session directory and two    *)
(* sockets, runs both proxies and the command in goroutines of their own,  *)
(* stops all of them when the first one ends, and undoes the setup.  The   *)
(* proxies are the Service that ProxyHttp and ProxySocks implement; the    *)
(* command is namespace.Run, seen from outside.                            *)
(***************************************************************************)
EXTENDS Integers, Sequences

CONSTANTS
  Conn,  \* connections of the command to a proxy
  Code   \* exit codes of the command

ASSUME CodeAssumption == 0 \in Code

Server == {"http", "socks"}

VARIABLES
  stage,         \* where runWithProxies stands
  held,          \* the session directory and the listeners, until runWithProxies
                 \* removes or closes them; a proxy may close its listener before
  deferred,      \* the deferred calls
  ctxDone,       \* ctx is canceled
  goroutine,     \* where the goroutine of a proxy stands
  httpPhase, httpResult, httpWork,     \* httpServer, a Service
  socksPhase, socksResult, socksWork,  \* socksServer, a Service
  serverErrors,  \* the channel of that name, capacity 2
  waitGroup,     \* the counter of waitGroup
  command,       \* idle, running, returned by itself, or stopped: returned after a cancellation
  commandResults,\* the channel of that name, capacity 1
  serverErr,     \* the error the select received from a proxy
  result         \* the local variable of that name

http == <<httpPhase, httpResult, httpWork>>
socks == <<socksPhase, socksResult, socksWork>>
setup == <<held, deferred>>
proxies == <<goroutine, http, socks, serverErrors, waitGroup>>
runs == <<command, commandResults>>
vars == <<stage, setup, ctxDone, proxies, runs, serverErr, result>>

Http == INSTANCE Service WITH phase <- httpPhase, result <- httpResult, work <- httpWork
Socks == INSTANCE Service WITH phase <- socksPhase, result <- socksResult, work <- socksWork

\* exitCode and err; the zero value is the success nobody reported yet.
NoResult == [exitCode |-> 0, err |-> "none"]

Init ==
  /\ stage = "dir"
  /\ held = {}
  /\ deferred = <<>>
  /\ Http!Init /\ Socks!Init  \* ctxDone among them
  /\ goroutine = [s \in Server |-> "none"]
  /\ serverErrors = <<>>
  /\ waitGroup = 0
  /\ command = "idle"
  /\ commandResults = <<>>
  /\ serverErr = "none"
  /\ result = NoResult

-------------------------------------------------------------------------------
(* The setup: each step makes one thing and defers undoing it, or fails. *)

\* The thing that a stage of the setup makes, and the stage after it.
Makes == [dir |-> "dir", listenHTTP |-> "http", listenSOCKS |-> "socks"]
After == [dir |-> "listenHTTP", listenHTTP |-> "listenSOCKS", listenSOCKS |-> "router",
          router |-> "newSOCKS", newSOCKS |-> "start"]

\* Mutant: the HTTP listener is closed only by its server.
MakeUndeferred ==
  /\ stage \in DOMAIN Makes
  /\ held' = held \cup {Makes[stage]}
  /\ deferred' = IF stage = "listenHTTP" THEN deferred ELSE Append(deferred, Makes[stage])
  /\ stage' = After[stage]
  /\ UNCHANGED <<ctxDone, proxies, runs, serverErr, result>>

\* createRuntimeDir and both Listens
Make ==
  /\ stage \in DOMAIN Makes
  /\ held' = held \cup {Makes[stage]}
  /\ deferred' = Append(deferred, Makes[stage])
  /\ stage' = After[stage]
  /\ UNCHANGED <<ctxDone, proxies, runs, serverErr, result>>

\* NewEnvironmentRouter and proxysocks.New hold nothing.
Prepare ==
  /\ stage \in {"router", "newSOCKS"}
  /\ stage' = After[stage]
  /\ UNCHANGED <<setup, ctxDone, proxies, runs, serverErr, result>>

SetupFails ==
  /\ stage \in DOMAIN After
  /\ result' = [exitCode |-> 0, err |-> "setup"]
  /\ stage' = "unwinding"
  /\ UNCHANGED <<setup, ctxDone, proxies, runs, serverErr>>

\* WithCancel and the three go statements
Start ==
  /\ stage = "start"
  /\ deferred' = Append(deferred, "cancel")
  /\ goroutine' = [s \in Server |-> "serving"]
  /\ waitGroup' = 2
  /\ command' = "running"
  /\ stage' = "selecting"
  /\ UNCHANGED <<held, ctxDone, http, socks, serverErrors, commandResults, serverErr, result>>

-------------------------------------------------------------------------------
(* The goroutines of the proxies and of the command *)

HttpWorks ==
  /\ goroutine["http"] = "serving"
  /\ \E c \in Conn : Http!Begin(c) \/ Http!End(c)
  /\ UNCHANGED <<stage, setup, goroutine, socks, serverErrors, waitGroup, runs, serverErr, result>>

HttpReturns ==
  /\ goroutine["http"] = "serving"
  /\ Http!Return
  /\ UNCHANGED <<stage, setup, goroutine, socks, serverErrors, waitGroup, runs, serverErr, result>>

SocksWorks ==
  /\ goroutine["socks"] = "serving"
  /\ \E c \in Conn : Socks!Begin(c) \/ Socks!End(c)
  /\ UNCHANGED <<stage, setup, goroutine, http, serverErrors, waitGroup, runs, serverErr, result>>

SocksReturns ==
  /\ goroutine["socks"] = "serving"
  /\ Socks!Return
  /\ UNCHANGED <<stage, setup, goroutine, http, serverErrors, waitGroup, runs, serverErr, result>>

Returned(s) == IF s = "http" THEN httpPhase = "returned" ELSE socksPhase = "returned"
Result(s) == IF s = "http" THEN httpResult ELSE socksResult

\* serverErrors <- Serve(...)
Send(s) ==
  /\ goroutine[s] = "serving" /\ Returned(s)
  /\ Len(serverErrors) < 2
  /\ serverErrors' = Append(serverErrors, Result(s))
  /\ goroutine' = [goroutine EXCEPT ![s] = "sent"]
  /\ UNCHANGED <<stage, setup, ctxDone, http, socks, waitGroup, runs, serverErr, result>>

Done(s) ==
  /\ goroutine[s] = "sent"
  /\ goroutine' = [goroutine EXCEPT ![s] = "done"]
  /\ waitGroup' = waitGroup - 1
  /\ UNCHANGED <<stage, setup, ctxDone, http, socks, serverErrors, runs, serverErr, result>>

\* namespace.Run returns when the command ends, when it cannot be run, or
\* after a cancellation, which terminates it.
CommandReturns ==
  /\ command = "running"
  /\ command' = IF ctxDone THEN "stopped" ELSE "returned"
  /\ \E code \in Code, err \in {"none", "command"} :
       commandResults' = Append(commandResults, [exitCode |-> IF err = "none" THEN code ELSE 0,
                                                 err |-> err])
  /\ UNCHANGED <<stage, setup, ctxDone, proxies, serverErr, result>>

-------------------------------------------------------------------------------
(* The select, the wait and the deferred calls *)

SelectCommand ==
  /\ stage = "selecting" /\ commandResults # <<>>
  /\ result' = Head(commandResults)
  /\ commandResults' = Tail(commandResults)
  /\ ctxDone' = TRUE
  /\ stage' = "waiting"
  /\ UNCHANGED <<setup, proxies, command, serverErr>>

\* Mutant: a failing proxy leaves the command running.
SelectServerOnly ==
  /\ stage = "selecting" /\ serverErrors # <<>>
  /\ serverErr' = IF Head(serverErrors) = "nil" THEN "unexpected" ELSE "failed"
  /\ serverErrors' = Tail(serverErrors)
  /\ stage' = "awaiting"
  /\ UNCHANGED <<setup, ctxDone, goroutine, http, socks, waitGroup, runs, result>>

SelectServer ==
  /\ stage = "selecting" /\ serverErrors # <<>>
  /\ serverErr' = IF Head(serverErrors) = "nil" THEN "unexpected" ELSE "failed"
  /\ serverErrors' = Tail(serverErrors)
  /\ ctxDone' = TRUE
  /\ stage' = "awaiting"
  /\ UNCHANGED <<setup, goroutine, http, socks, waitGroup, runs, result>>

\* Mutant: the command's result stands, whatever the proxy reported.
AwaitCommandOnly ==
  /\ stage = "awaiting" /\ commandResults # <<>>
  /\ result' = Head(commandResults)
  /\ commandResults' = Tail(commandResults)
  /\ stage' = "waiting"
  /\ UNCHANGED <<setup, ctxDone, proxies, command, serverErr>>

\* An error of the command takes precedence over that of the proxy.
AwaitCommand ==
  /\ stage = "awaiting" /\ commandResults # <<>>
  /\ result' = [Head(commandResults) EXCEPT !.err = IF @ = "none" THEN serverErr ELSE @]
  /\ commandResults' = Tail(commandResults)
  /\ stage' = "waiting"
  /\ UNCHANGED <<setup, ctxDone, proxies, command, serverErr>>

\* Mutant: it cancels and does not wait.
WaitNot ==
  /\ stage = "waiting"
  /\ ctxDone' = TRUE
  /\ stage' = "unwinding"
  /\ UNCHANGED <<setup, proxies, runs, serverErr, result>>

\* cancel, which both branches have called already, and waitGroup.Wait;
\* then the exit code is dropped if there is an error.
Wait ==
  /\ stage = "waiting" /\ waitGroup = 0
  /\ ctxDone' = TRUE
  /\ result' = IF result.err = "none" THEN result ELSE [result EXCEPT !.exitCode = 0]
  /\ stage' = "unwinding"
  /\ UNCHANGED <<setup, proxies, runs, serverErr>>

\* The deferred call that was registered last.  Its error is only logged: a
\* directory that cannot be removed is left behind.
Unwind ==
  /\ stage = "unwinding" /\ deferred # <<>>
  /\ LET last == deferred[Len(deferred)] IN
       /\ held' = held \ {last}
       /\ ctxDone' = (ctxDone \/ last = "cancel")
  /\ deferred' = SubSeq(deferred, 1, Len(deferred) - 1)
  /\ UNCHANGED <<stage, proxies, runs, serverErr, result>>

Return ==
  /\ stage = "unwinding" /\ deferred = <<>>
  /\ stage' = "returned"
  /\ UNCHANGED <<setup, ctxDone, proxies, runs, serverErr, result>>

RunStep ==
  \/ Make \/ Prepare \/ SetupFails \/ Start
  \/ SelectCommand \/ SelectServer \/ AwaitCommand
  \/ Wait \/ Unwind \/ Return

Next ==
  \/ RunStep
  \/ HttpWorks \/ HttpReturns \/ SocksWorks \/ SocksReturns
  \/ \E s \in Server : Send(s) \/ Done(s)
  \/ CommandReturns

Spec == Init /\ [][Next]_vars

\* Scheduling, and what a cancellation brings about: the command is terminated and
\* the proxies return.  Of the proxies that is an assumption (the two SF): it is
\* ProxyHttp!CancelEndsServe, for an HTTP server that has not failed and for which no
\* unwatched request hangs, and ProxySocks!ServeReturnsAfterCancel, for which no
\* target stays connected and silent for ever.  Without a cancellation nothing need
\* ever end.
FairSpec ==
  /\ Spec
  /\ WF_vars(RunStep)
  /\ WF_vars(ctxDone /\ httpWork # {} /\ \E c \in Conn : Http!End(c) /\ HttpWorks)
  /\ WF_vars(ctxDone /\ socksWork # {} /\ \E c \in Conn : Socks!End(c) /\ SocksWorks)
  /\ SF_vars(ctxDone /\ HttpReturns) /\ SF_vars(ctxDone /\ SocksReturns)
  /\ \A s \in Server : WF_vars(Send(s)) /\ WF_vars(Done(s))
  /\ WF_vars(ctxDone /\ CommandReturns)

-------------------------------------------------------------------------------
(* Properties *)

\* The types of the variables of runWithProxies; the channels never hold more
\* than their capacity.
TypeOK ==
  /\ stage \in DOMAIN After \cup {"start", "selecting", "awaiting", "waiting", "unwinding", "returned"}
  /\ held \subseteq {"dir", "http", "socks"}
  /\ Len(deferred) <= 4
  /\ ctxDone \in BOOLEAN
  /\ goroutine \in [Server -> {"none", "serving", "sent", "done"}]
  /\ Len(serverErrors) <= 2 /\ Len(commandResults) <= 1
  /\ waitGroup \in 0..2
  /\ command \in {"idle", "running", "returned", "stopped"}
  /\ serverErr \in {"none", "failed", "unexpected"}
  /\ result \in [exitCode : Code, err : {"none", "setup", "command", "failed", "unexpected"}]

\* The status of a command that airjail itself stopped is never reported: once the
\* select has seen a proxy end, the command ends because of it, and its exit code,
\* which is that of a kill or of anything a command does when it is terminated, must
\* not replace the proxy's error (select, lines 235-249).  An error that is reported
\* as the proxies' is one of a proxy that did fail, never the orderly stop that
\* cancel brings about (lines 239-241).  An end of a proxy that the select has not
\* seen when it takes the command's result goes unreported, whichever came first.
OutcomeIsTrue ==
  /\ TypeOK
  /\ stage = "returned" =>
       /\ result.err = "none" => command = "returned" /\ serverErr = "none"
       /\ result.err = "failed" => "error" \in {httpResult, socksResult}
       /\ result.err # "unexpected"

\* The directory and the sockets are there as long as anybody uses them: they
\* are removed only after both proxies and the command are done, whichever
\* of the exits runWithProxies takes.
SessionOutlivesItsUsers ==
  /\ \A s \in Server : goroutine[s] \in {"serving", "sent"} => {"dir", s} \subseteq held
  /\ command = "running" => held = {"dir", "http", "socks"}

\* Nothing is left of a session that returned, a failed setup included, if
\* the system lets it be removed.
NothingOutlivesRun ==
  stage = "returned" =>
    /\ held = {}
    /\ waitGroup = 0 /\ httpWork = {} /\ socksWork = {}
    /\ command # "running"

\* As soon as the command or one of the proxies is done, the session ends:
\* whoever reports later is neither blocked on a channel nor left running.
FirstEndEndsRun ==
  command \in {"returned", "stopped"} \/ (\E s \in Server : goroutine[s] = "sent") ~> stage = "returned"

===============================================================================
