-------------------------------- MODULE Session --------------------------------
(***************************************************************************)
(* One session of airjail: the process that runs the proxies (Application) *)
(* and the supervisor process in the network namespace (Supervisor), which *)
(* it starts, waits for and terminates through namespace.Run.  The two     *)
(* share no memory: a cancellation crosses to the supervisor as a signal,  *)
(* and its outcome comes back as a wait status.                            *)
(***************************************************************************)
EXTENDS Application

CONSTANTS
  CommandCode,  \* what the command may exit with
  Signaled      \* 128 and a signal

setupErrorExitCode == 125

ASSUME SessionAssumption == CommandCode \cup {setupErrorExitCode, Signaled} \subseteq Code

VARIABLES
  process,  \* the supervisor process: none, running, exited, or ended by a signal:
            \* terminated after a cancellation, interrupted from outside
  status,   \* its wait status, an exit code or 128 and a signal
  supSockets, supStage, supListening, supCtxDone, supGroupErr,  \* the variables of
  supBridge, supBroken, supChild, supChildErr, supChildExitCode, supResult \* Supervisor

Sup == INSTANCE Supervisor WITH
  Code <- CommandCode, sockets <- supSockets, stage <- supStage, listening <- supListening,
  ctxDone <- supCtxDone, groupErr <- supGroupErr, bridge <- supBridge, broken <- supBroken, child <- supChild,
  childErr <- supChildErr, childExitCode <- supChildExitCode, result <- supResult

sup == <<supSockets, supStage, supListening, supCtxDone, supGroupErr,
         supBridge, supBroken, supChild, supChildErr, supChildExitCode, supResult>>
sessionVars == <<vars, process, status, sup>>

\* runWithProxies passes both sockets
SessionInit ==
  /\ Init
  /\ Sup!Init /\ supSockets = Sup!Bridge
  /\ process = "none"
  /\ status = 0

-------------------------------------------------------------------------------
(* namespace.Run *)

ProcessStarts ==
  /\ command = "running" /\ process = "none"
  /\ process' = "running"
  /\ UNCHANGED <<vars, status, sup>>

\* Unknown capabilities, no executable, or namespaces that cannot be had
RunFails ==
  /\ process = "none"
  /\ CommandReturns /\ commandResults' = <<[exitCode |-> 0, err |-> "command"]>>
  /\ UNCHANGED <<process, status, sup>>

Supervises ==
  /\ process = "running"
  /\ Sup!Next
  /\ UNCHANGED <<vars, process, status>>

\* Mutant: the exit code that comes with an error is taken for one
SupervisorExitsAnyway ==
  /\ process = "running" /\ supStage = "returned"
  /\ status' = supResult.code
  /\ process' = "exited"
  /\ UNCHANGED <<vars, sup>>

\* main
SupervisorExits ==
  /\ process = "running" /\ supStage = "returned"
  /\ status' = IF supResult.err = "none" THEN supResult.code ELSE setupErrorExitCode
  /\ process' = "exited"
  /\ UNCHANGED <<vars, sup>>

\* The SIGTERM of a cancellation, unless it is forwarded to the command, in
\* which case SIGKILL follows after three seconds; what is left goes with it
\* (Pdeathsig).
Terminated ==
  /\ process = "running" /\ ctxDone
  /\ process' = "terminated"
  /\ status' = Signaled
  /\ UNCHANGED <<vars, sup>>

\* A signal of the terminal, to which the supervisor belongs as well, kills it
\* while it does not handle signals; the one outside does
Interrupted ==
  /\ process = "running" /\ supChild # "running"
  /\ process' = "interrupted"
  /\ status' = Signaled
  /\ UNCHANGED <<vars, sup>>

\* status.Exited or status.Signaled
RunReturns ==
  /\ process \notin {"none", "running"}
  /\ CommandReturns /\ commandResults' = <<[exitCode |-> status, err |-> "none"]>>
  /\ UNCHANGED <<process, status, sup>>

-------------------------------------------------------------------------------
Outside(A) == A /\ UNCHANGED <<process, status, sup>>

Proxies == HttpWorks \/ HttpReturns \/ SocksWorks \/ SocksReturns \/ \E s \in Server : Send(s) \/ Done(s)

SessionNext ==
  \/ Outside(RunStep) \/ Outside(Proxies)
  \/ ProcessStarts \/ RunFails \/ RunReturns
  \/ Supervises \/ SupervisorExits \/ Terminated \/ Interrupted

SessionSpec == SessionInit /\ [][SessionNext]_sessionVars

\* As in FairSpec of Application and of Supervisor, but that a canceled command
\* ends is no longer assumed: the process is killed, if it does not exit before.
Within(A) == process = "running" /\ A /\ UNCHANGED <<vars, process, status>>

FairSessionSpec ==
  /\ SessionSpec
  /\ WF_sessionVars(Outside(RunStep))
  /\ WF_sessionVars(ctxDone /\ httpWork # {} /\ \E c \in Conn : Http!End(c) /\ Outside(HttpWorks))
  /\ WF_sessionVars(ctxDone /\ socksWork # {} /\ \E c \in Conn : Socks!End(c) /\ Outside(SocksWorks))
  /\ SF_sessionVars(ctxDone /\ Outside(HttpReturns)) /\ SF_sessionVars(ctxDone /\ Outside(SocksReturns))
  /\ \A s \in Server : WF_sessionVars(Outside(Send(s))) /\ WF_sessionVars(Outside(Done(s)))
  /\ WF_sessionVars(ProcessStarts) /\ WF_sessionVars(RunReturns)
  /\ WF_sessionVars(SupervisorExits) /\ WF_sessionVars(Terminated)
  /\ WF_sessionVars(Within(Sup!SetupStep)) /\ WF_sessionVars(Within(Sup!Start))
  /\ WF_sessionVars(Within(Sup!Wait))
  /\ WF_sessionVars(Within(Sup!ChildStarts)) /\ WF_sessionVars(Within(Sup!ChildLeaves))
  /\ WF_sessionVars(Sup!GroupDone /\ Within(Sup!ChildEnds))
  /\ \A b \in Sup!Bridge :
       /\ WF_sessionVars(Sup!GroupDone /\ Within(Sup!ServeReturns(b)))
       /\ WF_sessionVars(Within(Sup!Leave(b)))

-------------------------------------------------------------------------------
(* Properties, beside those of Application *)

\* An exit code airjail ends with is what became, across two processes, of a command
\* that airjail did not stop: 0 or any other code of the command only if it ran to
\* its end and no bridge failed until RunSupervisor returned; 125 for a supervisor
\* that failed; 128 and a signal for one that was killed, but never by airjail
\* itself, which reports why it did (application.go:235-249, run_linux.go:128-155,
\* main.go:21-28).  Of the proxies it says no more than OutcomeIsTrue.
ExitStatusIsTrue ==
  stage = "returned" /\ result.err = "none" =>
    /\ result.exitCode = status /\ command = "returned"
    /\ \/ process = "interrupted"
       \/ process = "exited" /\ supResult.err # "none" /\ status = setupErrorExitCode
       \/ /\ process = "exited" /\ supResult.err = "none"
          /\ supChild = "done" /\ supChildErr = "none" /\ status = supChildExitCode
          /\ supGroupErr = "none"

\* Sup!OutcomeIsTrue: nothing RunSupervisor returns hides that a bridge or the
\* command failed (namespace_linux.go:263-319)
SupervisorOutcomeIsTrue == Sup!OutcomeIsTrue

\* Sup!NothingOutlivesSupervisor: no goroutine is left, and no listener that a
\* bridge still accepted from
NothingOutlivesSupervisor == Sup!NothingOutlivesSupervisor

\* The first end, of the command or of a bridge, ends the supervisor, and then
\* the session (Sup!FirstEndEndsAll, FirstEndEndsRun)
FirstEndEndsSession ==
  supChild = "ended" \/ (\E b \in Sup!Bridge : supBridge[b] \in {"nil", "error"}) ~> stage = "returned"
===============================================================================
