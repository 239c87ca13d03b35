------------------------------ MODULE Supervisor ------------------------------
(***************************************************************************)
(* namespace.RunSupervisor: it prepares the network namespace, then runs   *)
(* a bridge for each configured socket and the command in one goroutine    *)
(* group whose context is canceled by the first error and by the end of    *)
(* the command.  A bridge is a Service (module Forwarder): it returns nil  *)
(* only after that context was canceled.  The command is                   *)
(* runSandboxedProcess, seen from outside (module JobControl).             *)
(***************************************************************************)
EXTENDS Naturals

CONSTANT Code  \* exit codes of the command

Bridge == {"http", "socks"}

VARIABLES
  sockets,    \* the sockets that are configured
  stage,      \* where RunSupervisor stands
  listening,  \* the inner listeners that are open
  ctxDone,    \* ctx is canceled
  groupErr,   \* the first error of the group
  bridge,     \* where the goroutine of a bridge stands
  broken,     \* bridges whose Accept failed by itself and whose Serve ended before
              \* a cancellation closed their listener
  child,      \* where the goroutine of the command stands
  childErr,   \* the variables of that name
  childExitCode,
  result      \* what RunSupervisor returned

vars == <<sockets, stage, listening, ctxDone, groupErr, bridge, broken, child, childErr, childExitCode, result>>

\* groupCtx is canceled
GroupDone == ctxDone \/ groupErr # "none"

Init ==
  /\ sockets \in SUBSET Bridge
  /\ stage = "validate"
  /\ listening = {}
  /\ ctxDone = FALSE
  /\ groupErr = "none"
  /\ bridge = [b \in Bridge |-> "none"]
  /\ broken = {}
  /\ child = "none"
  /\ childErr = "none"
  /\ childExitCode = 0
  /\ result = [code |-> 0, err |-> "none"]

-------------------------------------------------------------------------------
(* The setup *)

\* "drop" is dropDangerousCapabilities or dropSetupCapabilities, "ambient" the
\* rest of the permission-preserving mode
After == [validate |-> "loopback", loopback |-> "http", http |-> "socks", socks |-> "subreaper",
          subreaper |-> "drop", drop |-> "ambient", ambient |-> "start"]

SetupStep ==
  /\ stage \in DOMAIN After
  /\ listening' = listening \cup ({stage} \cap sockets)
  /\ stage' = After[stage]
  /\ UNCHANGED <<sockets, ctxDone, groupErr, bridge, broken, child, childErr, childExitCode, result>>

\* Mutant: the second listener fails and the first one stays open
SetupFailsOpen ==
  /\ stage \in DOMAIN After /\ (stage \in Bridge => stage \in sockets)
  /\ listening' = IF stage = "socks" THEN listening ELSE {}
  /\ result' = [code |-> 0, err |-> "setup"]
  /\ stage' = "returned"
  /\ ctxDone' = TRUE
  /\ UNCHANGED <<sockets, groupErr, bridge, broken, child, childErr, childExitCode>>

\* Early returns, with closeBridgeListeners where a listener may be open
SetupFails ==
  /\ stage \in DOMAIN After /\ (stage \in Bridge => stage \in sockets)
  /\ listening' = {}
  /\ result' = [code |-> 0, err |-> "setup"]
  /\ stage' = "returned"
  /\ ctxDone' = TRUE
  /\ UNCHANGED <<sockets, groupErr, bridge, broken, child, childErr, childExitCode>>

Start ==
  /\ stage = "start"
  /\ bridge' = [b \in Bridge |-> IF b \in sockets THEN "serving" ELSE "none"]
  /\ child' = "starting"
  /\ stage' = "waiting"
  /\ UNCHANGED <<sockets, listening, ctxDone, groupErr, broken, childErr, childExitCode, result>>

-------------------------------------------------------------------------------
(* The goroutines of the group *)

\* The watcher of Serve has seen the cancellation and closed the listener
ServeStops(b) ==
  /\ bridge[b] = "serving" /\ GroupDone
  /\ bridge' = [bridge EXCEPT ![b] = "nil"]
  /\ listening' = listening \ {b}
  /\ UNCHANGED <<sockets, stage, ctxDone, groupErr, broken, child, childErr, childExitCode, result>>

\* Accept failed though nobody had closed the listener.  That is an error unless
\* the cancellation comes before Serve looks at its context; and the listener
\* stays open unless it comes before the watcher ends.
ServeFails(b) ==
  /\ bridge[b] = "serving"
  /\ \E end \in {"nil", "error"} :
       /\ end = "nil" => GroupDone
       /\ bridge' = [bridge EXCEPT ![b] = end]
  /\ \/ UNCHANGED listening /\ broken' = broken \cup {b}
     \/ GroupDone /\ listening' = listening \ {b} /\ UNCHANGED broken
  /\ UNCHANGED <<sockets, stage, ctxDone, groupErr, child, childErr, childExitCode, result>>

ServeReturns(b) == ServeStops(b) \/ ServeFails(b)

\* Mutant: the error of a bridge is dropped
LeaveNil(b) ==
  /\ bridge[b] \in {"nil", "error"}
  /\ bridge' = [bridge EXCEPT ![b] = "done"]
  /\ UNCHANGED <<sockets, stage, listening, ctxDone, groupErr, broken, child, childErr, childExitCode, result>>

\* The goroutine ends; the group keeps the first error, which cancels groupCtx
Leave(b) ==
  /\ bridge[b] \in {"nil", "error"}
  /\ LET err == IF bridge[b] = "error" THEN "bridge" ELSE IF GroupDone THEN "none" ELSE "unexpected"
     IN  groupErr' = IF groupErr = "none" THEN err ELSE groupErr
  /\ bridge' = [bridge EXCEPT ![b] = "done"]
  /\ UNCHANGED <<sockets, stage, listening, ctxDone, broken, child, childErr, childExitCode, result>>

\* os.Executable fails, or runSandboxedProcess cannot start the command
ChildFails ==
  /\ child = "starting"
  /\ childErr' = "command"
  /\ child' = "ended"
  /\ UNCHANGED <<sockets, stage, listening, ctxDone, groupErr, bridge, broken, childExitCode, result>>

ChildStarts ==
  /\ child = "starting"
  /\ child' = "running"
  /\ UNCHANGED <<sockets, stage, listening, ctxDone, groupErr, bridge, broken, childErr, childExitCode, result>>

\* By itself, or because groupCtx was canceled (JobControl!CancelEndsRun)
ChildEnds ==
  /\ child = "running"
  /\ childExitCode' \in Code
  /\ child' = "ended"
  /\ UNCHANGED <<sockets, stage, listening, ctxDone, groupErr, bridge, broken, childErr, result>>

\* Mutant: the end of the command does not cancel the context
ChildLeavesAlone ==
  /\ child = "ended"
  /\ child' = "done"
  /\ UNCHANGED <<sockets, stage, listening, ctxDone, groupErr, bridge, broken, childErr, childExitCode, result>>

\* defer cancel()
ChildLeaves ==
  /\ child = "ended"
  /\ ctxDone' = TRUE
  /\ child' = "done"
  /\ UNCHANGED <<sockets, stage, listening, groupErr, bridge, broken, childErr, childExitCode, result>>

\* group.Wait; an error of the command takes precedence
Wait ==
  /\ stage = "waiting" /\ child = "done"
  /\ \A b \in sockets : bridge[b] = "done"
  /\ LET err == IF childErr = "none" THEN groupErr ELSE childErr
     IN  result' = [code |-> IF err = "none" THEN childExitCode ELSE 0, err |-> err]
  /\ ctxDone' = TRUE
  /\ stage' = "returned"
  /\ UNCHANGED <<sockets, listening, groupErr, bridge, broken, child, childErr, childExitCode>>

-------------------------------------------------------------------------------
ChildStep == ChildFails \/ ChildStarts \/ ChildEnds \/ ChildLeaves

Next ==
  \/ SetupStep \/ SetupFails \/ Start \/ Wait \/ ChildStep
  \/ \E b \in Bridge : ServeReturns(b) \/ Leave(b)

Spec == Init /\ [][Next]_vars

\* Scheduling; a canceled context ends the bridges (Forwarder!ServeReturnsAfterCancel)
\* and the command (JobControl!CancelEndsRun), which need not end by themselves
FairSpec ==
  /\ Spec
  /\ WF_vars(SetupStep) /\ WF_vars(Start) /\ WF_vars(Wait)
  /\ WF_vars(ChildStarts) /\ WF_vars(ChildLeaves) /\ WF_vars(GroupDone /\ ChildEnds)
  /\ \A b \in Bridge : WF_vars(GroupDone /\ ServeReturns(b)) /\ WF_vars(Leave(b))

-------------------------------------------------------------------------------
(* Properties *)

TypeOK ==
  /\ sockets \subseteq Bridge /\ listening \subseteq sockets
  /\ stage \in DOMAIN After \cup {"start", "waiting", "returned"}
  /\ ctxDone \in BOOLEAN
  /\ groupErr \in {"none", "bridge", "unexpected"}
  /\ bridge \in [Bridge -> {"none", "serving", "nil", "error", "done"}]
  /\ broken \subseteq sockets
  /\ child \in {"none", "starting", "running", "ended", "done"}
  /\ childErr \in {"none", "command"} /\ childExitCode \in Code \cup {0}
  /\ result \in [code : Code \cup {0}, err : {"none", "setup", "command", "bridge", "unexpected"}]

\* Once a bridge failed or stopped, or the command did, nothing the supervisor
\* returns hides it: an exit code means that the command ended with it and that
\* no bridge failed while it ran; and an orderly stop is never called unexpected
\* (namespace_linux.go:263-319)
OutcomeIsTrue ==
  /\ TypeOK
  /\ groupErr # "unexpected"
  /\ stage = "returned" /\ result.err = "none" =>
       child = "done" /\ childErr = "none" /\ result.code = childExitCode /\ groupErr = "none"
  /\ \A b \in Bridge : bridge[b] = "done" /\ ~ctxDone => groupErr = "bridge"

\* Whichever way RunSupervisor returns, no goroutine of the group is left running,
\* and no inner listener is left open (closeBridgeListeners, the watchers of the
\* bridges) but one whose Accept failed by itself: nobody closes that before the
\* process exits.
NothingOutlivesSupervisor ==
  stage = "returned" =>
    /\ listening \subseteq broken
    /\ child \in {"none", "done"} /\ \A b \in Bridge : bridge[b] \in {"none", "done"}

\* The first end, of the command or of a bridge, ends all of them
FirstEndEndsAll ==
  child = "ended" \/ (\E b \in Bridge : bridge[b] \in {"nil", "error"}) ~> stage = "returned"
===============================================================================
