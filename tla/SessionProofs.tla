----------------------------- MODULE SessionProofs -----------------------------
(***************************************************************************)
(* What a session reports and leaves behind, for every set of connections  *)
(* and of exit codes: the supervisor by itself, runWithProxies by itself,  *)
(* and the two processes together, of which a session is an implementation *)
(* of each.                                                                *)
(***************************************************************************)
EXTENDS Session, TLAPS

-------------------------------------------------------------------------------
(* The supervisor, for every choice of the configured sockets *)

\* Where a goroutine of the group stands that does not run.
Stopped == {"none", "done"}

\* The stages of the setup.
SupSetup == {"validate", "loopback", "http", "socks", "subreaper", "drop", "ambient"}

\* The stages of the setup lead to one another or to the start.
LEMMA SupStages == DOMAIN Sup!After = SupSetup /\ \A s \in SupSetup : Sup!After[s] \in SupSetup \cup {"start"}
  BY DEF Sup!After, SupSetup

\* Before the goroutines are started, and when the setup fails, none runs and
\* nothing was reported.
SupQuiet ==
  /\ supGroupErr = "none" /\ supChildErr = "none" /\ supChild = "none"
  /\ supBridge = [b \in Sup!Bridge |-> "none"] /\ supBroken = {}

\* A bridge that returned nil, or is done, was told to stop or reported why not;
\* only the command's end cancels the context while the group is waited for.
SupGroupOK ==
  /\ supGroupErr # "unexpected"
  /\ \A b \in Sup!Bridge : supBridge[b] = "nil" => Sup!GroupDone
  /\ \A b \in Sup!Bridge : supBridge[b] = "done" /\ ~supCtxDone => supGroupErr = "bridge"
  /\ supChild = "done" => supCtxDone

\* What follows from where RunSupervisor stands.
SupStageOK ==
  /\ supStage \in DOMAIN Sup!After \cup {"start"} => SupQuiet /\ ~supCtxDone
  /\ supStage = "waiting" =>
       /\ supChild # "none"
       /\ \A b \in Sup!Bridge : supBridge[b] = "none" <=> b \notin supSockets
       /\ \A b \in supListening : supBridge[b] = "serving" \/ b \in supBroken
  /\ supStage = "returned" =>
       /\ supListening \subseteq supBroken
       /\ supChild \in Stopped /\ \A b \in Sup!Bridge : supBridge[b] \in Stopped
       /\ supResult.err = "none" =>
            supChild = "done" /\ supChildErr = "none" /\ supResult.code = supChildExitCode /\ supGroupErr = "none"

\* The inductive invariant of the supervisor.
SupervisorInvariant == Sup!TypeOK /\ SupGroupOK /\ SupStageOK

\* A new supervisor has opened nothing and started nothing.
LEMMA SupInit == Sup!Init => SupervisorInvariant
<1> SUFFICES ASSUME Sup!Init PROVE SupervisorInvariant
  OBVIOUS
<1> USE SupStages DEF Sup!Init, Sup!Bridge, SupSetup
<1>1. Sup!TypeOK
  BY DEF Sup!TypeOK
<1>2. SupGroupOK
  BY DEF SupGroupOK, Sup!GroupDone
<1>3. SupStageOK
  BY DEF SupStageOK, SupQuiet
<1> QED
  BY <1>1, <1>2, <1>3 DEF SupervisorInvariant

\* Every step of the setup, of a goroutine and of the wait keeps the invariant.
LEMMA SupStep == SupervisorInvariant /\ [Sup!Next]_(Sup!vars) => SupervisorInvariant'
<1> SUFFICES ASSUME SupervisorInvariant, [Sup!Next]_(Sup!vars) PROVE SupervisorInvariant'
  OBVIOUS
<1> USE SupStages DEF SupervisorInvariant, Sup!TypeOK, SupGroupOK, SupStageOK, SupQuiet,
                      Sup!GroupDone, Sup!Bridge, SupSetup, Stopped
<1>1. CASE Sup!SetupStep
  <2>1. Sup!TypeOK'
    <3>1. supStage' \in SupSetup \cup {"start"}
      BY <1>1 DEF Sup!SetupStep
    <3>2. supListening' \subseteq supSockets'
      BY <1>1 DEF Sup!SetupStep
    <3> QED
      BY <1>1, <3>1, <3>2 DEF Sup!SetupStep
  <2>2. SupGroupOK'
    BY <1>1 DEF Sup!SetupStep
  <2>3. SupStageOK'
    BY <1>1 DEF Sup!SetupStep
  <2> QED
    BY <2>1, <2>2, <2>3
<1>2. CASE Sup!SetupFails
  BY <1>2 DEF Sup!SetupFails
<1>3. CASE Sup!Start
  BY <1>3 DEF Sup!Start
<1>4. CASE Sup!Wait
  <2>1. Sup!TypeOK'
    BY <1>4 DEF Sup!Wait
  <2>2. SupGroupOK'
    BY <1>4 DEF Sup!Wait
  <2>3. SupStageOK'
    <3>1. supListening \subseteq supBroken /\ \A b \in Sup!Bridge : supBridge[b] \in Stopped
      BY <1>4 DEF Sup!Wait
    <3>2. supResult'.err = "none" => supChildErr = "none" /\ supResult'.code = supChildExitCode /\ supGroupErr = "none"
      BY <1>4 DEF Sup!Wait
    <3> QED
      BY <1>4, <3>1, <3>2 DEF Sup!Wait
  <2> QED
    BY <2>1, <2>2, <2>3
<1>5. CASE Sup!ChildFails
  BY <1>5 DEF Sup!ChildFails
<1>6. CASE Sup!ChildStarts
  BY <1>6 DEF Sup!ChildStarts
<1>7. CASE Sup!ChildEnds
  BY <1>7 DEF Sup!ChildEnds
<1>8. CASE Sup!ChildLeaves
  BY <1>8 DEF Sup!ChildLeaves
<1>9. ASSUME NEW b \in Sup!Bridge, Sup!ServeReturns(b) PROVE SupervisorInvariant'
  <2>1. CASE Sup!ServeStops(b)
    BY <2>1 DEF Sup!ServeStops
  <2>2. CASE Sup!ServeFails(b)
    <3>1. supStage = "waiting" /\ b \in supSockets
      BY <2>2 DEF Sup!ServeFails
    <3>2. PICK end \in {"nil", "error"} :
            (end = "nil" => Sup!GroupDone) /\ supBridge' = [supBridge EXCEPT ![b] = end]
      BY <2>2 DEF Sup!ServeFails
    <3>3. /\ \/ supListening' = supListening /\ supBroken' = supBroken \cup {b}
             \/ supListening' = supListening \ {b} /\ supBroken' = supBroken
          /\ UNCHANGED <<supSockets, supStage, supCtxDone, supGroupErr, supChild, supChildErr,
                         supChildExitCode, supResult>>
      BY <2>2 DEF Sup!ServeFails
    <3>4. Sup!TypeOK'
      BY <3>1, <3>2, <3>3
    <3>5. SupGroupOK'
      BY <3>2, <3>3
    <3>6. SupStageOK'
      <4>1. \A c \in supListening' : supBridge'[c] = "serving" \/ c \in supBroken'
        BY <3>1, <3>2, <3>3
      <4>2. \A c \in Sup!Bridge : supBridge'[c] = "none" <=> c \notin supSockets'
        BY <3>1, <3>2, <3>3
      <4> QED
        BY <3>1, <3>3, <4>1, <4>2
    <3> QED
      BY <3>4, <3>5, <3>6
  <2> QED
    BY <1>9, <2>1, <2>2 DEF Sup!ServeReturns
<1>10. ASSUME NEW b \in Sup!Bridge, Sup!Leave(b) PROVE SupervisorInvariant'
  BY <1>10 DEF Sup!Leave
<1>11. CASE UNCHANGED Sup!vars
  BY <1>11 DEF Sup!vars
<1> QED
  BY <1>1, <1>2, <1>3, <1>4, <1>5, <1>6, <1>7, <1>8, <1>9, <1>10, <1>11 DEF Sup!Next, Sup!ChildStep

\* The supervisor is always in a state the invariant describes.
THEOREM SupervisorInvariantHolds == Sup!Spec => []SupervisorInvariant
  BY SupInit, SupStep, PTL DEF Sup!Spec

\* What the supervisor returns hides no failure (group.Wait, lines 310-319), and
\* a bridge that stopped because it was told to is never called unexpected.
THEOREM SupervisorOutcome == Sup!Spec => []Sup!OutcomeIsTrue
<1>1. SupervisorInvariant => Sup!OutcomeIsTrue
  BY DEF SupervisorInvariant, Sup!TypeOK, SupGroupOK, SupStageOK, Sup!OutcomeIsTrue
<1> QED
  BY <1>1, SupervisorInvariantHolds, PTL

\* Whichever way RunSupervisor returns, no goroutine of its group is left, and no
\* listener but one whose Accept failed by itself and that no watcher closed any more.
THEOREM SupervisorLeavesNothing == Sup!Spec => []Sup!NothingOutlivesSupervisor
<1>1. SupervisorInvariant => Sup!NothingOutlivesSupervisor
  BY DEF SupervisorInvariant, SupStageOK, Sup!NothingOutlivesSupervisor, Stopped
<1> QED
  BY <1>1, SupervisorInvariantHolds, PTL

-------------------------------------------------------------------------------
(* Queues: what Append, Head and Tail, and dropping the last element leave *)

\* An element is registered or sent: it is the last one, the others stay.
LEMMA Appended ==
  ASSUME NEW S, NEW q \in Seq(S), NEW e \in S
  PROVE  /\ Append(q, e) \in Seq(S) /\ Len(Append(q, e)) = Len(q) + 1
         /\ Append(q, e)[Len(q) + 1] = e
         /\ \A i \in 1..Len(q) : Append(q, e)[i] = q[i]
  OBVIOUS

\* An element is received: the first one, and the others move up.
LEMMA Received ==
  ASSUME NEW S, NEW q \in Seq(S), q # <<>>
  PROVE  /\ Head(q) = q[1] /\ Head(q) \in S /\ Tail(q) \in Seq(S)
         /\ Len(q) \in Nat \ {0} /\ Len(Tail(q)) = Len(q) - 1
         /\ \A i \in 1..Len(Tail(q)) : Tail(q)[i] = q[i + 1]
  OBVIOUS

\* The deferred call that was registered last is run: the others stay.
LEMMA Popped ==
  ASSUME NEW S, NEW q \in Seq(S), q # <<>>
  PROVE  /\ SubSeq(q, 1, Len(q) - 1) \in Seq(S)
         /\ Len(q) \in Nat \ {0} /\ Len(SubSeq(q, 1, Len(q) - 1)) = Len(q) - 1
         /\ \A i \in 1..(Len(q) - 1) : SubSeq(q, 1, Len(q) - 1)[i] = q[i]
         /\ q[Len(q)] \in S
<1> DEFINE m == Len(q) - 1
<1>1. Len(q) \in Nat \ {0} /\ m \in Nat /\ m < Len(q)
  OBVIOUS
<1>2. q[Len(q)] \in S
  BY <1>1
<1> HIDE DEF m
<1>3. SubSeq(q, 1, m) \in Seq(S) /\ \A i \in 1..m : SubSeq(q, 1, m)[i] = q[i]
  BY <1>1
<1>4. Len(SubSeq(q, 1, m)) = m
  BY <1>1
<1> QED
  BY <1>1, <1>2, <1>3, <1>4 DEF m

-------------------------------------------------------------------------------
(* runWithProxies *)

\* Where runWithProxies may stand.
Stages == {"dir", "listenHTTP", "listenSOCKS", "router", "newSOCKS", "start",
           "selecting", "awaiting", "waiting", "unwinding", "returned"}
\* The stages before the goroutines are started.
Fresh == {"dir", "listenHTTP", "listenSOCKS", "router", "newSOCKS", "start"}
\* What namespace.Run returns.
CommandResult == [exitCode : Code, err : {"none", "command"}]

\* What was set up and what is deferred
Types ==
  /\ stage \in Stages
  /\ ctxDone \in BOOLEAN
  /\ serverErr \in {"none", "failed", "unexpected"}
  /\ result \in [exitCode : Code, err : {"none", "setup", "command", "failed", "unexpected"}]

Deferrable == {"dir", "http", "socks", "cancel"}

\* What is held is what is deferred, in the order of the setup; how much of it
\* there is follows from the stage.
SetupOK ==
  /\ deferred \in Seq(Deferrable)
  /\ \/ /\ Len(deferred) = 0 /\ held = {}
        /\ stage \in {"dir", "unwinding", "returned"}
     \/ /\ Len(deferred) = 1 /\ held = {"dir"}
        /\ deferred[1] = "dir"
        /\ stage \in {"listenHTTP", "unwinding"}
     \/ /\ Len(deferred) = 2 /\ held = {"dir", "http"}
        /\ deferred[1] = "dir" /\ deferred[2] = "http"
        /\ stage \in {"listenSOCKS", "unwinding"}
     \/ /\ Len(deferred) = 3 /\ held = {"dir", "http", "socks"}
        /\ deferred[1] = "dir" /\ deferred[2] = "http" /\ deferred[3] = "socks"
        /\ stage \in {"router", "newSOCKS", "start", "unwinding"}
     \/ /\ Len(deferred) = 4 /\ held = {"dir", "http", "socks"}
        /\ deferred[1] = "dir" /\ deferred[2] = "http" /\ deferred[3] = "socks" /\ deferred[4] = "cancel"
        /\ stage \in {"selecting", "awaiting", "waiting", "unwinding"}

\* The goroutine of a proxy still counts in the wait group; has sent its error.
Active(s) == IF goroutine[s] \in {"serving", "sent"} THEN 1 ELSE 0
Sent(s) == IF goroutine[s] \in {"sent", "done"} THEN 1 ELSE 0
Work(s) == IF s = "http" THEN httpWork ELSE socksWork

\* runWithProxies before the goroutines are started, or after a setup that failed
NotStarted == stage \in Fresh \/ (stage \in {"unwinding", "returned"} /\ result.err = "setup")

\* A goroutine is started with all others; it has sent what its proxy returned,
\* which has no work left and returned nil only after a cancellation.
ServerOK(s) ==
  /\ goroutine[s] = "none" <=> NotStarted
  /\ goroutine[s] = "none" => Work(s) = {}
  /\ goroutine[s] \in {"sent", "done"} => Returned(s)
  /\ Returned(s) => Work(s) = {} /\ Result(s) \in {"nil", "error"}
  /\ ~Returned(s) => Result(s) = "none"
  /\ Returned(s) /\ Result(s) = "nil" => ctxDone

ProxiesOK ==
  /\ goroutine \in [Server -> {"none", "serving", "sent", "done"}]
  /\ \A s \in Server : ServerOK(s)
  /\ waitGroup = Active("http") + Active("socks")

\* One of the proxies returned an error.
ProxyFailed == "error" \in {httpResult, socksResult}

\* An error that was sent is in the channel or in serverErr.
ChannelOK ==
  /\ serverErrors \in Seq({"nil", "error"})
  /\ Len(serverErrors) + (IF serverErr = "none" THEN 0 ELSE 1) = Sent("http") + Sent("socks")
  /\ \A i \in 1..Len(serverErrors) : IF serverErrors[i] = "nil" THEN ctxDone ELSE ProxyFailed

\* The command returned by itself, or after a cancellation.
CommandOver == {"returned", "stopped"}

\* The result of the command waits in its channel until the select or the wait
\* for the command receives it.
CommandOK ==
  /\ command = "idle" <=> NotStarted
  /\ \/ command \in {"idle", "running"} /\ commandResults = <<>>
     \/ /\ command \in CommandOver /\ stage \in {"selecting", "awaiting"}
        /\ \E r \in CommandResult : commandResults = <<r>>
     \/ /\ command \in CommandOver /\ stage \in {"waiting", "unwinding", "returned"}
        /\ commandResults = <<>>
  /\ command = "stopped" => ctxDone

\* The context is canceled, and the outcome complete, once the first end was seen;
\* an outcome without an error is that of a command nobody had stopped.
OutcomeOK ==
  /\ stage \in Fresh \cup {"selecting"} => ~ctxDone /\ serverErr = "none"
  /\ stage \in Fresh \cup {"selecting", "awaiting"} => result = NoResult
  /\ stage \in {"awaiting", "waiting"} => ctxDone
  /\ stage = "awaiting" => serverErr # "none"
  /\ serverErr # "unexpected" /\ result.err # "unexpected"
  /\ serverErr = "failed" \/ result.err = "failed" => ProxyFailed
  /\ stage \in {"waiting", "unwinding", "returned"} =>
       /\ result.err = "none" => serverErr = "none" /\ command = "returned"
       /\ stage = "waiting" => result.err # "setup"
       /\ result.err # "setup" => command \in CommandOver /\ ctxDone
       /\ result.err = "setup" => serverErr = "none"
  /\ stage \in {"unwinding", "returned"} => waitGroup = 0

\* The inductive invariant of runWithProxies.
AppInvariant == Types /\ SetupOK /\ ProxiesOK /\ ChannelOK /\ CommandOK /\ OutcomeOK

\* The stages of the setup, and those that make something.
LEMMA StageNames == DOMAIN After = Fresh \ {"start"} /\ DOMAIN Makes = {"dir", "listenHTTP", "listenSOCKS"}
  BY DEF After, Makes, Fresh

\* runWithProxies begins with nothing made, deferred or started.
LEMMA AppInit == Init => AppInvariant
<1> SUFFICES ASSUME Init PROVE AppInvariant
  OBVIOUS
<1> USE CodeAssumption DEF Init, Http!Init, Socks!Init, NoResult, Fresh, Stages, NotStarted
<1>1. Types
  BY DEF Types
<1>2. SetupOK
  BY DEF SetupOK
<1>3. ProxiesOK
  BY DEF ProxiesOK, ServerOK, Active, Work, Returned, Result, Server
<1>4. ChannelOK
  BY DEF ChannelOK, Sent, Server
<1>5. CommandOK
  BY DEF CommandOK
<1>6. OutcomeOK
  BY DEF OutcomeOK
<1> QED
  BY <1>1, <1>2, <1>3, <1>4, <1>5, <1>6 DEF AppInvariant

\* Every step keeps what is held and what is deferred in step.
LEMMA SetupStep == AppInvariant /\ [Next]_vars => SetupOK'
<1> SUFFICES ASSUME AppInvariant, [Next]_vars PROVE SetupOK'
  OBVIOUS
<1>0. SetupOK
  BY DEF AppInvariant
<1>1. CASE Make
  <2>1. /\ stage \in {"dir", "listenHTTP", "listenSOCKS"} /\ Makes[stage] \in Deferrable
        /\ held' = held \cup {Makes[stage]} /\ deferred' = Append(deferred, Makes[stage])
        /\ stage' = After[stage]
    BY <1>1, StageNames DEF Make, Makes, Deferrable
  <2>2. /\ deferred' \in Seq(Deferrable) /\ Len(deferred') = Len(deferred) + 1
        /\ deferred'[Len(deferred) + 1] = Makes[stage]
        /\ \A i \in 1..Len(deferred) : deferred'[i] = deferred[i]
    BY <1>0, <2>1, Appended DEF SetupOK
  <2>3. CASE stage = "dir"
    BY <1>0, <2>1, <2>2, <2>3 DEF SetupOK, Makes, After
  <2>4. CASE stage = "listenHTTP"
    <3>1. Len(deferred) = 1 /\ held = {"dir"} /\ deferred[1] = "dir"
      BY <1>0, <2>4 DEF SetupOK
    <3>2. Makes[stage] = "http" /\ stage' = "listenSOCKS"
      BY <2>1, <2>4 DEF Makes, After
    <3>3. Len(deferred') = 2 /\ deferred'[1] = "dir" /\ deferred'[2] = "http"
      BY <2>2, <3>1, <3>2
    <3> QED
      BY <2>1, <2>2, <3>1, <3>2, <3>3 DEF SetupOK
  <2>5. CASE stage = "listenSOCKS"
    <3>1. Len(deferred) = 2 /\ held = {"dir", "http"} /\ deferred[1] = "dir" /\ deferred[2] = "http"
      BY <1>0, <2>5 DEF SetupOK
    <3>2. Makes[stage] = "socks" /\ stage' = "router"
      BY <2>1, <2>5 DEF Makes, After
    <3>3. Len(deferred') = 3 /\ deferred'[1] = "dir" /\ deferred'[2] = "http" /\ deferred'[3] = "socks"
      BY <2>2, <3>1, <3>2
    <3> QED
      BY <2>1, <2>2, <3>1, <3>2, <3>3 DEF SetupOK
  <2> QED
    BY <2>1, <2>3, <2>4, <2>5
<1>2. CASE Start
  <2>1. /\ deferred' \in Seq(Deferrable) /\ Len(deferred') = Len(deferred) + 1
        /\ deferred'[Len(deferred) + 1] = "cancel"
        /\ \A i \in 1..Len(deferred) : deferred'[i] = deferred[i]
    BY <1>0, <1>2, Appended DEF Start, SetupOK, Deferrable
  <2> QED
    <3>1. /\ Len(deferred) = 3 /\ held = {"dir", "http", "socks"}
          /\ deferred[1] = "dir" /\ deferred[2] = "http" /\ deferred[3] = "socks"
      BY <1>0, <1>2 DEF Start, SetupOK
    <3>2. /\ Len(deferred') = 4 /\ deferred'[1] = "dir" /\ deferred'[2] = "http"
          /\ deferred'[3] = "socks" /\ deferred'[4] = "cancel"
      BY <2>1, <3>1
    <3> QED
      BY <1>2, <2>1, <3>1, <3>2 DEF Start, SetupOK
<1>3. CASE Unwind
  <2>1. /\ deferred # <<>> /\ stage = "unwinding" /\ stage' = stage
        /\ held' = held \ {deferred[Len(deferred)]}
        /\ deferred' = SubSeq(deferred, 1, Len(deferred) - 1)
    BY <1>3 DEF Unwind
  <2>2. /\ deferred' \in Seq(Deferrable) /\ Len(deferred) # 0 /\ Len(deferred') = Len(deferred) - 1
        /\ \A i \in 1..(Len(deferred) - 1) : deferred'[i] = deferred[i]
    BY <1>0, <2>1, Popped DEF SetupOK
  <2>3. CASE Len(deferred) = 1
    BY <1>0, <2>1, <2>2, <2>3 DEF SetupOK
  <2>4. CASE Len(deferred) = 2
    BY <1>0, <2>1, <2>2, <2>4 DEF SetupOK
  <2>5. CASE Len(deferred) = 3
    BY <1>0, <2>1, <2>2, <2>5 DEF SetupOK
  <2>6. CASE Len(deferred) = 4
    <3>1. Len(deferred') = 3 /\ \A i \in 1..3 : deferred'[i] = deferred[i]
      BY <2>2, <2>6
    <3>2. /\ held = {"dir", "http", "socks"} /\ deferred[1] = "dir" /\ deferred[2] = "http"
          /\ deferred[3] = "socks" /\ deferred[4] = "cancel"
      BY <1>0, <2>6 DEF SetupOK
    <3>3. held' = held
      BY <2>1, <2>6, <3>2
    <3> QED
      BY <2>1, <2>2, <3>1, <3>2, <3>3 DEF SetupOK
  <2> QED
    BY <1>0, <2>2, <2>3, <2>4, <2>5, <2>6 DEF SetupOK
<1>4. CASE Prepare
  BY <1>0, <1>4 DEF SetupOK, Prepare, After, setup
<1>5. CASE SetupFails
  BY <1>0, <1>5, StageNames DEF SetupOK, SetupFails, setup, Fresh
<1>6. CASE SelectCommand \/ SelectServer \/ AwaitCommand \/ Wait
  BY <1>0, <1>6 DEF SetupOK, SelectCommand, SelectServer, AwaitCommand, Wait, setup
<1>7. CASE Return
  <2>1. deferred = <<>> => Len(deferred) = 0
    OBVIOUS
  <2> QED
    BY <1>0, <1>7, <2>1 DEF SetupOK, Return, setup
<1>8. CASE UNCHANGED <<stage, setup>>
  BY <1>0, <1>8 DEF SetupOK, setup
<1>9. CASE HttpWorks \/ HttpReturns \/ SocksWorks \/ SocksReturns \/ CommandReturns \/ UNCHANGED vars
  BY <1>8, <1>9 DEF HttpWorks, HttpReturns, SocksWorks, SocksReturns, CommandReturns, vars
<1>10. ASSUME NEW s \in Server, Send(s) \/ Done(s) PROVE SetupOK'
  BY <1>8, <1>10 DEF Send, Done
<1> QED
  BY <1>1, <1>2, <1>3, <1>4, <1>5, <1>6, <1>7, <1>9, <1>10 DEF Next, RunStep

\* Every step keeps the types of the stage, the context and the outcome.
LEMMA TypesStep == AppInvariant /\ [Next]_vars => Types'
<1> SUFFICES ASSUME AppInvariant, [Next]_vars PROVE Types'
  OBVIOUS
<1> USE StageNames, CodeAssumption DEF AppInvariant, Types, Fresh, Stages
<1>1. CASE Make
  BY <1>1 DEF Make, After
<1>2. CASE Prepare
  BY <1>2 DEF Prepare, After
<1>3. CASE SetupFails
  BY <1>3 DEF SetupFails
<1>4. CASE Start
  BY <1>4 DEF Start
<1>5. CASE SelectCommand
  BY <1>5 DEF SelectCommand, CommandOK, CommandResult
<1>6. CASE SelectServer
  BY <1>6 DEF SelectServer
<1>7. CASE AwaitCommand
  BY <1>7 DEF AwaitCommand, CommandOK, CommandResult
<1>8. CASE Wait
  BY <1>8 DEF Wait
<1>9. CASE Unwind
  BY <1>9 DEF Unwind
<1>10. CASE Return
  BY <1>10 DEF Return
<1>11. CASE HttpWorks \/ HttpReturns \/ SocksWorks \/ SocksReturns
  BY <1>11 DEF HttpWorks, HttpReturns, SocksWorks, SocksReturns, Http!Begin, Http!End,
               Http!Return, Socks!Begin, Socks!End, Socks!Return
<1>12. CASE CommandReturns \/ UNCHANGED vars
  BY <1>12 DEF CommandReturns, vars
<1>13. ASSUME NEW s \in Server, Send(s) \/ Done(s) PROVE Types'
  BY <1>13 DEF Send, Done
<1> QED
  BY <1>1, <1>2, <1>3, <1>4, <1>5, <1>6, <1>7, <1>8, <1>9, <1>10, <1>11, <1>12, <1>13 DEF Next,
     RunStep

\* A canceled context stays canceled.
LEMMA ContextStays == AppInvariant /\ [Next]_vars => (ctxDone => ctxDone')
<1> SUFFICES ASSUME AppInvariant, [Next]_vars, ctxDone PROVE ctxDone'
  OBVIOUS
<1>1. CASE RunStep
  BY <1>1 DEF RunStep, Make, Prepare, SetupFails, Start, SelectCommand, SelectServer,
              AwaitCommand, Wait, Unwind, Return
<1>2. CASE HttpWorks \/ HttpReturns \/ SocksWorks \/ SocksReturns
  BY <1>2 DEF HttpWorks, HttpReturns, SocksWorks, SocksReturns, Http!Begin, Http!End, Http!Return,
              Socks!Begin, Socks!End, Socks!Return
<1>3. CASE CommandReturns \/ UNCHANGED vars
  BY <1>3 DEF CommandReturns, vars
<1>4. ASSUME NEW s \in Server, Send(s) \/ Done(s) PROVE ctxDone'
  BY <1>4 DEF Send, Done
<1> QED
  BY <1>1, <1>2, <1>3, <1>4 DEF Next

\* What a proxy returned stays, so a proxy that failed has failed for good.
LEMMA FailureStays == AppInvariant /\ [Next]_vars => (ProxyFailed => ProxyFailed')
<1> SUFFICES ASSUME AppInvariant, [Next]_vars, ProxyFailed PROVE ProxyFailed'
  OBVIOUS
<1>1. CASE UNCHANGED <<httpResult, socksResult>>
  BY <1>1 DEF ProxyFailed
<1>2. CASE RunStep
  BY <1>1, <1>2 DEF RunStep, Make, Prepare, SetupFails, Start, SelectCommand, SelectServer,
                    AwaitCommand, Wait, Unwind, Return, proxies, http, socks
<1>3. CASE HttpWorks \/ SocksWorks
  BY <1>1, <1>3 DEF HttpWorks, SocksWorks, Http!Begin, Http!End, Socks!Begin, Socks!End, http, socks
<1>4. CASE HttpReturns
  <2>1. httpResult = "none" /\ UNCHANGED socksResult
    BY <1>4 DEF HttpReturns, Http!Return, socks, AppInvariant, ProxiesOK, ServerOK, Returned, Result, Server
  <2> QED
    BY <2>1 DEF ProxyFailed
<1>5. CASE SocksReturns
  <2>1. socksResult = "none" /\ UNCHANGED httpResult
    BY <1>5 DEF SocksReturns, Socks!Return, http, AppInvariant, ProxiesOK, ServerOK, Returned, Result, Server
  <2> QED
    BY <2>1 DEF ProxyFailed
<1>6. CASE CommandReturns \/ UNCHANGED vars
  BY <1>1, <1>6 DEF CommandReturns, vars, proxies, http, socks
<1>7. ASSUME NEW s \in Server, Send(s) \/ Done(s) PROVE ProxyFailed'
  BY <1>1, <1>7 DEF Send, Done, http, socks
<1> QED
  BY <1>2, <1>3, <1>4, <1>5, <1>6, <1>7 DEF Next

\* Only the go statements start anything, and only once.
LEMMA StartedOnce == AppInvariant /\ [Next]_vars => (NotStarted' <=> NotStarted /\ ~Start)
<1> SUFFICES ASSUME AppInvariant, [Next]_vars PROVE NotStarted' <=> NotStarted /\ ~Start
  OBVIOUS
<1> USE StageNames DEF NotStarted, Fresh
<1>1. CASE Make \/ Prepare
  BY <1>1 DEF Make, Prepare, After, Start
<1>2. CASE SetupFails
  BY <1>2 DEF SetupFails, Start
<1>3. CASE Start
  BY <1>3 DEF Start
<1>4. CASE SelectCommand \/ SelectServer \/ AwaitCommand
  BY <1>4 DEF SelectCommand, SelectServer, AwaitCommand, Start
<1>5. CASE Wait
  BY <1>5 DEF Wait, Start, AppInvariant, OutcomeOK, Types
<1>6. CASE Unwind \/ Return
  BY <1>6 DEF Unwind, Return, Start
<1>7. CASE UNCHANGED <<stage, result>> /\ ~Start
  BY <1>7
<1>8. CASE HttpWorks \/ HttpReturns \/ SocksWorks \/ SocksReturns
  BY <1>7, <1>8 DEF HttpWorks, HttpReturns, SocksWorks, SocksReturns, Start
<1>9. CASE CommandReturns \/ UNCHANGED vars
  BY <1>7, <1>9 DEF CommandReturns, vars, Start
<1>10. ASSUME NEW s \in Server, Send(s) \/ Done(s) PROVE NotStarted' <=> NotStarted /\ ~Start
  BY <1>7, <1>10 DEF Send, Done, Start
<1> QED
  BY <1>1, <1>2, <1>3, <1>4, <1>5, <1>6, <1>8, <1>9, <1>10 DEF Next, RunStep

\* Every step keeps what is said of the goroutine and the service of a proxy.
LEMMA ServerStep ==
  ASSUME AppInvariant, [Next]_vars, NEW s \in Server
  PROVE  ServerOK(s)'
<1>0. ServerOK(s) /\ goroutine \in [Server -> {"none", "serving", "sent", "done"}]
  BY DEF AppInvariant, ProxiesOK
<1>c. /\ ctxDone => ctxDone'
      /\ NotStarted' <=> NotStarted /\ ~Start
  BY ContextStays, StartedOnce
<1> USE DEF ServerOK, Returned, Result, Work, Server, http, socks, proxies
<1>1. CASE Start
  BY <1>0, <1>1, <1>c DEF Start
<1>2. CASE UNCHANGED proxies /\ ~Start
  BY <1>0, <1>2, <1>c
<1>3. CASE Make \/ Prepare \/ SetupFails \/ SelectCommand \/ AwaitCommand \/ Wait \/ Unwind \/ Return
  <2>1. UNCHANGED proxies
    BY <1>3 DEF Make, Prepare, SetupFails, SelectCommand, AwaitCommand, Wait, Unwind, Return
  <2>2. ~Start
    BY <1>3, StageNames DEF Start, Make, Prepare, SetupFails, SelectCommand, AwaitCommand, Wait,
                            Unwind, Return, Fresh
  <2> QED
    BY <1>2, <2>1, <2>2
<1>4. CASE SelectServer
  BY <1>0, <1>4, <1>c DEF SelectServer, Start
<1>5. CASE HttpWorks
  BY <1>0, <1>5, <1>c DEF HttpWorks, Http!Begin, Http!End, Start
<1>6. CASE HttpReturns
  BY <1>0, <1>6, <1>c DEF HttpReturns, Http!Return, Start
<1>7. CASE SocksWorks
  BY <1>0, <1>7, <1>c DEF SocksWorks, Socks!Begin, Socks!End, Start
<1>8. CASE SocksReturns
  BY <1>0, <1>8, <1>c DEF SocksReturns, Socks!Return, Start
<1>9. ASSUME NEW t \in Server, Send(t) \/ Done(t) PROVE ServerOK(s)'
  BY <1>0, <1>9, <1>c DEF Send, Done, Start
<1>10. CASE CommandReturns \/ UNCHANGED vars
  BY <1>0, <1>10, <1>c DEF CommandReturns, vars, Start
<1> QED
  BY <1>1, <1>3, <1>4, <1>5, <1>6, <1>7, <1>8, <1>9, <1>10 DEF Next, RunStep

\* Every step keeps the wait group at the number of goroutines that are not done.
LEMMA ProxiesStep == AppInvariant /\ [Next]_vars => ProxiesOK'
<1> SUFFICES ASSUME AppInvariant, [Next]_vars PROVE ProxiesOK'
  OBVIOUS
<1>0. /\ goroutine \in [Server -> {"none", "serving", "sent", "done"}]
      /\ waitGroup = Active("http") + Active("socks")
  BY DEF AppInvariant, ProxiesOK
<1>1. \A s \in Server : ServerOK(s)'
  BY ServerStep
<1>2. goroutine' \in [Server -> {"none", "serving", "sent", "done"}] /\ waitGroup' = (Active("http") + Active("socks"))'
  <2>1. CASE Start
    BY <1>0, <2>1 DEF Start, Active, Server
  <2>2. CASE UNCHANGED <<goroutine, waitGroup>>
    BY <1>0, <2>2 DEF Active
  <2>3. CASE RunStep /\ ~Start
    BY <2>2, <2>3 DEF RunStep, Make, Prepare, SetupFails, SelectCommand, SelectServer,
                      AwaitCommand, Wait, Unwind, Return, proxies
  <2>4. CASE HttpWorks \/ HttpReturns \/ SocksWorks \/ SocksReturns \/ CommandReturns \/ UNCHANGED vars
    BY <2>2, <2>4 DEF HttpWorks, HttpReturns, SocksWorks, SocksReturns, CommandReturns, vars,
                      proxies
  <2>5. ASSUME NEW s \in Server, Send(s) PROVE goroutine' \in [Server -> {"none", "serving", "sent", "done"}] /\ waitGroup' = (Active("http") + Active("socks"))'
    BY <1>0, <2>5 DEF Send, Active, Server
  <2>6. ASSUME NEW s \in Server, Done(s) PROVE goroutine' \in [Server -> {"none", "serving", "sent", "done"}] /\ waitGroup' = (Active("http") + Active("socks"))'
    BY <1>0, <2>6 DEF Done, Active, Server
  <2> QED
    BY <2>1, <2>3, <2>4, <2>5, <2>6 DEF Next
<1> QED
  BY <1>1, <1>2 DEF ProxiesOK

\* Every error of a proxy is sent once and received at most once.
LEMMA ChannelStep == AppInvariant /\ [Next]_vars => ChannelOK'
<1> SUFFICES ASSUME AppInvariant, [Next]_vars PROVE ChannelOK'
  OBVIOUS
<1>0. /\ serverErrors \in Seq({"nil", "error"})
      /\ Len(serverErrors) + (IF serverErr = "none" THEN 0 ELSE 1) = Sent("http") + Sent("socks")
      /\ \A i \in 1..Len(serverErrors) : IF serverErrors[i] = "nil" THEN ctxDone ELSE ProxyFailed
      /\ goroutine \in [Server -> {"none", "serving", "sent", "done"}]
  BY DEF AppInvariant, ChannelOK, ProxiesOK
<1>c. (ctxDone => ctxDone') /\ (ProxyFailed => ProxyFailed')
  BY ContextStays, FailureStays
<1>1. ASSUME UNCHANGED <<serverErrors, serverErr>>, Sent("http")' + Sent("socks")' = Sent("http") + Sent("socks")
      PROVE  ChannelOK'
  BY <1>0, <1>1, <1>c DEF ChannelOK
<1>2. CASE UNCHANGED <<serverErrors, serverErr, goroutine>>
  BY <1>1, <1>2 DEF Sent
<1>3. CASE Start
  <2>1. NotStarted
    BY <1>3 DEF Start, NotStarted, Fresh
  <2>2. goroutine["http"] = "none" /\ goroutine["socks"] = "none"
    BY <2>1 DEF AppInvariant, ProxiesOK, ServerOK, Server
  <2>3. goroutine'["http"] = "serving" /\ goroutine'["socks"] = "serving"
    BY <1>3 DEF Start, Server
  <2> QED
    BY <1>1, <1>3, <2>2, <2>3 DEF Start, Sent
<1>4. CASE SelectServer
  <2>1. serverErrors # <<>> /\ serverErrors' = Tail(serverErrors) /\ serverErr' # "none" /\ UNCHANGED goroutine
    BY <1>4 DEF SelectServer
  <2>2. serverErr = "none"
    BY <1>4 DEF SelectServer, AppInvariant, OutcomeOK
  <2>3. /\ serverErrors' \in Seq({"nil", "error"}) /\ Len(serverErrors') = Len(serverErrors) - 1
        /\ Len(serverErrors) \in Nat \ {0}
        /\ \A i \in 1..Len(serverErrors') : serverErrors'[i] = serverErrors[i + 1]
    BY <1>0, <2>1, Received
  <2>4. \A i \in 1..Len(serverErrors') : IF serverErrors'[i] = "nil" THEN ctxDone' ELSE ProxyFailed'
    BY <1>0, <1>c, <2>3
  <2> QED
    BY <1>0, <2>1, <2>2, <2>3, <2>4 DEF ChannelOK, Sent
<1>5. ASSUME NEW s \in Server, Send(s) PROVE ChannelOK'
  <2>1. /\ goroutine[s] = "serving" /\ Returned(s) /\ serverErrors' = Append(serverErrors, Result(s))
        /\ goroutine' = [goroutine EXCEPT ![s] = "sent"] /\ UNCHANGED <<serverErr, ctxDone>>
    BY <1>5 DEF Send
  <2>2. /\ Result(s) \in {"nil", "error"}
        /\ IF Result(s) = "nil" THEN ctxDone' ELSE ProxyFailed'
    BY <1>c, <2>1 DEF AppInvariant, ProxiesOK, ServerOK, Result, ProxyFailed
  <2>3. /\ serverErrors' \in Seq({"nil", "error"}) /\ Len(serverErrors') = Len(serverErrors) + 1
        /\ serverErrors'[Len(serverErrors) + 1] = Result(s) /\ Len(serverErrors) \in Nat
        /\ \A i \in 1..Len(serverErrors) : serverErrors'[i] = serverErrors[i]
    BY <1>0, <2>1, <2>2, Appended
  <2>4. \A i \in 1..Len(serverErrors') : IF serverErrors'[i] = "nil" THEN ctxDone' ELSE ProxyFailed'
    BY <1>0, <1>c, <2>1, <2>2, <2>3
  <2>5. Sent("http")' + Sent("socks")' = Sent("http") + Sent("socks") + 1
    BY <1>0, <2>1 DEF Sent, Server
  <2> QED
    BY <1>0, <2>1, <2>3, <2>4, <2>5 DEF ChannelOK, Sent
<1>6. ASSUME NEW s \in Server, Done(s) PROVE ChannelOK'
  <2>1. Sent("http")' + Sent("socks")' = Sent("http") + Sent("socks")
    BY <1>0, <1>6 DEF Done, Sent, Server
  <2> QED
    BY <1>1, <1>6, <2>1 DEF Done
<1>7. CASE RunStep /\ ~Start /\ ~SelectServer
  BY <1>2, <1>7 DEF RunStep, Make, Prepare, SetupFails, SelectCommand, AwaitCommand, Wait, Unwind,
                    Return, proxies
<1>8. CASE HttpWorks \/ HttpReturns \/ SocksWorks \/ SocksReturns \/ CommandReturns \/ UNCHANGED vars
  BY <1>2, <1>8 DEF HttpWorks, HttpReturns, SocksWorks, SocksReturns, CommandReturns, vars, proxies
<1> QED
  BY <1>3, <1>4, <1>5, <1>6, <1>7, <1>8 DEF Next

\* The command reports once, and what it reports is received once.
LEMMA CommandStep == AppInvariant /\ [Next]_vars => CommandOK'
<1> SUFFICES ASSUME AppInvariant, [Next]_vars PROVE CommandOK'
  OBVIOUS
<1>0. CommandOK
  BY DEF AppInvariant
<1>c. (NotStarted' <=> NotStarted /\ ~Start) /\ (ctxDone => ctxDone')
  BY StartedOnce, ContextStays
<1> USE DEF CommandOver
<1>1. CASE Start
  BY <1>0, <1>c, <1>1 DEF Start, CommandOK, NotStarted, Fresh
<1>2. CASE SelectCommand \/ AwaitCommand
  <2>1. \A r \in CommandResult : Tail(<<r>>) = <<>>
    OBVIOUS
  <2> QED
    BY <1>0, <1>c, <1>2, <2>1 DEF SelectCommand, AwaitCommand, Start, CommandOK
<1>3. CASE CommandReturns
  <2>1. PICK r \in CommandResult : commandResults' = Append(commandResults, r)
    BY <1>3, CodeAssumption DEF CommandReturns, CommandResult
  <2>2. commandResults = <<>> /\ command = "running" /\ command' \in CommandOver /\ UNCHANGED stage
    BY <1>0, <1>3 DEF CommandReturns, CommandOK
  <2>3. commandResults' = <<r>>
    BY <2>1, <2>2
  <2>4. stage \in {"selecting", "awaiting"}
    BY <2>2 DEF AppInvariant, OutcomeOK, Types, CommandOK, NotStarted, Fresh, Stages
  <2>5. ~NotStarted /\ ~NotStarted'
    BY <1>0, <1>c, <2>2 DEF CommandOK
  <2>6. command' = "stopped" => ctxDone'
    BY <1>3 DEF CommandReturns
  <2> QED
    BY <2>2, <2>3, <2>4, <2>5, <2>6 DEF CommandOK
<1>4. CASE SelectServer
  BY <1>0, <1>c, <1>4 DEF SelectServer, CommandOK, Start, runs
<1>5. CASE Wait \/ Unwind \/ Return
  BY <1>0, <1>c, <1>5 DEF Wait, Unwind, Return, CommandOK, Start, runs
<1>6. CASE Make \/ Prepare \/ SetupFails
  <2>1. NotStarted /\ NotStarted'
    BY <1>c, <1>6, StageNames DEF NotStarted, Start, Make, Prepare, SetupFails, Fresh
  <2> QED
    BY <1>0, <1>6, <2>1 DEF CommandOK, Make, Prepare, SetupFails, runs
<1>7. CASE UNCHANGED <<stage, runs>> /\ ~Start
  BY <1>0, <1>c, <1>7 DEF CommandOK, runs
<1>8. CASE HttpWorks \/ HttpReturns \/ SocksWorks \/ SocksReturns \/ UNCHANGED vars
  BY <1>7, <1>8 DEF HttpWorks, HttpReturns, SocksWorks, SocksReturns, vars, Start
<1>9. ASSUME NEW s \in Server, Send(s) \/ Done(s) PROVE CommandOK'
  BY <1>7, <1>9 DEF Send, Done, Start
<1> QED
  BY <1>1, <1>2, <1>3, <1>4, <1>5, <1>6, <1>8, <1>9 DEF Next, RunStep

\* Every step keeps the outcome what the select and the wait have made of it.
LEMMA OutcomeStep == AppInvariant /\ [Next]_vars => OutcomeOK'
<1> SUFFICES ASSUME AppInvariant, [Next]_vars PROVE OutcomeOK'
  OBVIOUS
<1>0. Types /\ OutcomeOK /\ CommandOK
  BY DEF AppInvariant
<1>c. ProxyFailed => ProxyFailed'
  BY FailureStays
<1> USE <1>c DEF OutcomeOK, Types
<1>1. CASE Make \/ Prepare
  <2>1. stage \in Fresh /\ stage' \in Fresh /\ UNCHANGED <<ctxDone, serverErr, result, waitGroup, command>>
    BY <1>1, StageNames DEF Make, Prepare, After, Fresh, proxies, runs
  <2> QED
    BY <1>0, <2>1 DEF Fresh
<1>2. CASE SetupFails
  <2>1. stage \in Fresh /\ stage # "start" /\ UNCHANGED <<ctxDone, serverErr, waitGroup, command>>
    BY <1>2, StageNames DEF SetupFails, proxies, runs
  <2>2. waitGroup = 0
    BY <2>1 DEF AppInvariant, ProxiesOK, ServerOK, NotStarted, Active, Server
  <2> QED
    BY <1>0, <1>2, <2>1, <2>2 DEF SetupFails, Fresh
<1>3. CASE Start
  BY <1>0, <1>3 DEF Start, Fresh
<1>4. CASE SelectCommand
  <2>1. PICK r \in CommandResult : commandResults = <<r>> /\ command = "returned"
    BY <1>0, <1>4 DEF SelectCommand, CommandOK, CommandOver
  <2>2. result' = r
    BY <1>4, <2>1 DEF SelectCommand
  <2> QED
    BY <1>0, <1>4, <2>1, <2>2 DEF SelectCommand, Fresh, CommandResult, CommandOver
<1>5. CASE SelectServer
  <2>1. /\ serverErrors \in Seq({"nil", "error"})
        /\ \A i \in 1..Len(serverErrors) : IF serverErrors[i] = "nil" THEN ctxDone ELSE ProxyFailed
    BY DEF AppInvariant, ChannelOK
  <2>2. serverErrors # <<>> /\ ~ctxDone
    BY <1>0, <1>5 DEF SelectServer
  <2>3. Head(serverErrors) = serverErrors[1] /\ Len(serverErrors) \in Nat \ {0}
    BY <2>1, <2>2, Received
  <2>4. Head(serverErrors) # "nil" /\ ProxyFailed
    BY <2>1, <2>2, <2>3
  <2> QED
    BY <1>0, <1>5, <2>4 DEF SelectServer, Fresh, runs
<1>6. CASE AwaitCommand
  <2>1. PICK r \in CommandResult : commandResults = <<r>> /\ command \in CommandOver
    BY <1>0, <1>6 DEF AwaitCommand, CommandOK
  <2>2. result' = [r EXCEPT !.err = IF @ = "none" THEN serverErr ELSE @]
    BY <1>6, <2>1 DEF AwaitCommand
  <2>3. result'.err = (IF r.err = "none" THEN serverErr ELSE r.err) /\ r.err \in {"none", "command"}
    BY <2>2 DEF CommandResult
  <2> QED
    BY <1>0, <1>6, <2>1, <2>3 DEF AwaitCommand, Fresh, proxies
<1>7. CASE Wait
  <2>1. result'.err = result.err
    BY <1>0, <1>7 DEF Wait
  <2> QED
    BY <1>0, <1>7, <2>1 DEF Wait, Fresh, proxies, runs
<1>8. CASE Unwind \/ Return
  BY <1>0, <1>8, ContextStays DEF Unwind, Return, Fresh, proxies, runs
<1>9. ASSUME UNCHANGED <<stage, ctxDone, serverErr, result, command>>,
             stage \in {"unwinding", "returned"} => waitGroup' = waitGroup
      PROVE  OutcomeOK'
  BY <1>0, <1>9
<1>10. CASE HttpWorks \/ HttpReturns \/ SocksWorks \/ SocksReturns
  BY <1>9, <1>10 DEF HttpWorks, HttpReturns, SocksWorks, SocksReturns, runs,
                     Http!Begin, Http!End, Http!Return, Socks!Begin, Socks!End, Socks!Return
<1>11. CASE CommandReturns
  <2>1. stage \notin {"waiting", "unwinding", "returned"} \/ result.err = "setup"
    BY <1>0, <1>11 DEF CommandReturns, CommandOK, CommandOver
  <2> QED
    BY <1>0, <1>11, <2>1 DEF CommandReturns, CommandOver, proxies, http, socks, ProxyFailed
<1>12. ASSUME NEW s \in Server, Send(s) PROVE OutcomeOK'
  BY <1>9, <1>12 DEF Send, runs
<1>13. ASSUME NEW s \in Server, Done(s) PROVE OutcomeOK'
  <2>1. Active(s) = 1 /\ waitGroup = Active("http") + Active("socks") /\ \A t \in Server : Active(t) \in {0, 1}
    BY <1>13 DEF Done, Active, AppInvariant, ProxiesOK
  <2>2. waitGroup # 0
    BY <2>1 DEF Server
  <2> QED
    BY <1>0, <1>9, <1>13, <2>2 DEF Done, runs
<1>14. CASE UNCHANGED vars
  BY <1>9, <1>14 DEF vars, proxies, runs
<1> QED
  BY <1>1, <1>2, <1>3, <1>4, <1>5, <1>6, <1>7, <1>8, <1>10, <1>11, <1>12, <1>13, <1>14 DEF Next,
     RunStep

\* Every step of runWithProxies keeps the invariant.
LEMMA AppStep == AppInvariant /\ [Next]_vars => AppInvariant'
  BY TypesStep, SetupStep, ProxiesStep, ChannelStep, CommandStep, OutcomeStep DEF AppInvariant

\* runWithProxies is always in a state the invariant describes.
THEOREM AppInvariantHolds == Spec => []AppInvariant
  BY AppInit, AppStep, PTL DEF Spec

\* The invariant bounds both channels and the deferred calls.
LEMMA AppTypes == AppInvariant => TypeOK
<1> SUFFICES ASSUME AppInvariant PROVE TypeOK
  OBVIOUS
<1>1. stage \in DOMAIN After \cup {"start", "selecting", "awaiting", "waiting", "unwinding", "returned"}
  BY StageNames DEF AppInvariant, Types, Stages, Fresh
<1>2. held \subseteq {"dir", "http", "socks"} /\ Len(deferred) <= 4
  <2>1. held \subseteq {"dir", "http", "socks"} /\ Len(deferred) \in {0, 1, 2, 3, 4}
    BY DEF AppInvariant, SetupOK
  <2>2. \A n \in {0, 1, 2, 3, 4} : n <= 4
    OBVIOUS
  <2> QED
    BY <2>1, <2>2
<1>3. /\ goroutine \in [Server -> {"none", "serving", "sent", "done"}]
      /\ waitGroup \in 0..2
  BY DEF AppInvariant, ProxiesOK, Active
<1>4. Len(serverErrors) <= 2
  BY DEF AppInvariant, ChannelOK, Sent
<1>5. Len(commandResults) <= 1 /\ command \in {"idle", "running", "returned", "stopped"}
  <2>1. Len(<<>>) <= 1 /\ \A r : Len(<<r>>) <= 1
    OBVIOUS
  <2>2. command \in {"idle", "running", "returned", "stopped"} /\ (commandResults = <<>> \/ \E r : commandResults = <<r>>)
    BY DEF AppInvariant, CommandOK, CommandOver
  <2> QED
    BY <2>1, <2>2
<1> QED
  BY <1>1, <1>2, <1>3, <1>4, <1>5 DEF AppInvariant, Types, TypeOK

\* An exit code is reported only of a command that nobody stopped, and never in
\* place of a proxy's end that the select has seen; an error is called a proxy's
\* only if one of them failed, and an orderly stop never unexpected (lines 235-249).
THEOREM RunOutcome == Spec => []OutcomeIsTrue
<1>1. AppInvariant => OutcomeIsTrue
  BY AppTypes DEF AppInvariant, OutcomeOK, ProxyFailed, OutcomeIsTrue
<1> QED
  BY <1>1, AppInvariantHolds, PTL

\* The directory and the sockets stay until the proxies and the command are done,
\* whichever exit runWithProxies takes.
THEOREM SessionHeld == Spec => []SessionOutlivesItsUsers
<1>1. AppInvariant => SessionOutlivesItsUsers
  <2> SUFFICES ASSUME AppInvariant PROVE SessionOutlivesItsUsers
    OBVIOUS
  <2>1. ASSUME NEW s \in Server, goroutine[s] \in {"serving", "sent"} PROVE held = {"dir", "http", "socks"}
    <3>1. ~NotStarted /\ waitGroup # 0
      BY <2>1 DEF AppInvariant, ProxiesOK, ServerOK, Active, Server
    <3> QED
      BY <3>1 DEF AppInvariant, OutcomeOK, SetupOK, NotStarted, Fresh
  <2>2. ASSUME command = "running" PROVE held = {"dir", "http", "socks"}
    BY <2>2 DEF AppInvariant, CommandOK, CommandOver, OutcomeOK, SetupOK, NotStarted, Fresh
  <2> QED
    BY <2>1, <2>2 DEF SessionOutlivesItsUsers, Server
<1> QED
  BY <1>1, AppInvariantHolds, PTL

\* Nothing of a session is left when runWithProxies returns, after a setup that
\* failed halfway included.
THEOREM RunLeavesNothing == Spec => []NothingOutlivesRun
<1>1. AppInvariant => NothingOutlivesRun
  <2> SUFFICES ASSUME AppInvariant, stage = "returned"
               PROVE  held = {} /\ waitGroup = 0 /\ httpWork = {} /\ socksWork = {} /\ command # "running"
    BY DEF NothingOutlivesRun
  <2>1. waitGroup = 0 /\ held = {} /\ command # "running"
    BY DEF AppInvariant, OutcomeOK, SetupOK, CommandOK, CommandOver, NotStarted
  <2>2. \A s \in Server : goroutine[s] \in {"none", "done"}
    BY <2>1 DEF AppInvariant, ProxiesOK, Active, Server
  <2>3. \A s \in Server : Work(s) = {}
    BY <2>2 DEF AppInvariant, ProxiesOK, ServerOK
  <2> QED
    BY <2>1, <2>3 DEF Work, Server
<1> QED
  BY <1>1, AppInvariantHolds, PTL

-------------------------------------------------------------------------------
(* The two processes *)

\* A result without an error stands for a process that ended.
Reported(r) == r.err = "none" => process \notin {"none", "running"} /\ r.exitCode = status

\* The process lives within namespace.Run; what ended it and its status agree.
ProcessOK ==
  /\ process \in {"none", "running", "exited", "terminated", "interrupted"}
  /\ command = "idle" => process = "none"
  /\ process = "running" => command = "running"
  /\ process = "terminated" => ctxDone
  /\ process = "exited" =>
       supStage = "returned" /\ status = IF supResult.err = "none" THEN supResult.code ELSE setupErrorExitCode

\* What was or will be received from namespace.Run is the wait status of the
\* process; a process that was terminated is reported with an error only.
StatusOK ==
  /\ \A r \in CommandResult : commandResults = <<r>> => Reported(r)
  /\ stage \in {"waiting", "unwinding", "returned"} =>
       Reported(result) /\ (result.err = "none" => process # "terminated")

\* Both processes and what connects them.
SessionInvariant == AppInvariant /\ SupervisorInvariant /\ ProcessOK /\ StatusOK

\* A step of a session is a step of runWithProxies or leaves it alone, and the
\* same of the supervisor.
LEMMA SessionStepMaps ==
  [SessionNext]_sessionVars => [Next]_vars /\ [Sup!Next]_(Sup!vars)
<1> SUFFICES ASSUME [SessionNext]_sessionVars PROVE [Next]_vars /\ [Sup!Next]_(Sup!vars)
  OBVIOUS
<1>1. UNCHANGED sup => UNCHANGED Sup!vars
  BY DEF sup, Sup!vars
<1>2. CASE Outside(RunStep)
  BY <1>1, <1>2 DEF Outside, Next
<1>3. CASE Outside(Proxies)
  BY <1>1, <1>3 DEF Outside, Proxies, Next
<1>4. CASE ProcessStarts \/ SupervisorExits \/ Terminated \/ Interrupted
  BY <1>1, <1>4 DEF ProcessStarts, SupervisorExits, Terminated, Interrupted
<1>5. CASE RunFails \/ RunReturns
  BY <1>1, <1>5 DEF RunFails, RunReturns, Next
<1>6. CASE Supervises
  BY <1>6 DEF Supervises
<1>7. CASE UNCHANGED sessionVars
  BY <1>1, <1>7 DEF sessionVars
<1> QED
  BY <1>2, <1>3, <1>4, <1>5, <1>6, <1>7 DEF SessionNext

\* A session implements runWithProxies with a command seen from outside: what
\* namespace.Run reports of the supervisor process is one of the results that
\* Application allows.
THEOREM SessionImplementsRun == SessionSpec => Spec
<1>1. SessionInit => Init
  BY DEF SessionInit
<1>2. [SessionNext]_sessionVars => [Next]_vars
  BY SessionStepMaps
<1> QED
  BY <1>1, <1>2, PTL DEF SessionSpec, Spec

\* A session implements the supervisor: whatever ends its process ends it
\* between two steps and changes none of them.
THEOREM SessionImplementsSupervisor == SessionSpec => Sup!Spec
<1>1. SessionInit => Sup!Init
  BY DEF SessionInit
<1>2. [SessionNext]_sessionVars => [Sup!Next]_(Sup!vars)
  BY SessionStepMaps
<1> QED
  BY <1>1, <1>2, PTL DEF SessionSpec, Sup!Spec

\* Every step keeps the process in step with namespace.Run and its status with
\* what the supervisor returned.
LEMMA ProcessStep == AppInvariant /\ ProcessOK /\ [SessionNext]_sessionVars => ProcessOK'
<1> SUFFICES ASSUME AppInvariant, ProcessOK, [SessionNext]_sessionVars PROVE ProcessOK'
  OBVIOUS
<1>c. ctxDone => ctxDone'
  BY ContextStays, SessionStepMaps
<1> USE DEF ProcessOK
<1>1. ASSUME UNCHANGED <<process, status, sup>>, command' # "idle", process = "running" => command' = "running"
      PROVE  ProcessOK'
  BY <1>c, <1>1 DEF sup
<1>2. ASSUME UNCHANGED <<process, status, sup>>, command' = command
      PROVE  ProcessOK'
  BY <1>c, <1>2 DEF sup
<1>3. CASE Outside(RunStep)
  <2>1. CASE Start
    BY <1>1, <1>3, <2>1 DEF Outside, Start, AppInvariant, CommandOK, NotStarted, Fresh
  <2>2. CASE ~Start
    BY <1>2, <1>3, <2>2 DEF Outside, RunStep, Make, Prepare, SetupFails, SelectCommand,
                            SelectServer, AwaitCommand, Wait, Unwind, Return, runs
  <2> QED
    BY <2>1, <2>2
<1>4. CASE Outside(Proxies)
  BY <1>2, <1>4 DEF Outside, Proxies, HttpWorks, HttpReturns, SocksWorks, SocksReturns, Send,
                    Done, runs
<1>5. CASE ProcessStarts
  BY <1>5 DEF ProcessStarts, vars, runs
<1>6. CASE RunFails
  BY <1>c, <1>6 DEF RunFails, CommandReturns, sup
<1>7. CASE RunReturns
  BY <1>c, <1>7 DEF RunReturns, CommandReturns, sup
<1>8. CASE Supervises
  BY <1>8 DEF Supervises, vars, runs
<1>9. CASE SupervisorExits
  BY <1>9 DEF SupervisorExits, vars, runs, sup
<1>10. CASE Terminated
  BY <1>10 DEF Terminated, vars, runs
<1>11. CASE Interrupted
  BY <1>11 DEF Interrupted, vars, runs
<1>12. CASE UNCHANGED sessionVars
  BY <1>2, <1>12 DEF sessionVars, vars, runs
<1> QED
  BY <1>3, <1>4, <1>5, <1>6, <1>7, <1>8, <1>9, <1>10, <1>11, <1>12 DEF SessionNext

\* Every step keeps what is reported of the process: its wait status, and never
\* that of a process airjail itself terminated.
LEMMA StatusStep == AppInvariant /\ ProcessOK /\ StatusOK /\ [SessionNext]_sessionVars => StatusOK'
<1> SUFFICES ASSUME AppInvariant, ProcessOK, StatusOK, [SessionNext]_sessionVars PROVE StatusOK'
  OBVIOUS
<1>0. Types /\ OutcomeOK /\ CommandOK
  BY DEF AppInvariant
<1>1. \A r, q : <<r>> = <<q>> => r = q
  OBVIOUS
<1>2. \A r : <<r>> # <<>>
  OBVIOUS
<1>3. CASE Outside(RunStep)
  <2>1. UNCHANGED <<process, status>>
    BY <1>3 DEF Outside
  <2>2. ASSUME UNCHANGED commandResults, stage' \notin {"waiting", "unwinding", "returned"} PROVE StatusOK'
    BY <2>1, <2>2 DEF StatusOK, Reported
  <2>3. ASSUME UNCHANGED <<commandResults, result>>, stage \in {"waiting", "unwinding", "returned"} PROVE StatusOK'
    BY <2>1, <2>3 DEF StatusOK, Reported
  <2>4. CASE Make \/ Prepare \/ Start \/ SelectServer
    BY <2>2, <2>4 DEF Make, Prepare, Start, SelectServer, After, Makes, runs
  <2>5. CASE SetupFails
    BY <2>1, <2>5 DEF SetupFails, StatusOK, Reported, runs
  <2>6. CASE SelectCommand
    <3>1. PICK r \in CommandResult : commandResults = <<r>>
      BY <1>0, <2>6 DEF SelectCommand, CommandOK
    <3>2. result' = r /\ commandResults' = <<>> /\ stage = "selecting"
      BY <2>6, <3>1 DEF SelectCommand
    <3>3. Reported(r) /\ process # "terminated"
      BY <1>0, <3>1, <3>2 DEF StatusOK, OutcomeOK, ProcessOK
    <3> QED
      BY <1>2, <2>1, <3>2, <3>3 DEF StatusOK, Reported
  <2>7. CASE AwaitCommand
    <3>1. PICK r \in CommandResult : commandResults = <<r>>
      BY <1>0, <2>7 DEF AwaitCommand, CommandOK
    <3>2. result'.err # "none" /\ commandResults' = <<>>
      BY <1>0, <2>7, <3>1 DEF AwaitCommand, OutcomeOK, CommandResult
    <3> QED
      BY <1>2, <2>1, <3>1, <3>2 DEF StatusOK, Reported
  <2>8. CASE Wait
    <3>1. result'.err = result.err /\ (result.err = "none" => result' = result)
      BY <1>0, <2>8 DEF Wait, Types
    <3> QED
      BY <2>1, <2>8, <3>1 DEF StatusOK, Reported, Wait, runs
  <2>9. CASE Unwind \/ Return
    BY <2>3, <2>9 DEF Unwind, Return, runs
  <2> QED
    BY <1>3, <2>4, <2>5, <2>6, <2>7, <2>8, <2>9 DEF Outside, RunStep
<1>4. ASSUME UNCHANGED <<commandResults, result, stage, process, status>> PROVE StatusOK'
  BY <1>4 DEF StatusOK, Reported
<1>5. CASE Outside(Proxies)
  BY <1>4, <1>5 DEF Outside, Proxies, HttpWorks, HttpReturns, SocksWorks, SocksReturns, Send,
                    Done, runs
<1>6. ASSUME UNCHANGED <<commandResults, result, stage>>, command = "running" PROVE StatusOK'
  <2>1. commandResults' = <<>> /\ (stage \in {"waiting", "unwinding", "returned"} => result.err = "setup")
    BY <1>0, <1>6 DEF CommandOK, CommandOver, OutcomeOK
  <2> QED
    BY <1>2, <1>6, <2>1 DEF StatusOK, Reported
<1>7. CASE ProcessStarts \/ SupervisorExits \/ Terminated \/ Interrupted
  BY <1>6, <1>7 DEF ProcessOK, ProcessStarts, SupervisorExits, Terminated, Interrupted, vars, runs
<1>8. CASE RunFails \/ RunReturns
  <2>1. /\ command = "running" /\ UNCHANGED <<stage, result, process, status>>
        /\ \A r \in CommandResult : commandResults' = <<r>> => Reported(r)
    BY <1>1, <1>8 DEF RunFails, RunReturns, CommandReturns, Reported
  <2>2. stage \notin {"waiting", "unwinding", "returned"} \/ result.err # "none"
    BY <1>0, <2>1 DEF OutcomeOK, CommandOK
  <2> QED
    BY <2>1, <2>2 DEF StatusOK, Reported
<1>9. CASE Supervises \/ UNCHANGED sessionVars
  BY <1>4, <1>9 DEF Supervises, sessionVars, vars, runs
<1> QED
  BY <1>3, <1>5, <1>7, <1>8, <1>9 DEF SessionNext

\* A session is always in a state the invariant describes.
THEOREM SessionInvariantHolds == SessionSpec => []SessionInvariant
<1>1. SessionInit => SessionInvariant
  <2> SUFFICES ASSUME SessionInit PROVE SessionInvariant
    OBVIOUS
  <2>1. AppInvariant /\ SupervisorInvariant
    BY AppInit, SupInit DEF SessionInit
  <2>2. ProcessOK
    BY DEF SessionInit, ProcessOK
  <2>3. StatusOK
    <3>1. \A r : <<r>> # <<>>
      OBVIOUS
    <3> QED
      BY <3>1 DEF SessionInit, Init, StatusOK
  <2> QED
    BY <2>1, <2>2, <2>3 DEF SessionInvariant
<1>2. SessionInvariant /\ [SessionNext]_sessionVars => SessionInvariant'
  BY SessionStepMaps, AppStep, SupStep, ProcessStep, StatusStep DEF SessionInvariant
<1> QED
  BY <1>1, <1>2, PTL DEF SessionSpec

\* The exit code airjail ends with is what became, across both processes, of a
\* command airjail did not stop (application.go:235-249, run_linux.go:128-155).
THEOREM SessionExitStatus == SessionSpec => []ExitStatusIsTrue
<1>1. SessionInvariant => ExitStatusIsTrue
  <2> SUFFICES ASSUME SessionInvariant, stage = "returned", result.err = "none"
               PROVE  /\ result.exitCode = status /\ command = "returned"
                      /\ \/ process = "interrupted"
                         \/ process = "exited" /\ supResult.err # "none" /\ status = setupErrorExitCode
                         \/ /\ process = "exited" /\ supResult.err = "none"
                            /\ supChild = "done" /\ supChildErr = "none" /\ status = supChildExitCode
                            /\ supGroupErr = "none"
    BY DEF ExitStatusIsTrue
  <2>1. result.exitCode = status /\ process \in {"exited", "interrupted"}
    BY DEF SessionInvariant, StatusOK, Reported, ProcessOK
  <2>2. command = "returned"
    BY DEF SessionInvariant, AppInvariant, OutcomeOK
  <2>3. ASSUME process = "exited", supResult.err = "none"
        PROVE  supChild = "done" /\ supChildErr = "none" /\ status = supChildExitCode /\ supGroupErr = "none"
    BY <2>3 DEF SessionInvariant, ProcessOK, SupervisorInvariant, SupStageOK
  <2>4. ASSUME process = "exited", supResult.err # "none" PROVE status = setupErrorExitCode
    BY <2>4 DEF SessionInvariant, ProcessOK
  <2> QED
    BY <2>1, <2>2, <2>3, <2>4
<1> QED
  BY <1>1, SessionInvariantHolds, PTL

\* Nothing the supervisor of a session returns hides a failure (group.Wait).
THEOREM SessionSupervisorOutcome == SessionSpec => []SupervisorOutcomeIsTrue
  BY SessionImplementsSupervisor, SupervisorOutcome DEF SupervisorOutcomeIsTrue

\* The supervisor of a session leaves no goroutine behind, and no listener a
\* bridge still accepted from.
THEOREM SessionSupervisorLeavesNothing == SessionSpec => []NothingOutlivesSupervisor
  BY SessionImplementsSupervisor, SupervisorLeavesNothing DEF NothingOutlivesSupervisor
===============================================================================
