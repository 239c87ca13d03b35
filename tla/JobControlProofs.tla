--------------------------- MODULE JobControlProofs ---------------------------
(***************************************************************************)
(* What airjail reports of the command, leaves behind of it and does with  *)
(* the terminal, for every load of keys, cancellations and reads.          *)
(***************************************************************************)
EXTENDS JobControl, TLAPS

-------------------------------------------------------------------------------
(* The inductive invariant *)

\* The session's load has what the actions read of it.
LoadOK == load \in [keys : SUBSET {"INT", "TSTP"}, cancels : SUBSET {"outer", "sup"},
                    orphans : BOOLEAN, events : Nat]

\* The supervisor waited for the command and will return how it ended.
Waited == pc["sup"] \in {"reaping", "cleaning", "joining"} \/ (pc["sup"] = "returned" /\ result["sup"] # "setup")

\* Nothing is recorded of what has not begun.
BeginOK ==
  /\ pc["outer"] = "start" => pc["sup"] = "none" /\ ~owned
  /\ pc["sup"] \in {"none", "start"} => ~manage
  /\ pc["sup"] \in {"none", "start", "starting"} => result["sup"] = "none"

\* The terminal is the command's only while the supervisor manages it and has not
\* cleaned up, or after a start that failed with the terminal handed over.
TerminalOK ==
  /\ manage => owned
  /\ check # "none" => manage
  /\ fg = "cmd" => owned /\ (manage \/ (pc["sup"] = "returned" /\ result["sup"] = "setup"))
  /\ pc["sup"] = "joining" \/ (pc["sup"] = "returned" /\ result["sup"] # "setup") => fg # "cmd"

\* A status is copied from a process that is gone or is going, whose own cannot change.
StatusOK ==
  /\ Waited => proc["cmd"].state = "gone"
  /\ result["sup"] \in {"exit", "signal"} => proc["cmd"].state = "gone" /\ result["sup"] = proc["cmd"].end
  /\ pc["sup"] = "returned" => ~Alive("sup") /\ proc["sup"].end = result["sup"]
  /\ result["outer"] # "none" =>
       /\ pc["outer"] # "start"
       /\ pc["sup"] = "none" \/ ~Alive("sup")
       /\ pc["sup"] = "returned" => result["outer"] = result["sup"]

\* From the moment the group was reaped none of it is left, and none can be added.
GroupOK ==
  pc["sup"] \in {"cleaning", "joining"} \/ (pc["sup"] = "returned" /\ result["sup"] # "setup") =>
    \A p \in CommandGroup : proc[p].state \in {"none", "gone"}

\* A look at the terminal is fresh as long as airjail has not been stopped since, and
\* until then the shell, which takes the terminal from a job that stopped, has not
\* got it; a command to be started with the terminal is started after such a look.
CheckOK ==
  /\ proc["outer"].news => proc["outer"].state = "stopped"
  /\ check = "fresh" => fg # "shell" /\ proc["outer"].state # "stopped"
  /\ pc["sup"] = "starting" /\ manage => check # "none"

\* The inductive invariant of the two runs of runSandboxedProcess.
JobInvariant == TypeOK /\ LoadOK /\ BeginOK /\ TerminalOK /\ StatusOK /\ GroupOK /\ CheckOK

-------------------------------------------------------------------------------
(* What the kernel's operators do to the processes *)

EndState == {"none", "exit", "signal", "setup"}

Pending == {"INT", "TERM", "TSTP", "STOP"}

\* The types of the table of processes.
Process == [state : {"none", "running", "stopped", "zombie", "gone"},
            pend : SUBSET Pending, news : BOOLEAN, end : EndState]

Table == [Processes -> Process]

\* The process has ended, or not begun.
Ended(q, p) == q[p].state \notin {"running", "stopped"}

\* No process of P that has ended, or not begun, gets another status or another
\* life, and what is gone is not seen again.
Kept(q, r, P) ==
  \A p \in P : Ended(q, p) =>
    Ended(r, p) /\ r[p].end = q[p].end /\ (q[p].state \in {"none", "gone"} => r[p].state = q[p].state)

\* Whoever is signaled is a process.
LEMMA Groups ==
  /\ CommandGroup \subseteq Processes
  /\ \A r \in Runners : Target(r) \subseteq Processes /\ Child[r] \in Processes /\ r \in Processes
  BY DEF CommandGroup, Processes, Runners, Target, Child

\* A process that dies is ended with the status it dies with; PDEATHSIG and the
\* reaping change the status of none that ended before.
LEMMA DieEffect ==
  ASSUME NEW q \in Table, NEW dying \in SUBSET Processes, NEW how \in EndState
  PROVE  /\ Die(q, dying, how) \in Table
         /\ Kept(q, Die(q, dying, how), Processes)
         /\ \A p \in dying : ~Ended(q, p) => Ended(Die(q, dying, how), p) /\ Die(q, dying, how)[p].end = how
<1> DEFINE ends == dying \cup (IF "outer" \in dying THEN {"sup", "cmd"} ELSE IF "sup" \in dying THEN {"cmd"} ELSE {})
           live(p) == q[p].state \in {"running", "stopped"}
           unsupervised == "sup" \in ends \/ ~live("sup")
           dead(p) == [state |-> IF unsupervised /\ p \in {"cmd", "kid"} THEN "gone" ELSE "zombie",
                       pend |-> {}, news |-> FALSE, end |-> IF p \in dying THEN how ELSE "signal"]
           reaped(p) == [q[p] EXCEPT !.state = "gone"]
           new(p) == IF live(p) /\ p \in ends THEN dead(p)
                     ELSE IF unsupervised /\ p \in {"cmd", "kid"} /\ q[p].state = "zombie" THEN reaped(p)
                     ELSE q[p]
<1>1. Die(q, dying, how) = [p \in Processes |-> new(p)]
  BY DEF Die
<1>2. ASSUME NEW p \in Processes
      PROVE  /\ dead(p) \in Process /\ dead(p).state \in {"gone", "zombie"} /\ (p \in dying => dead(p).end = how)
             /\ reaped(p) \in Process /\ reaped(p).state = "gone" /\ reaped(p).end = q[p].end
             /\ q[p] \in Process
  <2>1. q[p] \in Process
    BY DEF Table
  <2>2. dead(p) \in Process
    <3>1. {} \in SUBSET Pending /\ FALSE \in BOOLEAN
      OBVIOUS
    <3>2. (IF p \in dying THEN how ELSE "signal") \in EndState
      BY DEF EndState
    <3> QED
      BY <3>1, <3>2 DEF Process
  <2> QED
    BY <2>1, <2>2 DEF Process
<1> HIDE DEF dead, reaped, unsupervised
<1>3. \A p \in dying : p \in ends
  OBVIOUS
<1> HIDE DEF ends
<1>4. \A p \in Processes : new(p) \in Process
  BY <1>2
<1>5. \A p \in Processes : Ended(q, p) =>
        new(p).state \notin {"running", "stopped"} /\ new(p).end = q[p].end
        /\ (q[p].state \in {"none", "gone"} => new(p).state = q[p].state)
  BY <1>2 DEF Ended
<1>6. \A p \in dying : ~Ended(q, p) => new(p).state \notin {"running", "stopped"} /\ new(p).end = how
  BY <1>2, <1>3 DEF Ended
<1> HIDE DEF new
<1> QED
  BY <1>1, <1>4, <1>5, <1>6 DEF Table, Kept, Ended

\* kill(2) ends nothing but with SIGKILL, and wakes up nothing that has ended.
LEMMA DeliverEffect ==
  ASSUME NEW q \in Table, NEW targets \in SUBSET Processes, NEW sig \in Pending \cup {"KILL", "CONT"}
  PROVE  /\ Deliver(q, targets, sig) \in Table
         /\ Kept(q, Deliver(q, targets, sig), Processes)
         /\ sig = "KILL" => \A p \in targets : Ended(Deliver(q, targets, sig), p)
<1>1. CASE sig = "KILL"
  <2>1. Deliver(q, targets, sig) = Die(q, targets, "signal")
    BY <1>1 DEF Deliver
  <2> QED
    BY <2>1, DieEffect DEF EndState, Kept
<1>2. CASE sig # "KILL"
  <2> DEFINE kept(p) == IF p \in Runners /\ Notified(p) THEN {"STOP"} ELSE {"STOP", "TSTP"}
             cont(p) == [q[p] EXCEPT !.state = "running", !.news = FALSE, !.pend = @ \ kept(p)]
             wait(p) == [q[p] EXCEPT !.pend = @ \cup {sig}]
             new(p) == IF p \notin targets \ {"kid"} \/ q[p].state \notin {"running", "stopped"} THEN q[p]
                       ELSE IF sig = "CONT" THEN cont(p)
                       ELSE IF sig = "TSTP" /\ q[p].state = "stopped" THEN q[p]
                       ELSE wait(p)
  <2>1. Deliver(q, targets, sig) = [p \in Processes |-> new(p)]
    BY <1>2 DEF Deliver
  <2>2. ASSUME NEW p \in Processes
        PROVE  q[p] \in Process /\ cont(p) \in Process /\ (sig # "CONT" => wait(p) \in Process)
    <3>1. q[p] \in Process
      BY DEF Table
    <3>2. q[p].pend \ kept(p) \in SUBSET Pending /\ (sig # "CONT" => q[p].pend \cup {sig} \in SUBSET Pending)
      BY <1>2, <3>1 DEF Process
    <3> HIDE DEF kept
    <3> QED
      BY <3>1, <3>2 DEF Process
  <2> HIDE DEF cont, wait
  <2>3. \A p \in Processes : new(p) \in Process
    BY <2>2
  <2>4. \A p \in Processes : Ended(q, p) => new(p) = q[p]
    BY DEF Ended
  <2> HIDE DEF new
  <2> QED
    BY <1>2, <2>1, <2>3, <2>4 DEF Table, Kept, Ended
<1> QED
  BY <1>1, <1>2

\* A process that stops goes on to have no status.
LEMMA StoppedEffect ==
  ASSUME NEW q \in Table, NEW p \in Processes, q[p].state = "running"
  PROVE  Stopped(q, p) \in Table /\ Kept(q, Stopped(q, p), Processes)
<1> DEFINE new == [q[p] EXCEPT !.state = "stopped", !.news = TRUE, !.pend = @ \ {"STOP", "TSTP"}]
<1>1. Stopped(q, p) = [q EXCEPT ![p] = new]
  BY DEF Stopped, Table
<1>2. q[p] \in Process
  BY DEF Table
<1>3. new \in Process
  <2>1. q[p].pend \ {"STOP", "TSTP"} \in SUBSET Pending
    BY <1>2 DEF Process
  <2> QED
    BY <1>2, <2>1 DEF Process
<1> HIDE DEF new
<1> QED
  BY <1>1, <1>3 DEF Table, Kept, Ended

-------------------------------------------------------------------------------
(* Types *)

\* Where runSandboxedProcess stands.
Stage == {"none", "start", "starting", "started", "waiting", "yielding", "halting", "resuming",
          "continuing", "reaping", "cleaning", "joining", "returned"}

\* The stages at which the terminal may be transferred lead to other stages.
LEMMA TransferStages ==
  /\ DOMAIN Transfers = {"yielding", "resuming", "cleaning"}
  /\ \A at \in DOMAIN Transfers : Transfers[at].to \in {"job", "cmd"} /\ Transfers[at].next \in Stage
  BY DEF Transfers, Stage

\* The types of all that is not in the table of processes.
ControlTypes ==
  /\ inGroup \in BOOLEAN /\ fg \in {"shell", "job", "cmd"} /\ owned \in BOOLEAN /\ manage \in BOOLEAN
  /\ check \in {"none", "fresh", "stale"}
  /\ forwarder \in [Runners -> {"none", "selecting", "granting", "over"}]
  /\ canceled \in [Runners -> BOOLEAN]
  /\ result \in [Runners -> EndState]
  /\ pc \in [Runners -> Stage]

\* Spawning, reaping, reporting and taking a signal leave a table of processes.
LEMMA Typed ==
  ASSUME TypeOK
  PROVE  /\ proc \in Table
         /\ \A p \in Processes :
              /\ proc[p] \in Process
              /\ [proc EXCEPT ![p].state = "running"] \in Table
              /\ [proc EXCEPT ![p].state = "gone"] \in Table
              /\ [proc EXCEPT ![p].news = FALSE] \in Table
              /\ \A sigs \in SUBSET Pending : [proc EXCEPT ![p].pend = @ \ sigs] \in Table
<1>1. proc \in Table
  BY DEF TypeOK, Table, Process, Pending, EndState
<1>2. ASSUME NEW p \in Processes
      PROVE  /\ proc[p] \in Process
             /\ [proc[p] EXCEPT !.state = "running"] \in Process
             /\ [proc[p] EXCEPT !.state = "gone"] \in Process
             /\ [proc[p] EXCEPT !.news = FALSE] \in Process
             /\ \A sigs \in SUBSET Pending : [proc[p] EXCEPT !.pend = @ \ sigs] \in Process
  <2>1. proc[p] \in Process
    BY <1>1 DEF Table
  <2> QED
    BY <2>1 DEF Process
<1> QED
  BY <1>1, <1>2 DEF Table

\* A session begins in a state of its types.
LEMMA TypeInit == Init => TypeOK /\ LoadOK
<1> SUFFICES ASSUME Init PROVE TypeOK /\ LoadOK
  OBVIOUS
<1>1. LoadOK
  BY JobAssumption DEF Init, LoadOK
<1>2. proc \in Table
  BY DEF Init, Table, Process, Pending, EndState
<1>3. load.events \in Nat
  BY <1>1 DEF LoadOK
<1>4. ControlTypes
  <2>1. pc \in [Runners -> Stage]
    BY DEF Init, Runners, Stage
  <2>2. /\ inGroup \in BOOLEAN /\ fg \in {"shell", "job", "cmd"} /\ owned \in BOOLEAN /\ manage \in BOOLEAN
        /\ check \in {"none", "fresh", "stale"}
    BY DEF Init
  <2>3. /\ forwarder \in [Runners -> {"none", "selecting", "granting", "over"}]
        /\ canceled \in [Runners -> BOOLEAN] /\ result \in [Runners -> EndState]
    BY DEF Init, EndState
  <2> QED
    BY <2>1, <2>2, <2>3 DEF ControlTypes
<1>5. TypeOK
  BY <1>2, <1>3, <1>4 DEF TypeOK, ControlTypes, Stage, Table, Process, Pending, EndState
<1> QED
  BY <1>1, <1>5

\* Every step leaves a table of processes.
LEMMA TableStep == TypeOK /\ LoadOK /\ [Next]_vars => proc' \in Table
<1> SUFFICES ASSUME TypeOK, LoadOK, [Next]_vars PROVE proc' \in Table
  OBVIOUS
<1>0. proc \in Table
  BY Typed
<1>1. ASSUME NEW r \in Runners, MainStep(r) PROVE proc' \in Table
  <2>1. CASE StartSupervisor \/ StartCommand
    BY <2>1, Typed DEF StartSupervisor, StartCommand, Spawned, Processes, Runners
  <2>2. CASE Notify(r) \/ DecideForeground \/ CheckTerminal(r) \/ MoveTerminal
    BY <1>0, <2>2 DEF Notify, DecideForeground, CheckTerminal, MoveTerminal
  <2>3. CASE ChildEnds(r) \/ ChildStops(r)
    BY <2>3, Typed, Groups DEF ChildEnds, ChildStops
  <2>4. CASE Halt(r) \/ Continue(r)
    BY <1>0, <2>4, DeliverEffect, Groups DEF Halt, Continue, Pending
  <2>5. CASE TerminateAndReap
    <3> DEFINE killed == Deliver(proc, CommandGroup, "KILL")
               new(p) == IF p \in CommandGroup /\ killed[p].state = "zombie" THEN [killed[p] EXCEPT !.state = "gone"]
                         ELSE killed[p]
    <3>1. killed \in Table
      BY <1>0, DeliverEffect, Groups
    <3>2. proc' = [p \in Processes |-> new(p)]
      BY <2>5 DEF TerminateAndReap
    <3> HIDE DEF killed
    <3>3. ASSUME NEW p \in Processes PROVE new(p) \in Process
      <4>1. killed[p] \in Process
        BY <3>1 DEF Table
      <4>2. [killed[p] EXCEPT !.state = "gone"] \in Process
        BY <4>1 DEF Process
      <4> QED
        BY <4>1, <4>2
    <3> HIDE DEF new
    <3> QED
      BY <3>2, <3>3 DEF Table
  <2>6. CASE Return(r)
    BY <1>0, <2>6, DieEffect DEF Return, TypeOK, EndState, Processes, Runners
  <2> QED
    BY <1>1, <2>1, <2>2, <2>3, <2>4, <2>5, <2>6 DEF MainStep
<1>2. ASSUME NEW r \in Runners, StartFails(r) PROVE proc' \in Table
  BY <1>0, <1>2, DieEffect DEF StartFails, EndState, Processes, Runners
<1>3. ASSUME NEW r \in Runners, ForwarderStep(r) PROVE proc' \in Table
  <2>1. CASE Forward(r)
    <3>1. PICK sig \in proc[r].pend \ {"STOP"} :
            proc' = Deliver([proc EXCEPT ![r].pend = @ \ {sig}], Target(r), sig)
      BY <2>1 DEF Forward
    <3>2. sig \in Pending
      BY <3>1, Typed, Groups DEF Process
    <3>3. [proc EXCEPT ![r].pend = @ \ {sig}] \in Table
      BY <3>2, Typed, Groups
    <3> QED
      BY <3>1, <3>2, <3>3, DeliverEffect, Groups
  <2>2. CASE Terminate(r) \/ GraceEnds(r)
    BY <1>0, <2>2, DeliverEffect, Groups DEF Terminate, GraceEnds, Pending
  <2>3. CASE ForwarderDone(r)
    BY <1>0, <2>3 DEF ForwarderDone
  <2> QED
    BY <1>3, <2>1, <2>2, <2>3 DEF ForwarderStep
<1>4. ASSUME NEW p \in Processes, KernelStep(p) PROVE proc' \in Table
  <2>1. CASE TakesStop(p)
    BY <1>0, <2>1, StoppedEffect DEF TakesStop, Runs
  <2>2. CASE TakesEnd(p)
    <3>1. PICK sig \in proc[p].pend \cap {"INT", "TERM"} :
            proc' = Die(proc, {p}, "signal") \/ proc' = [proc EXCEPT ![p].pend = @ \ {sig}]
      BY <2>2 DEF TakesEnd
    <3>2. {sig} \in SUBSET Pending
      BY <3>1 DEF Pending
    <3>3. Die(proc, {p}, "signal") \in Table
      BY <1>0, DieEffect DEF EndState
    <3>4. [proc EXCEPT ![p].pend = @ \ {sig}] \in Table
      BY <3>2, Typed
    <3> QED
      BY <3>1, <3>3, <3>4
  <2> QED
    BY <1>4, <2>1, <2>2 DEF KernelStep
<1>5. CASE CommandStep
  <2>1. CASE Orphans \/ KidLeavesGroup
    BY <1>0, <2>1, Typed DEF Orphans, KidLeavesGroup, Spawned, Processes
  <2>2. CASE ReadsTerminal
    BY <1>0, <2>2, StoppedEffect DEF ReadsTerminal, Runs, Processes
  <2>3. CASE IgnoresStop
    BY <2>3, Typed DEF IgnoresStop, Processes, Pending
  <2>4. CASE Exits("cmd") \/ Exits("kid")
    BY <1>0, <2>4, DieEffect DEF Exits, EndState, Processes
  <2> QED
    BY <1>5, <2>1, <2>2, <2>3, <2>4 DEF CommandStep
<1>6. CASE UserStep \/ ShellNotices \/ ResumeJob
  <2>1. CASE BringForward \/ ResumeJob
    BY <1>0, <2>1, DeliverEffect DEF BringForward, ResumeJob, ShellContinues, Processes
  <2>2. CASE ShellNotices
    BY <2>2, Typed DEF ShellNotices, Processes, Runners
  <2>3. ASSUME NEW sig \in load.keys, Key(sig) PROVE proc' \in Table
    <3>1. sig \in Pending
      BY DEF LoadOK, Pending
    <3> QED
      BY <1>0, <2>3, <3>1, DeliverEffect, Groups DEF Key, Processes
  <2> QED
    BY <1>6, <2>1, <2>2, <2>3 DEF UserStep
<1>7. ASSUME NEW r \in Runners, Cancel(r) PROVE proc' \in Table
  BY <1>0, <1>7 DEF Cancel
<1>8. CASE UNCHANGED vars
  BY <1>0, <1>8 DEF vars
<1> QED
  BY <1>1, <1>2, <1>3, <1>4, <1>5, <1>6, <1>7, <1>8 DEF Next

\* Every step keeps the types.
LEMMA TypeStep == TypeOK /\ LoadOK /\ [Next]_vars => TypeOK' /\ LoadOK'
<1> SUFFICES ASSUME TypeOK, LoadOK, [Next]_vars PROVE TypeOK' /\ LoadOK'
  OBVIOUS
<1>1. proc' \in Table
  BY TableStep
<1>2. LoadOK'
  <2>1. CASE \E sig \in load.keys : Key(sig)
    BY <2>1 DEF LoadOK, Key
  <2>2. CASE BringForward \/ ReadsTerminal
    BY <2>2 DEF LoadOK, BringForward, ReadsTerminal
  <2>3. CASE ~(\E sig \in load.keys : Key(sig)) /\ ~BringForward /\ ~ReadsTerminal
    <3>1. UNCHANGED load
      BY <2>3 DEF Next, vars, MainStep, StartSupervisor, DecideForeground, StartCommand, TerminateAndReap,
                  Notify, ChildEnds, ChildStops, Halt, CheckTerminal, MoveTerminal, Continue, Return,
                  StartFails, ForwarderStep, Forward,
                  Terminate, GraceEnds, ForwarderDone, Cancel, KernelStep, TakesStop, TakesEnd, CommandStep,
                  Orphans, KidLeavesGroup, IgnoresStop, Exits, UserStep, ShellNotices, ResumeJob
    <3> QED
      BY <3>1 DEF LoadOK
  <2> QED
    BY <2>1, <2>2, <2>3
<1>3. load'.events \in Nat
  BY <1>2 DEF LoadOK
<1>4. ControlTypes'
  <2> USE DEF TypeOK, ControlTypes, Stage, EndState
  <2>1. ASSUME NEW r \in Runners, MainStep(r) \/ StartFails(r) \/ ForwarderStep(r) \/ Cancel(r) PROVE ControlTypes'
    <3>1. CASE StartSupervisor
      BY JobAssumption, <3>1 DEF StartSupervisor, Runners
    <3>2. CASE DecideForeground \/ StartCommand
      BY <3>2 DEF DecideForeground, StartCommand, Seen
    <3>3. CASE Notify(r) \/ Halt(r) \/ Continue(r) \/ TerminateAndReap \/ Return(r)
      BY <3>3 DEF Notify, Halt, Continue, TerminateAndReap, Return
    <3>4. CASE ChildEnds(r)
      BY <3>4, Groups DEF ChildEnds
    <3>5. CASE ChildStops(r) \/ CheckTerminal(r) \/ MoveTerminal
      BY <3>5, TransferStages DEF ChildStops, CheckTerminal, MoveTerminal, Seen
    <3>6. CASE StartFails(r)
      BY <3>6 DEF StartFails
    <3>7. CASE ForwarderStep(r)
      BY <3>7 DEF ForwarderStep, Forward, Terminate, GraceEnds, ForwarderDone, run
    <3>8. CASE Cancel(r)
      BY <3>8 DEF Cancel
    <3> QED
      BY <2>1, <3>1, <3>2, <3>3, <3>4, <3>5, <3>6, <3>7, <3>8 DEF MainStep
  <2>2. ASSUME NEW p \in Processes, KernelStep(p) PROVE ControlTypes'
    BY <2>2 DEF KernelStep, TakesStop, TakesEnd, run
  <2>3. CASE CommandStep
    BY <2>3 DEF CommandStep, Orphans, KidLeavesGroup, ReadsTerminal, IgnoresStop, Exits, run
  <2>4. CASE UserStep \/ ShellNotices \/ ResumeJob
    BY <2>4 DEF UserStep, Key, BringForward, ShellNotices, ResumeJob, ShellContinues, run
  <2>5. CASE UNCHANGED vars
    BY <2>5 DEF vars
  <2> QED
    BY <2>1, <2>2, <2>3, <2>4, <2>5 DEF Next
<1>5. TypeOK'
  BY <1>1, <1>3, <1>4 DEF TypeOK, ControlTypes, Stage, Table, Process, Pending, EndState
<1> QED
  BY <1>2, <1>5

-------------------------------------------------------------------------------
(* The records of the two runs *)

\* What the invariant says beside the types.
Records == BeginOK /\ TerminalOK /\ StatusOK /\ GroupOK

\* What does not move a run of runSandboxedProcess, gives no terminal to the
\* command and revives no process of the run keeps the records.
LEMMA Undisturbed ==
  ASSUME TypeOK, Records, UNCHANGED <<owned, manage, result, pc["sup"]>>,
         pc'["outer"] = "start" <=> pc["outer"] = "start", check' # "none" => check # "none",
         Kept(proc, proc', {"sup", "cmd"}), Kept(proc, proc', {"kid"}) \/ Runs("cmd"),
         inGroup' => inGroup, fg' = "cmd" => fg = "cmd"
  PROVE  Records'
<1>1. BeginOK' /\ TerminalOK'
  BY DEF Records, BeginOK, TerminalOK
<1>2. proc["cmd"].state = "gone" => proc'["cmd"].state = "gone" /\ proc'["cmd"].end = proc["cmd"].end
  BY DEF Kept, Ended
<1>3. ~Alive("sup") => ~Alive("sup")' /\ proc'["sup"].end = proc["sup"].end
  BY DEF Kept, Ended, Alive
<1>4. StatusOK'
  BY <1>2, <1>3 DEF Records, StatusOK, Waited
<1>5. GroupOK'
  <2>1. CommandGroup' \subseteq CommandGroup /\ CommandGroup \subseteq {"cmd", "kid"}
    BY DEF CommandGroup
  <2>2. Waited => Kept(proc, proc', {"kid"})
    BY DEF Records, StatusOK, Runs
  <2>3. ASSUME pc["sup"] \in {"cleaning", "joining"} \/ (pc["sup"] = "returned" /\ result["sup"] # "setup")
        PROVE  \A p \in CommandGroup : proc'[p].state \in {"none", "gone"}
    <3>1. Waited
      BY <2>3 DEF Waited
    <3>2. \A p \in CommandGroup : proc[p].state \in {"none", "gone"}
      BY <2>3 DEF Records, GroupOK
    <3> QED
      BY <2>1, <2>2, <3>1, <3>2 DEF Kept, Ended
  <2> QED
    BY <2>1, <2>3 DEF GroupOK
<1> QED
  BY <1>1, <1>4, <1>5 DEF Records

\* The signals, the forwarders, the command, the user and the shell.
LEMMA EnvironmentStep ==
  ASSUME TypeOK, LoadOK, Records,
         \/ \E r \in Runners : ForwarderStep(r) \/ Cancel(r)
         \/ \E p \in Processes : KernelStep(p)
         \/ CommandStep \/ UserStep \/ ShellNotices \/ ResumeJob
  PROVE  Records'
<1>1. UNCHANGED <<owned, manage, pc, result>> /\ (check' # "none" => check # "none")
  BY DEF ForwarderStep, Forward, Terminate, GraceEnds, ForwarderDone, Cancel, KernelStep,
         TakesStop, TakesEnd,
         CommandStep, Orphans, KidLeavesGroup, ReadsTerminal, IgnoresStop, Exits, UserStep, Key, BringForward,
         ShellNotices, ResumeJob, ShellContinues, run
<1>2. (inGroup' => inGroup) /\ (fg' = "cmd" => fg = "cmd")
  <2>1. CASE \E r \in Runners : ForwarderStep(r) \/ Cancel(r)
    BY <2>1 DEF ForwarderStep, Forward, Terminate, GraceEnds, ForwarderDone, Cancel
  <2>2. CASE \E p \in Processes : KernelStep(p)
    BY <2>2 DEF KernelStep, TakesStop, TakesEnd
  <2>3. CASE CommandStep
    BY <2>3 DEF CommandStep, Orphans, KidLeavesGroup, ReadsTerminal, IgnoresStop, Exits
  <2>4. CASE UserStep \/ ShellNotices \/ ResumeJob
    BY <2>4 DEF UserStep, Key, BringForward, ShellNotices, ResumeJob, ShellContinues
  <2> QED
    BY <2>1, <2>2, <2>3, <2>4
<1>3. CASE Orphans
  <2>1. Runs("cmd") /\ proc' = Spawned(proc, "kid")
    BY <1>3 DEF Orphans
  <2>2. Kept(proc, proc', {"sup", "cmd"})
    BY <2>1 DEF Kept, Ended, Spawned, TypeOK, Processes, Runners
  <2> QED
    BY <1>1, <1>2, <2>1, <2>2, Undisturbed
<1>4. CASE ~Orphans
  <2>0. proc \in Table
    BY Typed
  <2>1. Kept(proc, proc', Processes)
    <3>1. ASSUME NEW r \in Runners, ForwarderStep(r) \/ Cancel(r) PROVE Kept(proc, proc', Processes)
      <4>1. CASE Forward(r)
        <5>1. PICK sig \in proc[r].pend \ {"STOP"} :
                proc' = Deliver([proc EXCEPT ![r].pend = @ \ {sig}], Target(r), sig)
          BY <4>1 DEF Forward
        <5>2. sig \in Pending
          BY <5>1, Typed, Groups DEF Process
        <5> DEFINE q == [proc EXCEPT ![r].pend = @ \ {sig}]
        <5>3. q \in Table /\ \A p \in Processes : q[p].state = proc[p].state /\ q[p].end = proc[p].end
          <6>1. q \in Table
            BY <5>2, Typed, Groups
          <6>2. ASSUME NEW p \in Processes PROVE q[p].state = proc[p].state /\ q[p].end = proc[p].end
            BY <2>0 DEF Table, Process
          <6> QED
            BY <6>1, <6>2
        <5> HIDE DEF q
        <5>4. Kept(q, proc', Processes)
          BY <5>1, <5>2, <5>3, DeliverEffect, Groups DEF q
        <5> QED
          BY <5>3, <5>4 DEF Kept, Ended
      <4>2. CASE Terminate(r) \/ GraceEnds(r)
        BY <2>0, <4>2, DeliverEffect, Groups DEF Terminate, GraceEnds, Pending
      <4>3. CASE ForwarderDone(r) \/ Cancel(r)
        BY <4>3 DEF ForwarderDone, Cancel, Kept, Ended
      <4> QED
        BY <3>1, <4>1, <4>2, <4>3 DEF ForwarderStep
    <3>2. ASSUME NEW p \in Processes, KernelStep(p) PROVE Kept(proc, proc', Processes)
      <4>1. CASE TakesStop(p)
        BY <2>0, <4>1, StoppedEffect DEF TakesStop, Runs
      <4>2. CASE TakesEnd(p)
        <5>1. PICK sig \in proc[p].pend \cap {"INT", "TERM"} :
                proc' = Die(proc, {p}, "signal") \/ proc' = [proc EXCEPT ![p].pend = @ \ {sig}]
          BY <4>2 DEF TakesEnd
        <5>2. CASE proc' = Die(proc, {p}, "signal")
          BY <2>0, <5>2, DieEffect DEF EndState
        <5>3. CASE proc' = [proc EXCEPT ![p].pend = @ \ {sig}]
          BY <2>0, <5>3 DEF Kept, Ended, Table, Process
        <5> QED
          BY <5>1, <5>2, <5>3
      <4> QED
        BY <3>2, <4>1, <4>2 DEF KernelStep
    <3>3. CASE CommandStep
      <4>1. CASE KidLeavesGroup
        BY <4>1 DEF KidLeavesGroup, Kept, Ended
      <4>2. CASE ReadsTerminal
        BY <2>0, <4>2, StoppedEffect DEF ReadsTerminal, Runs, Processes
      <4>3. CASE IgnoresStop
        BY <2>0, <4>3 DEF IgnoresStop, Kept, Ended, Table, Process, Processes
      <4>4. CASE Exits("cmd") \/ Exits("kid")
        <5>1. PICK p \in {"cmd", "kid"} : proc' = Die(proc, {p}, "exit")
          BY <4>4 DEF Exits
        <5>2. {p} \in SUBSET Processes
          BY DEF Processes
        <5> QED
          BY <2>0, <5>1, <5>2, DieEffect DEF EndState
      <4> QED
        BY <1>4, <3>3, <4>1, <4>2, <4>3, <4>4 DEF CommandStep
    <3>4. CASE UserStep \/ ShellNotices \/ ResumeJob
      <4>1. CASE BringForward \/ ResumeJob
        BY <2>0, <4>1, DeliverEffect DEF BringForward, ResumeJob, ShellContinues, Processes
      <4>2. CASE ShellNotices
        BY <2>0, <4>2 DEF ShellNotices, Kept, Ended, Table, Process
      <4>3. ASSUME NEW sig \in load.keys, Key(sig) PROVE Kept(proc, proc', Processes)
        <5>1. sig \in Pending
          BY DEF LoadOK, Pending
        <5> QED
          BY <2>0, <4>3, <5>1, DeliverEffect, Groups DEF Key, Processes
      <4> QED
        BY <3>4, <4>1, <4>2, <4>3 DEF UserStep
    <3> QED
      BY <3>1, <3>2, <3>3, <3>4
  <2>2. Kept(proc, proc', {"sup", "cmd"}) /\ Kept(proc, proc', {"kid"})
    BY <2>1 DEF Kept, Processes, Runners
  <2> QED
    BY <1>1, <1>2, <2>2, Undisturbed
<1> QED
  BY <1>3, <1>4

\* The steps of the two runs.
LEMMA RunStep ==
  ASSUME TypeOK, Records, NEW r \in Runners, MainStep(r) \/ StartFails(r)
  PROVE  Records'
<1>0. proc \in Table /\ pc \in [Runners -> Stage] /\ result \in [Runners -> EndState]
  BY Typed DEF TypeOK, EndState, Stage
<1>10. r = "outer" \/ r = "sup"
  BY DEF Runners
<1> USE DEF Runners, Processes
<1>1. CASE StartSupervisor
  <2>1. proc'["sup"] = [proc["sup"] EXCEPT !.state = "running"] /\ proc'["cmd"] = proc["cmd"]
    BY <1>0, <1>1 DEF StartSupervisor, Spawned, Table
  <2>2. pc["sup"] = "none" /\ pc'["sup"] = "start" /\ pc'["outer"] = "started" /\ result' = result
        /\ manage' = manage /\ fg' = fg /\ result["sup"] = "none" /\ ~manage /\ fg # "cmd" /\ result["outer"] = "none"
        /\ check' = check /\ check = "none"
    BY <1>1 DEF StartSupervisor, Records, BeginOK, TerminalOK, StatusOK
  <2>3. BeginOK' /\ TerminalOK' /\ GroupOK'
    BY <2>2 DEF BeginOK, TerminalOK, GroupOK
  <2>4. StatusOK'
    BY <2>1, <2>2 DEF StatusOK, Waited
  <2> QED
    BY <2>3, <2>4 DEF Records
\* From here on, if it is the supervisor's step, the supervisor is alive.
<1>4. Alive("sup") /\ pc["sup"] # "none" => result["outer"] = "none" /\ pc["outer"] # "start" /\ pc["sup"] # "returned"
  BY DEF Records, StatusOK, BeginOK
<1> USE DEF Runs, Alive
<1>2. CASE DecideForeground
  <2>1. /\ pc["sup"] = "start" /\ pc'["sup"] = "starting" /\ pc'["outer"] = pc["outer"] /\ Runs("sup")
        /\ UNCHANGED <<proc, inGroup, owned, result, fg>> /\ (manage' => owned) /\ (check' # "none" => manage')
    BY <1>0, <1>2 DEF DecideForeground
  <2>2. ~manage /\ result["sup"] = "none" /\ fg # "cmd"
    BY <2>1 DEF Records, BeginOK, TerminalOK
  <2>3. BeginOK' /\ TerminalOK' /\ GroupOK'
    BY <1>4, <2>1, <2>2 DEF BeginOK, TerminalOK, GroupOK
  <2>4. StatusOK'
    BY <1>4, <2>1, <2>2 DEF StatusOK, Waited
  <2> QED
    BY <2>3, <2>4 DEF Records
<1>11. CASE StartCommand
  <2>1. proc'["sup"] = proc["sup"]
    BY <1>0, <1>11 DEF StartCommand, Spawned, Table
  <2>2. /\ pc["sup"] = "starting" /\ pc'["sup"] = "started" /\ pc'["outer"] = pc["outer"] /\ Alive("sup")
        /\ UNCHANGED <<inGroup, owned, manage, result>> /\ (fg' = "cmd" => manage \/ fg = "cmd") /\ check' = "none"
    BY <1>0, <1>11 DEF StartCommand
  <2>3. result["outer"] = "none" /\ pc["outer"] # "start" /\ result["sup"] = "none"
    BY <1>4, <2>2 DEF Records, BeginOK
  <2>4. BeginOK' /\ TerminalOK' /\ GroupOK'
    BY <2>2, <2>3 DEF Records, BeginOK, TerminalOK, GroupOK
  <2>5. StatusOK'
    BY <2>1, <2>2, <2>3 DEF StatusOK, Waited
  <2> QED
    BY <2>4, <2>5 DEF Records
<1>3. CASE r = "outer" /\ StartFails(r)
  <2>1. proc' = proc /\ fg' = fg /\ owned' = owned /\ manage' = manage /\ inGroup' = inGroup /\ check' = check
        /\ pc["sup"] = "none" /\ pc'["sup"] = "none" /\ pc'["outer"] = "returned" /\ result'["sup"] = result["sup"]
    BY <1>0, <1>3 DEF StartFails, Records, BeginOK
  <2>2. BeginOK' /\ TerminalOK' /\ GroupOK'
    BY <2>1 DEF Records, BeginOK, TerminalOK, GroupOK
  <2>3. StatusOK'
    BY <2>1 DEF Records, StatusOK, Waited
  <2> QED
    BY <2>2, <2>3 DEF Records
<1>5. CASE r = "sup" /\ StartFails(r)
  <2>1. pc["sup"] \in {"start", "starting"} /\ Runs("sup") /\ proc' = Die(proc, {"sup"}, "setup")
        /\ owned' = owned /\ manage' = manage /\ check' = check /\ (fg' = "cmd" => manage \/ fg = "cmd")
        /\ pc'["sup"] = "returned" /\ pc'["outer"] = pc["outer"]
        /\ result'["sup"] = "setup" /\ result'["outer"] = result["outer"]
    BY <1>0, <1>5 DEF StartFails
  <2>2. Ended(proc', "sup") /\ proc'["sup"].end = "setup"
    BY <1>0, <2>1, DieEffect DEF Ended, Runs, EndState
  <2>3. BeginOK' /\ TerminalOK' /\ GroupOK'
    BY <1>4, <2>1 DEF Records, BeginOK, TerminalOK, GroupOK
  <2>4. StatusOK'
    BY <1>4, <2>1, <2>2 DEF StatusOK, Waited, Ended, Alive
  <2> QED
    BY <2>3, <2>4 DEF Records
<1>6. ASSUME \/ Notify(r) \/ ChildStops(r) \/ Halt(r) \/ Continue(r)
             \/ pc[r] # "cleaning" /\ (CheckTerminal(r) \/ (r = "sup" /\ MoveTerminal))
      PROVE  Records'
  <2> DEFINE Before == {"started", "waiting", "yielding", "halting", "resuming", "continuing"}
  <2>1. Kept(proc, proc', Processes)
    <3>1. CASE Notify(r) \/ CheckTerminal(r) \/ MoveTerminal
      BY <3>1 DEF Notify, CheckTerminal, MoveTerminal, Kept, Ended
    <3>2. CASE ChildStops(r)
      BY <1>0, <3>2 DEF ChildStops, Kept, Ended, Table, Process
    <3>3. CASE Halt(r) \/ Continue(r)
      BY <1>0, <3>3, DeliverEffect, Groups DEF Halt, Continue, Pending
    <3> QED
      BY <1>6, <3>1, <3>2, <3>3
  <2>2. /\ Runs(r) /\ pc[r] \in Before /\ pc'[r] \in Before /\ \A s \in Runners \ {r} : pc'[s] = pc[s]
        /\ UNCHANGED <<owned, manage, result, inGroup>> /\ (check' # "none" => check # "none" \/ (r = "sup" /\ manage))
    <3>1. CASE Notify(r) \/ ChildStops(r) \/ Halt(r) \/ Continue(r)
      BY <1>0, <3>1 DEF Notify, ChildStops, Halt, Continue
    <3>2. CASE pc[r] # "cleaning" /\ CheckTerminal(r)
      BY <1>0, <3>2 DEF CheckTerminal, Transfers, Manages
    <3>3. CASE pc[r] # "cleaning" /\ r = "sup" /\ MoveTerminal
      BY <1>0, <3>3 DEF MoveTerminal, Transfers
    <3> QED
      BY <1>6, <3>1, <3>2, <3>3
  <2>3. fg' = "cmd" => fg = "cmd" \/ (r = "sup" /\ manage)
    <3>1. CASE r = "sup" /\ MoveTerminal
      BY <3>1 DEF Records, TerminalOK, MoveTerminal, Checked
    <3>2. CASE ~(r = "sup" /\ MoveTerminal)
      BY <1>6, <3>2 DEF Notify, ChildStops, Halt, Continue, CheckTerminal
    <3> QED
      BY <3>1, <3>2
  <2>4. CASE r = "outer"
    <3>1. Kept(proc, proc', {"sup", "cmd"}) /\ Kept(proc, proc', {"kid"})
      BY <2>1 DEF Kept
    <3> QED
      BY <2>2, <2>3, <2>4, <3>1, Undisturbed
  <2>5. CASE r = "sup"
    <3>1. pc'["outer"] = pc["outer"] /\ ~Waited /\ ~Waited' /\ pc'["sup"] \in Before
      BY <2>2, <2>5 DEF Waited
    <3>2. BeginOK' /\ TerminalOK' /\ GroupOK'
      BY <1>4, <2>2, <2>3, <2>5, <3>1 DEF Records, BeginOK, TerminalOK, GroupOK
    <3>3. StatusOK'
      <4>1. proc["cmd"].state = "gone" => proc'["cmd"].state = "gone" /\ proc'["cmd"].end = proc["cmd"].end
        BY <2>1 DEF Kept, Ended
      <4> QED
        BY <1>4, <2>2, <2>5, <3>1, <4>1 DEF Records, StatusOK
    <3> QED
      BY <3>2, <3>3 DEF Records
  <2> QED
    BY <1>10, <2>4, <2>5
<1>7. CASE ChildEnds(r)
  <2>1. CASE r = "outer"
    <3>1. /\ Kept(proc, proc', Processes) /\ Ended(proc', "sup") /\ Ended(proc, "sup")
          /\ proc'["sup"].end = proc["sup"].end
          /\ pc["outer"] = "waiting" /\ pc'["outer"] = "cleaning" /\ pc'["sup"] = pc["sup"]
          /\ result'["outer"] = proc["sup"].end /\ result'["sup"] = result["sup"]
          /\ UNCHANGED <<owned, manage, check, fg, inGroup>>
      BY <1>0, <1>7, <2>1 DEF ChildEnds, Child, Kept, Ended, Table, Process
    <3>2. BeginOK' /\ TerminalOK'
      BY <3>1 DEF Records, BeginOK, TerminalOK
    <3>3. GroupOK'
      BY <3>1 DEF Records, GroupOK, CommandGroup, Kept, Ended
    <3>4. StatusOK'
      <4>1. proc["cmd"].state = "gone" => proc'["cmd"].state = "gone" /\ proc'["cmd"].end = proc["cmd"].end
        BY <3>1 DEF Kept, Ended
      <4> QED
        BY <3>1, <4>1 DEF Records, StatusOK, Waited, Ended, Alive
    <3> QED
      BY <3>2, <3>3, <3>4 DEF Records
  <2>2. CASE r = "sup"
    <3>1. /\ proc'["cmd"].state = "gone" /\ proc'["cmd"].end = proc["cmd"].end /\ Runs("sup")
          /\ pc["sup"] = "waiting" /\ pc'["sup"] = "reaping" /\ pc'["outer"] = pc["outer"]
          /\ result'["sup"] = proc["cmd"].end /\ result'["outer"] = result["outer"]
          /\ UNCHANGED <<owned, manage, check, fg, inGroup>>
      BY <1>0, <1>7, <2>2 DEF ChildEnds, Child, Table, Process
    <3>2. BeginOK' /\ TerminalOK' /\ GroupOK'
      BY <1>4, <3>1 DEF Records, BeginOK, TerminalOK, GroupOK
    <3>3. StatusOK'
      BY <1>4, <3>1 DEF StatusOK, Waited
    <3> QED
      BY <3>2, <3>3 DEF Records
  <2> QED
    BY <1>10, <2>1, <2>2
<1>8. CASE TerminateAndReap
  <2> DEFINE killed == Deliver(proc, CommandGroup, "KILL")
             new(p) == IF p \in CommandGroup /\ killed[p].state = "zombie" THEN [killed[p] EXCEPT !.state = "gone"]
                       ELSE killed[p]
  <2>1. /\ pc["sup"] = "reaping" /\ Runs("sup") /\ pc'["sup"] = "cleaning" /\ pc'["outer"] = pc["outer"]
        /\ UNCHANGED <<owned, manage, check, fg, inGroup, result>>
        /\ proc' = [p \in Processes |-> new(p)]
    BY <1>0, <1>8 DEF TerminateAndReap
  <2>2. killed \in Table /\ Kept(proc, killed, Processes) /\ \A p \in CommandGroup : Ended(killed, p)
    BY <1>0, DeliverEffect, Groups
  <2> HIDE DEF killed
  <2>3. \A p \in CommandGroup : new(p).state \in {"none", "gone"} /\ new(p).end = killed[p].end
    BY <2>2, Groups DEF Table, Process, Ended
  <2>4. "cmd" \in CommandGroup /\ CommandGroup' = CommandGroup /\ CommandGroup \subseteq Processes
    BY <2>1, Groups DEF CommandGroup
  <2>5. proc["cmd"].state = "gone" /\ killed["cmd"].state = "gone" /\ killed["cmd"].end = proc["cmd"].end
    BY <2>1, <2>2 DEF Records, StatusOK, Waited, Kept, Ended
  <2>6. proc'["cmd"].state = "gone" /\ proc'["cmd"].end = proc["cmd"].end
    BY <2>1, <2>5
  <2>7. GroupOK'
    BY <2>1, <2>3, <2>4 DEF GroupOK
  <2> HIDE DEF new
  <2>8. BeginOK' /\ TerminalOK'
    BY <1>4, <2>1 DEF Records, BeginOK, TerminalOK
  <2>9. StatusOK'
    BY <1>4, <2>1, <2>6 DEF Records, StatusOK, Waited
  <2> QED
    BY <2>7, <2>8, <2>9 DEF Records
<1>9. CASE Return(r) \/ (pc[r] = "cleaning" /\ (CheckTerminal(r) \/ (r = "sup" /\ MoveTerminal)))
  <2>1. CASE r = "outer"
    <3>1. /\ pc["outer"] # "start" /\ pc'["outer"] # "start" /\ pc'["sup"] = pc["sup"]
          /\ UNCHANGED <<proc, fg, owned, manage, check, result, inGroup>>
      BY <1>0, <1>9, <2>1 DEF CheckTerminal, Manages, Transfers, Return
    <3>2. Kept(proc, proc', {"sup", "cmd"}) /\ Kept(proc, proc', {"kid"})
      BY <3>1 DEF Kept, Ended
    <3> QED
      BY <3>1, <3>2, Undisturbed
  <2>2. CASE r = "sup" /\ pc["sup"] = "cleaning" /\ (CheckTerminal(r) \/ MoveTerminal)
    <3>1. /\ Runs("sup") /\ pc'["sup"] \in {"cleaning", "joining"} /\ pc'["outer"] = pc["outer"]
          /\ UNCHANGED <<proc, owned, manage, result, inGroup>>
          /\ check' # "none" => manage
          /\ fg' = "cmd" => fg = "cmd" /\ (pc'["sup"] = "joining" => ~manage)
      <4>1. CASE CheckTerminal(r)
        BY <1>0, <2>2, <4>1 DEF CheckTerminal, Manages, Transfers, Records, TerminalOK
      <4>2. CASE MoveTerminal
        BY <1>0, <2>2, <4>2 DEF MoveTerminal, Transfers
      <4> QED
        BY <2>2, <4>1, <4>2
    <3>2. pc'["sup"] = "joining" => fg' # "cmd"
      BY <2>2, <3>1 DEF Records, TerminalOK
    <3>3. BeginOK' /\ TerminalOK' /\ GroupOK'
      BY <1>4, <2>2, <3>1, <3>2 DEF Records, BeginOK, TerminalOK, GroupOK, CommandGroup
    <3>4. StatusOK'
      BY <1>4, <2>2, <3>1 DEF Records, StatusOK, Waited
    <3> QED
      BY <3>3, <3>4 DEF Records
  <2>3. CASE r = "sup" /\ Return(r)
    <3>1. pc["sup"] = "joining" /\ Runs("sup") /\ pc'["sup"] = "returned" /\ pc'["outer"] = pc["outer"]
          /\ UNCHANGED <<fg, owned, manage, check, result, inGroup>>
          /\ proc' = Die(proc, {"sup"}, result["sup"])
      BY <1>0, <2>3 DEF Return
    <3>2. result["sup"] \in EndState
      BY <1>0
    <3>3. Kept(proc, proc', Processes) /\ Ended(proc', "sup") /\ proc'["sup"].end = result["sup"]
      BY <1>0, <3>1, <3>2, DieEffect DEF Ended, Runs
    <3>4. BeginOK' /\ TerminalOK'
      BY <1>4, <3>1 DEF Records, BeginOK, TerminalOK
    <3>5. GroupOK'
      BY <3>1, <3>3 DEF Records, GroupOK, CommandGroup, Kept, Ended
    <3>6. proc'["cmd"].state = "gone" /\ proc'["cmd"].end = proc["cmd"].end
      BY <3>1, <3>3 DEF Records, StatusOK, Waited, Kept, Ended
    <3>7. StatusOK'
      BY <1>4, <3>1, <3>3, <3>6 DEF Records, StatusOK, Waited, Ended, Alive
    <3> QED
      BY <3>4, <3>5, <3>7 DEF Records
  <2> QED
    BY <1>9, <1>10, <2>1, <2>2, <2>3
<1> QED
  BY <1>1, <1>2, <1>3, <1>5, <1>6, <1>7, <1>8, <1>9, <1>10, <1>11 DEF MainStep

-------------------------------------------------------------------------------
(* The look at the terminal and the stops of airjail *)

\* The airjail process is not stopped by what made r of the table q, and the shell is
\* told of no stop it was not told of before.
Undelayed(q, r) ==
  /\ r["outer"].state = "stopped" => q["outer"].state = "stopped"
  /\ r["outer"].news => q["outer"].news /\ r["outer"].state = q["outer"].state

\* A death stops nobody and is no stop.
LEMMA DieUndelayed ==
  ASSUME NEW q \in Table, NEW dying \in SUBSET Processes, NEW how \in EndState
  PROVE  Undelayed(q, Die(q, dying, how))
<1>1. "outer" \in Processes
  BY DEF Processes, Runners
<1>2. \/ Die(q, dying, how)["outer"] = q["outer"]
      \/ Die(q, dying, how)["outer"].state \in {"gone", "zombie"} /\ Die(q, dying, how)["outer"].news = FALSE
  BY <1>1 DEF Die
<1> QED
  BY <1>2 DEF Undelayed

\* A signal stops nobody before it is taken.
LEMMA DeliverUndelayed ==
  ASSUME NEW q \in Table, NEW targets \in SUBSET Processes, NEW sig \in Pending \cup {"KILL", "CONT"}
  PROVE  Undelayed(q, Deliver(q, targets, sig))
<1>1. CASE sig = "KILL"
  <2>1. Deliver(q, targets, sig) = Die(q, targets, "signal")
    BY <1>1 DEF Deliver
  <2> QED
    BY <2>1, DieUndelayed DEF EndState
<1>2. CASE sig # "KILL"
  <2>1. "outer" \in Processes /\ q["outer"] \in Process
    BY DEF Table, Processes, Runners
  <2>2. \/ Deliver(q, targets, sig)["outer"] = q["outer"]
        \/ /\ Deliver(q, targets, sig)["outer"].state = "running"
           /\ Deliver(q, targets, sig)["outer"].news = FALSE
        \/ /\ Deliver(q, targets, sig)["outer"].state = q["outer"].state
           /\ Deliver(q, targets, sig)["outer"].news = q["outer"].news
    BY <1>2, <2>1 DEF Deliver, Process
  <2> QED
    BY <2>2 DEF Undelayed
<1> QED
  BY <1>1, <1>2

\* What stops nobody, gives nothing to the shell and makes no new look keeps the
\* invariant of the look at the terminal.
LEMMA Unlooked ==
  ASSUME CheckOK, Undelayed(proc, proc'), UNCHANGED <<check, manage>>, fg' = "shell" => fg = "shell",
         pc'["sup"] = "starting" => pc["sup"] = "starting"
  PROVE  CheckOK'
  BY DEF CheckOK, Undelayed

\* Every step keeps the invariant of the look at the terminal.
LEMMA CheckStep ==
  ASSUME TypeOK, LoadOK, CheckOK, [Next]_vars
  PROVE  CheckOK'
<1>0. proc \in Table /\ pc \in [Runners -> Stage] /\ "outer" \in Processes /\ "sup" \in Runners /\ "sup" # "outer"
  BY Typed DEF TypeOK, Stage, Processes, Runners
<1>1. ASSUME proc' = proc PROVE Undelayed(proc, proc')
  BY <1>1 DEF Undelayed
<1>2. ASSUME NEW p \in {"sup", "cmd", "kid"}, NEW new, proc' = [proc EXCEPT ![p] = new]
      PROVE  Undelayed(proc, proc')
  BY <1>0, <1>2 DEF Undelayed, Table
<1>3. ASSUME NEW r \in Runners, MainStep(r) \/ StartFails(r) PROVE CheckOK'
  <2>1. CASE StartSupervisor \/ TerminateAndReap
    <3>1. CASE StartSupervisor
      <4>1. Undelayed(proc, proc')
        BY <1>0, <3>1 DEF StartSupervisor, Spawned, Undelayed, Table
      <4> QED
        BY <3>1, <4>1, Unlooked DEF StartSupervisor
    <3>2. CASE TerminateAndReap
      <4> DEFINE killed == Deliver(proc, CommandGroup, "KILL")
      <4>1. Undelayed(proc, killed)
        BY <1>0, DeliverUndelayed, Groups
      <4>2. proc'["outer"] = killed["outer"]
        BY <1>0, <3>2 DEF TerminateAndReap, CommandGroup
      <4>3. UNCHANGED <<fg, check, manage>> /\ pc'["sup"] # "starting"
        BY <1>0, <3>2 DEF TerminateAndReap
      <4> HIDE DEF killed
      <4> QED
        BY <4>1, <4>2, <4>3, Unlooked DEF Undelayed
    <3> QED
      BY <2>1, <3>1, <3>2
  <2>2. CASE DecideForeground
    BY <1>0, <2>2 DEF DecideForeground, CheckOK, Seen
  <2>3. CASE StartCommand
    <3>1. proc'["outer"] = proc["outer"] /\ check' = "none" /\ pc'["sup"] # "starting"
      BY <1>0, <2>3 DEF StartCommand, Spawned, Table
    <3> QED
      BY <3>1 DEF CheckOK
  <2>4. CASE CheckTerminal(r)
    <3>1. UNCHANGED <<proc, fg, manage>> /\ (pc'["sup"] = "starting" => pc["sup"] = "starting")
      BY <1>0, <2>4 DEF CheckTerminal, Transfers
    <3>2. \/ check' = check
          \/ fg \in {"cmd", "job"} /\ check' = Seen
      BY <2>4 DEF CheckTerminal, Transfers
    <3> QED
      BY <3>1, <3>2 DEF CheckOK, Seen
  <2>5. CASE MoveTerminal
    <3>1. proc' = proc /\ check' = "none" /\ pc'["sup"] # "starting"
      BY <1>0, <2>5 DEF MoveTerminal, Transfers
    <3> QED
      BY <3>1 DEF CheckOK
  <2>6. CASE Notify(r) \/ ChildEnds(r) \/ ChildStops(r)
    <3>1. UNCHANGED <<fg, check, manage>> /\ (pc'["sup"] = "starting" => pc["sup"] = "starting")
      BY <1>0, <2>6 DEF Notify, ChildEnds, ChildStops
    <3>2. Child[r] \in {"sup", "cmd"}
      BY DEF Child, Runners
    <3>3. proc' = proc \/ (\E p \in {"sup", "cmd"} : \E new : proc' = [proc EXCEPT ![p] = new])
      BY <2>6, <3>2 DEF Notify, ChildEnds, ChildStops
    <3>4. Undelayed(proc, proc')
      BY <1>1, <1>2, <3>3
    <3> QED
      BY <3>1, <3>4, Unlooked
  <2>7. CASE Halt(r) \/ Continue(r)
    <3>1. UNCHANGED <<fg, check, manage>> /\ (pc'["sup"] = "starting" => pc["sup"] = "starting")
      BY <1>0, <2>7 DEF Halt, Continue
    <3>2. Undelayed(proc, proc')
      BY <1>0, <2>7, DeliverUndelayed, Groups DEF Halt, Continue, Pending
    <3> QED
      BY <3>1, <3>2, Unlooked
  <2>8. CASE Return(r) \/ StartFails(r)
    <3>1. UNCHANGED <<check, manage>> /\ (pc'["sup"] = "starting" => pc["sup"] = "starting")
          /\ (fg' = "shell" => fg = "shell")
      BY <1>0, <2>8 DEF Return, StartFails
    <3>2. result["sup"] \in EndState /\ "setup" \in EndState /\ {"sup"} \subseteq Processes
      BY DEF TypeOK, EndState, Processes, Runners
    <3>3. Undelayed(proc, proc')
      <4>1. proc' = proc \/ proc' = Die(proc, {"sup"}, result["sup"]) \/ proc' = Die(proc, {"sup"}, "setup")
        BY <2>8 DEF Return, StartFails
      <4> QED
        BY <1>0, <1>1, <3>2, <4>1, DieUndelayed
    <3> QED
      BY <3>1, <3>3, Unlooked
  <2> QED
    BY <1>3, <2>1, <2>2, <2>3, <2>4, <2>5, <2>6, <2>7, <2>8 DEF MainStep
<1>4. ASSUME NEW r \in Runners, ForwarderStep(r) \/ Cancel(r) PROVE CheckOK'
  <2>1. UNCHANGED <<fg, check, manage, pc>>
    BY <1>4 DEF ForwarderStep, Forward, Terminate, GraceEnds, ForwarderDone, Cancel, run
  <2>2. CASE Forward(r)
    <3>1. PICK sig \in proc[r].pend \ {"STOP"} :
            proc' = Deliver([proc EXCEPT ![r].pend = @ \ {sig}], Target(r), sig)
      BY <2>2 DEF Forward
    <3> DEFINE q == [proc EXCEPT ![r].pend = @ \ {sig}]
    <3>2. sig \in Pending
      BY <3>1, Typed, Groups DEF Process
    <3>3. q \in Table /\ q["outer"].state = proc["outer"].state /\ q["outer"].news = proc["outer"].news
      <4>1. q \in Table
        BY <3>2, Typed, Groups
      <4> QED
        BY <1>0, <4>1 DEF Table, Process
    <3> HIDE DEF q
    <3>4. Undelayed(q, proc')
      BY <3>1, <3>2, <3>3, DeliverUndelayed, Groups DEF q
    <3> QED
      BY <2>1, <3>3, <3>4, Unlooked DEF Undelayed
  <2>3. CASE Terminate(r) \/ GraceEnds(r)
    <3>1. Undelayed(proc, proc')
      BY <1>0, <2>3, DeliverUndelayed, Groups DEF Terminate, GraceEnds, Pending
    <3> QED
      BY <2>1, <3>1, Unlooked
  <2>4. CASE ForwarderDone(r) \/ Cancel(r)
    BY <1>1, <2>1, <2>4, Unlooked DEF ForwarderDone, Cancel
  <2> QED
    BY <1>4, <2>2, <2>3, <2>4 DEF ForwarderStep
<1>5. ASSUME NEW p \in Processes, TakesStop(p) PROVE CheckOK'
  <2>1. UNCHANGED <<fg, manage, pc>> /\ proc' = Stopped(proc, p)
        /\ check' = (IF p = "outer" /\ check = "fresh" THEN "stale" ELSE check)
    BY <1>5 DEF TakesStop
  <2>2. CASE p = "outer"
    <3>1. proc'["outer"].state = "stopped"
      BY <1>0, <2>1, <2>2 DEF Stopped, Table, Process
    <3> QED
      BY <2>1, <2>2, <3>1 DEF CheckOK
  <2>3. CASE p # "outer"
    <3>1. proc'["outer"] = proc["outer"]
      BY <1>0, <2>1, <2>3 DEF Stopped, Table
    <3> QED
      BY <2>1, <2>3, <3>1, Unlooked DEF Undelayed
  <2> QED
    BY <2>2, <2>3
<1>6. ASSUME NEW p \in Processes, TakesEnd(p) PROVE CheckOK'
  <2>1. UNCHANGED <<fg, check, manage, pc>>
    BY <1>6 DEF TakesEnd, run
  <2>2. PICK sig \in proc[p].pend \cap {"INT", "TERM"} :
          proc' = Die(proc, {p}, "signal") \/ proc' = [proc EXCEPT ![p].pend = @ \ {sig}]
    BY <1>6 DEF TakesEnd
  <2>3. Undelayed(proc, proc')
    <3>1. CASE proc' = Die(proc, {p}, "signal")
      BY <1>0, <3>1, DieUndelayed DEF EndState
    <3>2. CASE proc' = [proc EXCEPT ![p].pend = @ \ {sig}]
      BY <1>0, <3>2 DEF Undelayed, Table, Process
    <3> QED
      BY <2>2, <3>1, <3>2
  <2> QED
    BY <2>1, <2>3, Unlooked
<1>7. CASE CommandStep
  <2>1. UNCHANGED <<fg, check, manage, pc>>
    BY <1>7 DEF CommandStep, Orphans, KidLeavesGroup, ReadsTerminal, IgnoresStop, Exits, run
  <2>2. CASE Exits("cmd") \/ Exits("kid")
    <3>1. PICK p \in {"cmd", "kid"} : proc' = Die(proc, {p}, "exit")
      BY <2>2 DEF Exits
    <3>2. {p} \in SUBSET Processes /\ "exit" \in EndState
      BY DEF Processes, EndState
    <3>3. Undelayed(proc, proc')
      BY <1>0, <3>1, <3>2, DieUndelayed
    <3> QED
      BY <2>1, <3>3, Unlooked
  <2>3. CASE Orphans \/ KidLeavesGroup \/ ReadsTerminal \/ IgnoresStop
    <3>1. proc'["outer"] = proc["outer"]
      BY <1>0, <2>3 DEF Orphans, KidLeavesGroup, ReadsTerminal, IgnoresStop, Spawned, Stopped, Table
    <3> QED
      BY <2>1, <3>1, Unlooked DEF Undelayed
  <2> QED
    BY <1>7, <2>2, <2>3 DEF CommandStep
<1>8. CASE UserStep \/ ShellNotices \/ ResumeJob
  <2>1. UNCHANGED <<check, manage, pc>>
    BY <1>8 DEF UserStep, Key, BringForward, ShellNotices, ResumeJob, ShellContinues, run
  <2>2. ASSUME NEW sig \in load.keys, Key(sig) PROVE CheckOK'
    <3>1. sig \in Pending /\ UNCHANGED fg /\ Runners \subseteq Processes
      BY <2>2 DEF LoadOK, Pending, Key, Processes
    <3>2. Undelayed(proc, proc')
      BY <1>0, <2>2, <3>1, DeliverUndelayed, Groups DEF Key
    <3> QED
      BY <2>1, <3>1, <3>2, Unlooked
  <2>3. CASE BringForward
    <3>1. Undelayed(proc, proc') /\ fg' = "job"
      BY <1>0, <2>3, DeliverUndelayed DEF BringForward, ShellContinues, Processes
    <3> QED
      BY <2>1, <3>1, Unlooked
  <2>4. CASE ShellNotices
    <3>1. proc["outer"].news /\ proc'["outer"].news = FALSE
      BY <1>0, <2>4 DEF ShellNotices, Table, Process
    <3> QED
      BY <2>1, <3>1 DEF CheckOK
  <2>5. CASE ResumeJob
    <3>1. Undelayed(proc, proc') /\ proc["outer"].state = "stopped"
      BY <1>0, <2>5, DeliverUndelayed DEF ResumeJob, ShellContinues, Processes
    <3> QED
      BY <2>1, <3>1 DEF CheckOK, Undelayed
  <2> QED
    BY <1>8, <2>2, <2>3, <2>4, <2>5 DEF UserStep
<1>9. CASE UNCHANGED vars
  BY <1>1, <1>9, Unlooked DEF vars
<1> QED
  BY <1>3, <1>4, <1>5, <1>6, <1>7, <1>8, <1>9 DEF Next, KernelStep

-------------------------------------------------------------------------------
(* The theorems *)

\* runSandboxedProcess keeps its inductive invariant at both levels, whatever the
\* command, the user, the shell and the callers do.
THEOREM JobInvariantHolds == Spec => []JobInvariant
<1>1. Init => JobInvariant
  <2> SUFFICES ASSUME Init PROVE JobInvariant
    OBVIOUS
  <2>1. TypeOK /\ LoadOK
    BY TypeInit
  <2>2. pc["sup"] = "none" /\ result["sup"] = "none" /\ result["outer"] = "none" /\ ~owned /\ ~manage /\ fg # "cmd" /\ check = "none"
    BY DEF Init, Runners
  <2>3. Records
    BY <2>2 DEF Records, BeginOK, TerminalOK, StatusOK, GroupOK, Waited
  <2>4. CheckOK
    BY <2>2 DEF Init, CheckOK, Processes, Runners
  <2> QED
    BY <2>1, <2>3, <2>4 DEF JobInvariant, Records
<1>2. JobInvariant /\ [Next]_vars => JobInvariant'
  <2> SUFFICES ASSUME JobInvariant, [Next]_vars PROVE JobInvariant'
    OBVIOUS
  <2>1. TypeOK /\ LoadOK /\ Records /\ TypeOK' /\ LoadOK'
    BY TypeStep DEF JobInvariant, Records
  <2>2. Records'
    <3>1. CASE \E r \in Runners : MainStep(r) \/ StartFails(r)
      BY <2>1, <3>1, RunStep
    <3>2. CASE \/ \E r \in Runners : ForwarderStep(r) \/ Cancel(r)
               \/ \E p \in Processes : KernelStep(p)
               \/ CommandStep \/ UserStep \/ ShellNotices \/ ResumeJob
      BY <2>1, <3>2, EnvironmentStep
    <3>3. CASE UNCHANGED vars
      <4>1. Kept(proc, proc', {"sup", "cmd"}) /\ Kept(proc, proc', {"kid"})
        BY <3>3 DEF vars, Kept, Ended
      <4> QED
        BY <2>1, <3>3, <4>1, Undisturbed DEF vars
    <3> QED
      BY <3>1, <3>2, <3>3 DEF Next
  <2>3. CheckOK'
    BY <2>1, CheckStep DEF JobInvariant
  <2> QED
    BY <2>1, <2>2, <2>3 DEF JobInvariant, Records
<1> QED
  BY <1>1, <1>2, PTL DEF Spec

\* What airjail returns is how the command ended, unless the supervisor was killed
\* on the way; the terminal is the command's only if it was airjail's.
THEOREM CommandsExitStatus == Spec => []ExitStatusIsTheCommands
<1>1. JobInvariant => ExitStatusIsTheCommands
  BY DEF JobInvariant, ExitStatusIsTheCommands, TerminalOK, StatusOK
<1> QED
  BY <1>1, JobInvariantHolds, PTL

\* From the moment the supervisor has reaped the command's group none of it is left;
\* and the terminal is left to no group that is gone.
THEOREM GroupLeavesNothing == Spec => []NothingLeftBehind
<1>1. JobInvariant => NothingLeftBehind
  BY DEF JobInvariant, NothingLeftBehind, TerminalOK, GroupOK
<1> QED
  BY <1>1, JobInvariantHolds, PTL

\* No step of runSandboxedProcess takes the terminal from the shell, unless airjail
\* was stopped between the look at the terminal and that step (lines 38 and 71,
\* transferTerminalForegroundIfOwned).
THEOREM ShellKeepsTerminal == Spec => TerminalNotTaken
<1>1. JobInvariant /\ [Next]_vars => [fg = "shell" /\ fg' # "shell" /\ pc' # pc => check = "stale"]_vars
  <2> SUFFICES ASSUME JobInvariant, Next, fg = "shell", fg' # "shell", pc' # pc PROVE check = "stale"
    OBVIOUS
  <2>0. /\ check \in {"none", "fresh", "stale"} /\ check # "fresh"
        /\ pc["sup"] \in {"none", "start"} => ~manage
        /\ pc["sup"] = "starting" /\ manage => check # "none"
    BY DEF JobInvariant, TypeOK, CheckOK, BeginOK
  <2>1. ASSUME NEW r \in Runners, MainStep(r) \/ StartFails(r) PROVE check = "stale"
    <3>1. CASE StartSupervisor \/ DecideForeground \/ TerminateAndReap \/ Notify(r) \/ ChildEnds(r)
               \/ ChildStops(r) \/ Halt(r) \/ CheckTerminal(r) \/ Continue(r) \/ Return(r)
      BY <3>1 DEF StartSupervisor, DecideForeground, TerminateAndReap, Notify, ChildEnds, ChildStops,
                  Halt, CheckTerminal, Continue, Return
    <3>2. CASE MoveTerminal
      BY <2>0, <3>2 DEF MoveTerminal, Checked
    <3>3. CASE StartCommand
      BY <2>0, <3>3 DEF StartCommand
    <3>4. CASE StartFails(r)
      BY <2>0, <3>4 DEF StartFails
    <3> QED
      BY <2>1, <3>1, <3>2, <3>3, <3>4 DEF MainStep
  <2>2. ~(\E r \in Runners : MainStep(r) \/ StartFails(r)) => pc' = pc
    BY DEF Next, ForwarderStep, Forward, Terminate, GraceEnds, ForwarderDone, Cancel, KernelStep,
           TakesStop, TakesEnd, CommandStep, Orphans, KidLeavesGroup, ReadsTerminal, IgnoresStop, Exits,
           UserStep, Key, BringForward, ShellNotices, ResumeJob, ShellContinues, run
  <2> QED
    BY <2>1, <2>2
<1> QED
  BY <1>1, JobInvariantHolds, PTL DEF Spec, TerminalNotTaken
===============================================================================
