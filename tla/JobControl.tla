------------------------------ MODULE JobControl ------------------------------
(***************************************************************************)
(* namespace.runSandboxedProcess, which runs twice: in airjail itself      *)
(* ("outer"), where the process is the hidden supervisor ("sup") in        *)
(* airjail's own process group, and in the supervisor, where it is the     *)
(* command ("cmd") in a group of its own.  "kid" is an orphaned descendant *)
(* of the command, adopted by the supervisor.  Each of the two runs has a  *)
(* loop around Wait4 and a goroutine that forwards signals.  Around them,  *)
(* the kernel's process states, a terminal and an interactive shell.       *)
(*                                                                         *)
(* INT stands for the signals a user sends, TERM for the one airjail sends *)
(* when it is canceled; TSTP is ^Z.  Equal signals that wait together are  *)
(* one.                                                                    *)
(***************************************************************************)
EXTENDS Naturals

CONSTANTS
  Terminal,  \* standard input is a terminal
  Loads      \* what a user, the command and the callers may do in one session

\* The signals of the keys pressed, the runs whose context may be canceled,
\* whether the command leaves an orphan, and a bound on key strokes, shell
\* commands and terminal reads
ASSUME JobAssumption ==
  /\ Terminal \in BOOLEAN
  /\ Loads \subseteq [keys : SUBSET {"INT", "TSTP"}, cancels : SUBSET {"outer", "sup"},
                      orphans : BOOLEAN, events : Nat]

VARIABLES
  proc,       \* the processes, as the kernel sees them
  inGroup,    \* the kid is still in the command's process group
  fg,         \* the terminal's foreground group: shell, job or cmd
  owned,      \* the outer process owned the terminal when it started
  manage,     \* manageForeground of the supervisor
  check,      \* fresh or stale: the supervisor has seen that it may set the foreground
              \* group and is about to; stale if airjail was stopped then or since
  pc,         \* where runSandboxedProcess stands
  forwarder,  \* where its goroutine stands
  canceled,   \* its context is canceled
  result,     \* what it returned: how the process ended, or setup
  load        \* the load of this session, with the events that are left

vars == <<proc, inGroup, fg, owned, manage, check, pc, forwarder, canceled, result, load>>
run == <<owned, manage, check, pc, forwarder, canceled, result>>

Runners == {"outer", "sup"}
Processes == Runners \cup {"cmd", "kid"}
Child == [outer |-> "sup", sup |-> "cmd"]
CommandGroup == {"cmd"} \cup (IF inGroup THEN {"kid"} ELSE {})

\* signalTarget
Target(r) == IF r = "outer" THEN {"sup"} ELSE CommandGroup

-------------------------------------------------------------------------------
(* The kernel *)

Alive(p) == proc[p].state \in {"running", "stopped"}
Runs(p) == proc[p].state = "running"

\* Processes in `dying' end; PDEATHSIG takes their children along, and what no
\* supervisor is left to reap goes to PID 1
Die(q, dying, how) ==
  LET ends == dying \cup (IF "outer" \in dying THEN {"sup", "cmd"} ELSE IF "sup" \in dying THEN {"cmd"} ELSE {})
      live(p) == q[p].state \in {"running", "stopped"}
      unsupervised == "sup" \in ends \/ ~live("sup")
      Dead(p) == [state |-> IF unsupervised /\ p \in {"cmd", "kid"} THEN "gone" ELSE "zombie",
                  pend |-> {}, news |-> FALSE, end |-> IF p \in dying THEN how ELSE "signal"]
  IN  [p \in Processes |->
         IF live(p) /\ p \in ends THEN Dead(p)
         ELSE IF unsupervised /\ p \in {"cmd", "kid"} /\ q[p].state = "zombie" THEN [q[p] EXCEPT !.state = "gone"]
         ELSE q[p]]

\* After signal.Notify the signals of a runner wait in its channel
Notified(r) == pc[r] \in {"waiting", "yielding", "halting", "resuming", "continuing", "reaping", "cleaning"}

\* kill(2): KILL ends at once, CONT discards stop signals, the others wait; the kid ignores them
Deliver(q, targets, sig) ==
  LET kept(p) == IF p \in Runners /\ Notified(p) THEN {"STOP"} ELSE {"STOP", "TSTP"}
  IN  IF sig = "KILL" THEN Die(q, targets, "signal") ELSE
      [p \in Processes |->
         IF p \notin targets \ {"kid"} \/ q[p].state \notin {"running", "stopped"} THEN q[p]
         ELSE IF sig = "CONT" THEN [q[p] EXCEPT !.state = "running", !.news = FALSE, !.pend = @ \ kept(p)]
         ELSE IF sig = "TSTP" /\ q[p].state = "stopped" THEN q[p]
         ELSE [q[p] EXCEPT !.pend = @ \cup {sig}]]

Stopped(q, p) == [q EXCEPT ![p].state = "stopped", ![p].news = TRUE, ![p].pend = @ \ {"STOP", "TSTP"}]

-------------------------------------------------------------------------------
(* The loop of runSandboxedProcess *)

Init ==
  /\ proc = [p \in Processes |-> [state |-> IF p = "outer" THEN "running" ELSE "none",
                                  pend |-> {}, news |-> FALSE, end |-> "none"]]
  /\ inGroup = TRUE
  /\ fg \in {"job", "shell"}
  /\ owned = FALSE
  /\ manage = FALSE
  /\ check = "none"
  /\ pc = [outer |-> "start", sup |-> "none"]
  /\ forwarder = [r \in Runners |-> "none"]
  /\ canceled = [r \in Runners |-> FALSE]
  /\ result = [r \in Runners |-> "none"]
  /\ load \in Loads

Spawned(q, p) == [q EXCEPT ![p].state = "running"]

\* Run: ownsTerminalForeground decides whether the supervisor may manage the terminal
StartSupervisor ==
  /\ pc["outer"] = "start" /\ Runs("outer")
  /\ owned' = (Terminal /\ fg = "job")
  /\ proc' = Spawned(proc, "sup")
  /\ pc' = [outer |-> "started", sup |-> "start"]
  /\ UNCHANGED <<inGroup, fg, manage, check, forwarder, canceled, result, load>>

\* A look at the terminal that finds it airjail's own
Seen == IF proc["outer"].state = "stopped" THEN "stale" ELSE "fresh"

\* shouldManageForeground
DecideForeground ==
  /\ pc["sup"] = "start" /\ Runs("sup")
  /\ manage' = (owned /\ fg = "job")
  /\ check' = IF manage' THEN Seen ELSE "none"
  /\ pc' = [pc EXCEPT !["sup"] = "starting"]
  /\ UNCHANGED <<proc, inGroup, fg, owned, forwarder, canceled, result, load>>

\* SysProcAttr.Foreground: the forked child hands the terminal over before the exec,
\* whoever has it by then, and though the supervisor may have been stopped
StartCommand ==
  /\ pc["sup"] = "starting" /\ Alive("sup")
  /\ fg' = IF manage THEN "cmd" ELSE fg
  /\ proc' = Spawned(proc, "cmd")
  /\ check' = "none"
  /\ pc' = [pc EXCEPT !["sup"] = "started"]
  /\ UNCHANGED <<inGroup, owned, manage, forwarder, canceled, result, load>>

\* LookPath fails, or Start does, then possibly after the terminal was handed over; nothing is deferred yet
StartFails(r) ==
  /\ pc[r] = "start" \/ (r = "sup" /\ pc[r] = "starting")
  /\ Runs(r)
  /\ fg' \in {fg} \cup (IF r = "sup" /\ manage THEN {"cmd"} ELSE {})
  /\ result' = [result EXCEPT ![r] = "setup"]
  /\ pc' = [pc EXCEPT ![r] = "returned"]
  /\ proc' = IF r = "sup" THEN Die(proc, {"sup"}, "setup") ELSE proc
  /\ UNCHANGED <<inGroup, owned, manage, check, forwarder, canceled, load>>

Notify(r) ==
  /\ pc[r] = "started" /\ Runs(r)
  /\ pc' = [pc EXCEPT ![r] = "waiting"]
  /\ forwarder' = [forwarder EXCEPT ![r] = "selecting"]
  /\ UNCHANGED <<proc, inGroup, fg, owned, manage, check, canceled, result, load>>

\* The calls of transferTerminalForegroundIfOwned, and where the code goes on
Transfers == [yielding |-> [from |-> "cmd", to |-> "job", next |-> "halting"],
              resuming |-> [from |-> "job", to |-> "cmd", next |-> "continuing"],
              cleaning |-> [from |-> "cmd", to |-> "job", next |-> "joining"]]

Manages(r) == r = "sup" /\ manage
Checked(r) == r = "sup" /\ check # "none"

\* Mutant: the terminal is taken from whoever has it
CheckNothing(r) ==
  /\ pc[r] \in DOMAIN Transfers /\ Runs(r) /\ ~Checked(r)
  /\ IF Manages(r) THEN check' = Seen /\ UNCHANGED pc
     ELSE pc' = [pc EXCEPT ![r] = Transfers[@].next] /\ UNCHANGED check
  /\ UNCHANGED <<proc, inGroup, fg, owned, manage, forwarder, canceled, result, load>>

\* TIOCGPGRP: nothing is moved from a group that does not own the terminal
CheckTerminal(r) ==
  /\ pc[r] \in DOMAIN Transfers /\ Runs(r) /\ ~Checked(r)
  /\ IF Manages(r) /\ fg = Transfers[pc[r]].from THEN check' = Seen /\ UNCHANGED pc
     ELSE pc' = [pc EXCEPT ![r] = Transfers[@].next] /\ UNCHANGED check
  /\ UNCHANGED <<proc, inGroup, fg, owned, manage, forwarder, canceled, result, load>>

\* TIOCSPGRP, a system call of its own: whoever owns the terminal by then loses it
MoveTerminal ==
  /\ pc["sup"] \in DOMAIN Transfers /\ Runs("sup") /\ Checked("sup")
  /\ fg' = Transfers[pc["sup"]].to
  /\ check' = "none"
  /\ pc' = [pc EXCEPT !["sup"] = Transfers[@].next]
  /\ UNCHANGED <<proc, inGroup, owned, manage, forwarder, canceled, result, load>>

\* Wait4 reports the end of the process and reaps it
ChildEnds(r) ==
  /\ pc[r] = "waiting" /\ Runs(r) /\ proc[Child[r]].state = "zombie"
  /\ proc' = [proc EXCEPT ![Child[r]].state = "gone"]
  /\ result' = [result EXCEPT ![r] = proc[Child[r]].end]
  /\ pc' = [pc EXCEPT ![r] = IF r = "sup" THEN "reaping" ELSE "cleaning"]
  /\ UNCHANGED <<inGroup, fg, owned, manage, check, forwarder, canceled, load>>

\* Wait4 reports that the process stopped; the terminal is to go back to the job
ChildStops(r) ==
  /\ pc[r] = "waiting" /\ Runs(r) /\ proc[Child[r]].news
  /\ proc' = [proc EXCEPT ![Child[r]].news = FALSE]
  /\ pc' = [pc EXCEPT ![r] = IF Manages(r) THEN "yielding" ELSE "halting"]
  /\ UNCHANGED <<inGroup, fg, owned, manage, check, forwarder, canceled, result, load>>

\* Mutant: the loop goes on without stopping its own process
HaltNot(r) ==
  /\ pc[r] = "halting" /\ Runs(r)
  /\ pc' = [pc EXCEPT ![r] = "waiting"]
  /\ UNCHANGED <<proc, inGroup, fg, owned, manage, check, forwarder, canceled, result, load>>

\* Kill(Getpid(), SIGSTOP): the whole process stops, but this thread need not be
\* the one that takes the signal and may go on until it did
Halt(r) ==
  /\ pc[r] = "halting" /\ Runs(r)
  /\ proc' = Deliver(proc, {r}, "STOP")
  /\ pc' = [pc EXCEPT ![r] = "resuming"]
  /\ UNCHANGED <<inGroup, fg, owned, manage, check, forwarder, canceled, result, load>>

Continue(r) ==
  /\ pc[r] = "continuing" /\ Runs(r)
  /\ proc' = Deliver(proc, Target(r), "CONT")
  /\ pc' = [pc EXCEPT ![r] = "waiting"]
  /\ UNCHANGED <<inGroup, fg, owned, manage, check, forwarder, canceled, result, load>>

\* Mutant: the rest of the group is left alone
ReapNothing ==
  /\ pc["sup"] = "reaping" /\ Runs("sup")
  /\ pc' = [pc EXCEPT !["sup"] = "cleaning"]
  /\ UNCHANGED <<proc, inGroup, fg, owned, manage, check, forwarder, canceled, result, load>>

\* Mutant: the status of the last one reaped replaces the command's
ReapOverStatus ==
  /\ pc["sup"] = "reaping" /\ Runs("sup")
  /\ proc' = [p \in Processes |-> IF p \in CommandGroup /\ p # "cmd" THEN [Deliver(proc, {p}, "KILL")[p] EXCEPT !.state = "gone"]
                                  ELSE proc[p]]
  /\ result' = [result EXCEPT !["sup"] = IF Alive("kid") /\ inGroup THEN "signal" ELSE @]
  /\ pc' = [pc EXCEPT !["sup"] = "cleaning"]
  /\ UNCHANGED <<inGroup, fg, owned, manage, check, forwarder, canceled, load>>

\* terminateAndReapProcessGroup: the rest of the group is killed and waited for
TerminateAndReap ==
  /\ pc["sup"] = "reaping" /\ Runs("sup")
  /\ proc' = LET killed == Deliver(proc, CommandGroup, "KILL")
             IN  [p \in Processes |-> IF p \in CommandGroup /\ killed[p].state = "zombie"
                                      THEN [killed[p] EXCEPT !.state = "gone"] ELSE killed[p]]
  /\ pc' = [pc EXCEPT !["sup"] = "cleaning"]
  /\ UNCHANGED <<inGroup, fg, owned, manage, check, forwarder, canceled, result, load>>

\* After the deferred transfer, signal.Stop and close(done): <-forwarderStopped; the supervisor then exits with what it returned
Return(r) ==
  /\ pc[r] = "joining" /\ Runs(r) /\ forwarder[r] = "over"
  /\ pc' = [pc EXCEPT ![r] = "returned"]
  /\ proc' = IF r = "sup" THEN Die(proc, {"sup"}, result["sup"]) ELSE proc
  /\ UNCHANGED <<inGroup, fg, owned, manage, check, forwarder, canceled, result, load>>

-------------------------------------------------------------------------------
(* forwardSignals *)

Forward(r) ==
  /\ forwarder[r] = "selecting" /\ Runs(r)
  /\ \E sig \in proc[r].pend \ {"STOP"} :
       proc' = Deliver([proc EXCEPT ![r].pend = @ \ {sig}], Target(r), sig)
  /\ UNCHANGED <<inGroup, fg, run, load>>

Terminate(r) ==
  /\ forwarder[r] = "selecting" /\ Runs(r) /\ canceled[r]
  /\ proc' = Deliver(proc, Target(r), "TERM")
  /\ forwarder' = [forwarder EXCEPT ![r] = "granting"]
  /\ UNCHANGED <<inGroup, fg, owned, manage, check, pc, canceled, result, load>>

\* Mutant: the process is asked to end a second time, and not killed
GraceEndsTerm(r) ==
  /\ forwarder[r] = "granting" /\ Runs(r)
  /\ proc' = Deliver(proc, Target(r), "TERM")
  /\ forwarder' = [forwarder EXCEPT ![r] = "over"]
  /\ UNCHANGED <<inGroup, fg, owned, manage, check, pc, canceled, result, load>>

\* The three seconds are over
GraceEnds(r) ==
  /\ forwarder[r] = "granting" /\ Runs(r)
  /\ proc' = Deliver(proc, Target(r), "KILL")
  /\ forwarder' = [forwarder EXCEPT ![r] = "over"]
  /\ UNCHANGED <<inGroup, fg, owned, manage, check, pc, canceled, result, load>>

\* <-done
ForwarderDone(r) ==
  /\ forwarder[r] \in {"selecting", "granting"} /\ Runs(r) /\ pc[r] = "joining"
  /\ forwarder' = [forwarder EXCEPT ![r] = "over"]
  /\ UNCHANGED <<proc, inGroup, fg, owned, manage, check, pc, canceled, result, load>>

Cancel(r) ==
  /\ r \in load.cancels /\ ~canceled[r] /\ pc[r] \notin {"none", "returned"}
  /\ canceled' = [canceled EXCEPT ![r] = TRUE]
  /\ UNCHANGED <<proc, inGroup, fg, owned, manage, check, pc, forwarder, result, load>>

-------------------------------------------------------------------------------
(* Signals that are not forwarded, and the command *)

\* A process stops: by its own SIGSTOP, or by the default action of SIGTSTP
TakesStop(p) ==
  /\ Runs(p)
  /\ \/ "STOP" \in proc[p].pend
     \/ "TSTP" \in proc[p].pend /\ ~(p \in Runners /\ Notified(p))
  /\ proc' = Stopped(proc, p)
  /\ check' = IF p = "outer" /\ check = "fresh" THEN "stale" ELSE check
  /\ UNCHANGED <<inGroup, fg, owned, manage, pc, forwarder, canceled, result, load>>

\* A process meets a signal that asks it to end: it may handle it, if it has a handler
TakesEnd(p) ==
  /\ Runs(p) /\ ~(p \in Runners /\ Notified(p))
  /\ \E sig \in proc[p].pend \cap {"INT", "TERM"} :
       proc' \in {Die(proc, {p}, "signal")} \cup
                 (IF p \in Runners THEN {} ELSE {[proc EXCEPT ![p].pend = @ \ {sig}]})
  /\ UNCHANGED <<inGroup, fg, run, load>>

IgnoresStop ==
  /\ Runs("cmd") /\ "TSTP" \in proc["cmd"].pend
  /\ proc' = [proc EXCEPT !["cmd"].pend = @ \ {"TSTP"}]
  /\ UNCHANGED <<inGroup, fg, run, load>>

Exits(p) ==
  /\ Runs(p)
  /\ proc' = Die(proc, {p}, "exit")
  /\ UNCHANGED <<inGroup, fg, run, load>>

Orphans ==
  /\ load.orphans /\ Runs("cmd") /\ proc["kid"].state = "none"
  /\ proc' = Spawned(proc, "kid")
  /\ UNCHANGED <<inGroup, fg, run, load>>

KidLeavesGroup ==
  /\ Runs("kid") /\ inGroup
  /\ inGroup' = FALSE
  /\ UNCHANGED <<proc, fg, run, load>>

\* SIGTTIN: the command reads the terminal without owning it
ReadsTerminal ==
  /\ Terminal /\ fg # "cmd" /\ Runs("cmd") /\ load.events > 0
  /\ proc' = Stopped(proc, "cmd")
  /\ load' = [load EXCEPT !.events = @ - 1]
  /\ UNCHANGED <<inGroup, fg, run>>

-------------------------------------------------------------------------------
(* The user and the shell *)

\* ^C and ^Z reach the whole foreground group
Key(sig) ==
  /\ fg # "shell" /\ load.events > 0
  /\ proc' = Deliver(proc, IF fg = "job" THEN Runners ELSE CommandGroup, sig)
  /\ load' = [load EXCEPT !.events = @ - 1]
  /\ UNCHANGED <<inGroup, fg, run>>

\* The shell sees the job stopped and takes the terminal
ShellNotices ==
  /\ proc["outer"].news
  /\ proc' = [proc EXCEPT !["outer"].news = FALSE]
  /\ fg' = "shell"
  /\ UNCHANGED <<inGroup, run, load>>

ShellContinues(group) ==
  /\ fg' = group
  /\ proc' = Deliver(proc, Runners, "CONT")
  /\ UNCHANGED <<inGroup, run>>

\* fg or bg of the stopped job
ResumeJob ==
  /\ proc["outer"].state = "stopped" /\ ~proc["outer"].news
  /\ \E group \in {"shell", "job"} : ShellContinues(group)
  /\ UNCHANGED load

\* fg of the job that runs in the background
BringForward ==
  /\ fg = "shell" /\ Runs("outer") /\ pc["outer"] # "returned" /\ load.events > 0
  /\ ShellContinues("job")
  /\ load' = [load EXCEPT !.events = @ - 1]

-------------------------------------------------------------------------------
MainStep(r) ==
  \/ r = "outer" /\ StartSupervisor
  \/ r = "sup" /\ (DecideForeground \/ StartCommand \/ MoveTerminal \/ TerminateAndReap)
  \/ Notify(r) \/ ChildEnds(r) \/ ChildStops(r) \/ Halt(r)
  \/ CheckTerminal(r) \/ Continue(r) \/ Return(r)
ForwarderStep(r) == Forward(r) \/ Terminate(r) \/ GraceEnds(r) \/ ForwarderDone(r)
KernelStep(p) == TakesStop(p) \/ TakesEnd(p)
CommandStep == Orphans \/ KidLeavesGroup \/ ReadsTerminal \/ IgnoresStop \/ Exits("cmd") \/ Exits("kid")
UserStep == (\E sig \in load.keys : Key(sig)) \/ BringForward

Next ==
  \/ \E r \in Runners : MainStep(r) \/ StartFails(r) \/ ForwarderStep(r) \/ Cancel(r)
  \/ \E p \in Processes : KernelStep(p)
  \/ CommandStep \/ UserStep \/ ShellNotices \/ ResumeJob

Spec == Init /\ [][Next]_vars

\* The scheduler runs every goroutine of a process that is not stopped, the
\* kernel delivers signals, and the user of the shell continues a stopped job
FairSpec ==
  /\ Spec
  /\ \A r \in Runners : WF_vars(MainStep(r)) /\ WF_vars(ForwarderStep(r))
  /\ \A p \in Processes : WF_vars(KernelStep(p))
  /\ WF_vars(ShellNotices) /\ WF_vars(ResumeJob)

-------------------------------------------------------------------------------
(* Properties *)

TypeOK ==
  /\ proc \in [Processes -> [state : {"none", "running", "stopped", "zombie", "gone"},
                             pend : SUBSET {"INT", "TERM", "TSTP", "STOP"}, news : BOOLEAN,
                             end : {"none", "exit", "signal", "setup"}]]
  /\ inGroup \in BOOLEAN /\ fg \in {"shell", "job", "cmd"}
  /\ owned \in BOOLEAN /\ manage \in BOOLEAN /\ check \in {"none", "fresh", "stale"}
  /\ pc \in [Runners -> {"none", "start", "starting", "started", "waiting", "yielding", "halting", "resuming",
                         "continuing", "reaping", "cleaning", "joining", "returned"}]
  /\ forwarder \in [Runners -> {"none", "selecting", "granting", "over"}]
  /\ canceled \in [Runners -> BOOLEAN]
  /\ result \in [Runners -> {"none", "exit", "signal", "setup"}]
  /\ load.events \in Nat

\* What airjail returns is how the command ended, unless the supervisor was
\* killed on the way; only the command can own the terminal beside the job and
\* the shell, and only if airjail owned it at the start (run_linux.go:132-153)
ExitStatusIsTheCommands ==
  /\ TypeOK
  /\ result["sup"] \in {"exit", "signal"} => result["sup"] = proc["cmd"].end
  /\ result["outer"] # "none" /\ pc["sup"] = "returned" => result["outer"] = result["sup"]
  /\ fg = "cmd" => owned

\* From the moment the supervisor has reaped the command's group no process of it
\* is left, not even unreaped; and before it waits for its forwarder it has left the
\* terminal to no group that is gone (terminateAndReapProcessGroup and the deferred
\* calls)
NothingLeftBehind ==
  /\ pc["sup"] \in {"cleaning", "joining"} \/ (pc["sup"] = "returned" /\ result["sup"] # "setup") =>
       \A p \in CommandGroup : proc[p].state \in {"none", "gone"}
  /\ pc["sup"] = "joining" \/ (pc["sup"] = "returned" /\ result["sup"] # "setup") => fg # "cmd"

\* As long as airjail was not stopped between its look at the terminal and the step
\* that sets the foreground group, that step does not take the terminal from the
\* shell, whichever of the two levels stops and resumes meanwhile (line 38 and 71,
\* transferTerminalForegroundIfOwned).  If it was, it may: the two are two system calls.
TerminalNotTaken == [][fg = "shell" /\ fg' # "shell" /\ pc' # pc => check = "stale"]_vars

\* A cancellation ends the run, also of a command that ignores SIGTERM or is
\* stopped, if the user does not leave airjail stopped (forwardSignals)
CancelEndsRun == \A r \in Runners : canceled[r] ~> pc[r] = "returned" \/ ~Alive(r)

\* A command that stopped is continued when the shell continues airjail, however
\* the two levels of stopping and continuing interleave
StoppedCommandContinues == proc["cmd"].state = "stopped" ~> proc["cmd"].state # "stopped"

-------------------------------------------------------------------------------
(* What a comment says, and the code does not do *)

\* namespace_linux.go:226-227: no descendant of the command is left to PID 1
NothingLeftToInit == pc["outer"] = "returned" => ~Alive("kid")
===============================================================================
