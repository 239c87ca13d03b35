-------------------------------- MODULE Service --------------------------------
(***************************************************************************)
(* What the three Serve functions of airjail (the HTTP proxy, the SOCKS    *)
(* proxy, the forwarder) promise the goroutine group that runs them: they  *)
(* work on connections until they return, they return with no work left,   *)
(* and they return nil only because the context was canceled.              *)
(***************************************************************************)
CONSTANT Conn

VARIABLES
  ctxDone,  \* the context is canceled
  phase,    \* serving or returned
  result,   \* what Serve returned
  work      \* the connections a goroutine of the server works on

vars == <<ctxDone, phase, result, work>>

Init ==
  /\ ctxDone = FALSE
  /\ phase = "serving"
  /\ result = "none"
  /\ work = {}

Cancel == ~ctxDone /\ ctxDone' = TRUE /\ UNCHANGED <<phase, result, work>>

Begin(c) ==
  /\ phase = "serving" /\ c \notin work
  /\ work' = work \cup {c}
  /\ UNCHANGED <<ctxDone, phase, result>>

End(c) ==
  /\ c \in work
  /\ work' = work \ {c}
  /\ UNCHANGED <<ctxDone, phase, result>>

Return ==
  /\ phase = "serving" /\ work = {}
  /\ phase' = "returned"
  /\ result' \in {"nil", "error"}
  /\ result' = "nil" => ctxDone
  /\ UNCHANGED <<ctxDone, work>>

Next == Cancel \/ Return \/ \E c \in Conn : Begin(c) \/ End(c)

Spec == Init /\ [][Next]_vars

===============================================================================
