-------------------------------- MODULE Egress --------------------------------
(***************************************************************************)
(* What the connector promises the rest of airjail, without saying how it  *)
(* resolves names or orders addresses: a request ends connected, denied or *)
(* failed, and only targets that the policy allows leave for it.           *)
(***************************************************************************)
EXTENDS Policy

CONSTANTS Dialer, Policies

VARIABLES
  policy,    \* the policy in force
  phase,     \* what became of the dialer's request
  attempts   \* the targets that left for it

vars == <<policy, phase, attempts>>

Target == [hostname : Host \cup {NoHost}, address : NetAddr, port : Port]

\* The zone of a literal selects the interface and is no part of the decision.
Permitted(t) == Allows(policy, t.hostname, [t.address EXCEPT !.zone = NoZone], t.port)

Init ==
  /\ policy \in Policies
  /\ phase = [d \in Dialer |-> "idle"]
  /\ attempts = [d \in Dialer |-> {}]

\* One decision moves on: the policy never changes.
Move(d, from, to) ==
  /\ phase[d] \in from
  /\ phase' = [phase EXCEPT ![d] = to]
  /\ UNCHANGED policy

Request(d) ==
  /\ Move(d, {"idle", "connected", "denied", "failed"}, "deciding")
  /\ attempts' = [attempts EXCEPT ![d] = {}]

Dial(d, t) ==
  /\ Move(d, {"deciding"}, "dialling")
  /\ t \notin attempts[d] /\ Permitted(t)
  /\ attempts' = [attempts EXCEPT ![d] = @ \cup {t}]

Miss(d) == Move(d, {"dialling"}, "deciding") /\ UNCHANGED attempts

Connect(d) == Move(d, {"dialling"}, "connected") /\ UNCHANGED attempts

Deny(d) == Move(d, {"deciding"}, "denied") /\ attempts[d] = {} /\ UNCHANGED attempts

Fail(d) == Move(d, {"deciding", "dialling"}, "failed") /\ UNCHANGED attempts

Answer(d) ==
  \/ \E t \in Target : Dial(d, t)
  \/ Miss(d) \/ Connect(d) \/ Deny(d) \/ Fail(d)

Next == \E d \in Dialer : Request(d) \/ Answer(d)

Spec == Init /\ [][Next]_vars

FairSpec == Spec /\ \A d \in Dialer : WF_vars(Answer(d))

===============================================================================
