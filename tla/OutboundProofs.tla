---------------------------- MODULE OutboundProofs ----------------------------
(***************************************************************************)
(* Proofs about package outbound: module Outbound for every policy, every  *)
(* resolver and every number of dialers, and that it implements the egress *)
(* gate, Egress; at the end, module EnvironmentRouter.                     *)
(***************************************************************************)
EXTENDS Outbound, EnvironmentRouter, TLAPS

-------------------------------------------------------------------------------
(* Addresses *)

\* Addr.Unmap of a canonical address changes nothing, and the canonical
\* addresses are the ones without the mapped form and without a zone.
LEMMA CanonicalIsNetAddr ==
  \A a \in CanonicalAddr :
    /\ a \in NetAddr
    /\ ~a.mapped /\ a.zone = NoZone
    /\ Unmap(a) = a
<1> SUFFICES ASSUME NEW c \in Addr
             PROVE  /\ Canonical(c) \in NetAddr
                    /\ ~Canonical(c).mapped /\ Canonical(c).zone = NoZone
                    /\ Unmap(Canonical(c)) = Canonical(c)
  BY DEF CanonicalAddr
<1>1. ~Canonical(c).mapped /\ Canonical(c).zone = NoZone
  BY DEF Canonical
<1>2. Canonical(c) \in NetAddr
  BY DEF Canonical, NetAddr
<1> QED BY <1>1, <1>2 DEF Unmap

\* What Direct.Dial and normalizeAddresses keep of an answer is canonical.
LEMMA UsableIsCanonical ==
  ASSUME NEW a \in NetAddr \cup {NoAddr}, Usable(a)
  PROVE  Unmap(a) \in CanonicalAddr
<1>1. a \in NetAddr /\ a.zone = NoZone
  BY DEF Usable, IsValid
<1>2. CASE a.mapped
  BY <1>1, <1>2 DEF Unmap, CanonicalAddr, NetAddr
<1>3. CASE ~a.mapped
  <2>1. a = Canonical(a.canon) /\ a.canon \in Addr
    BY <1>1, <1>3 DEF Canonical, NetAddr
  <2> QED BY <2>1, <1>3 DEF Unmap, CanonicalAddr
<1> QED BY <1>2, <1>3

\* ParseDestination classifies every literal it does not refuse.
LEMMA LiteralIsDestination ==
  ASSUME NEW a \in NetAddr, ~BadZone(a)
  PROVE  AddressDestination(a) \in Destination
<1>1. Unmap(a) \in NetAddr /\ ~Unmap(a).mapped /\ Unmap(a).zone \in ValidZone \cup {NoZone}
  <2>1. CASE a.mapped
    <3>1. Unmap(a) \in CanonicalAddr
      BY <2>1 DEF Unmap, CanonicalAddr, NetAddr
    <3> QED BY <3>1, CanonicalIsNetAddr
  <2>2. CASE ~a.mapped
    BY <2>2 DEF Unmap, BadZone
  <2> QED BY <2>1, <2>2
<1> QED BY <1>1 DEF AddressDestination, Destination

\* The address dialLiteral asks the policy about, of a literal destination.
LEMMA LiteralAddress ==
  ASSUME NEW destination \in Destination, ~IsHostname(destination)
  PROVE  /\ destination.hostname = NoHost
         /\ destination.address \in NetAddr
BY PolicyAssumption DEF Destination, HostDestination, IsHostname, NoHost

\* A destination that is a name has one of the host names.
LEMMA HostnameOfDestination ==
  ASSUME NEW destination \in Destination, IsHostname(destination)
  PROVE  destination.hostname \in Host
BY DEF Destination, HostDestination, IsHostname, NoHost

-------------------------------------------------------------------------------
(* Type correctness *)

Control == \A d \in Dialer : ControlOK(d)

\* An answer that the loop considers.
LEMMA FreshAnswer ==
  ASSUME TypeOK, NEW d \in Dialer, AtAnswer(d)
  PROVE  /\ answers[d] \in Seq(NetAddr \cup {NoAddr})
         /\ next[d] \in 1..Len(answers[d])
         /\ Answer(d) \in NetAddr \cup {NoAddr}
<1>1. answers[d] \in Seq(NetAddr \cup {NoAddr})
  <2>1. answers[d] \in Answers \/ answers[d] = <<>>
    BY DEF TypeOK
  <2>2. <<>> \in Seq(NetAddr \cup {NoAddr})
    OBVIOUS
  <2> QED BY <2>1, <2>2, OutboundAssumption DEF OutboundAssumption
<1>2. next[d] \in 1..Len(answers[d])
  BY <1>1 DEF AtAnswer
<1> QED BY <1>1, <1>2 DEF Answer

\* The target a dialer in the middle of Dial puts on the wire.
LEMMA DialledTarget ==
  ASSUME TypeOK, Control, NEW d \in Dialer, NEW a \in NetAddr,
         pc[d] # "idle", port[d] # 0
  PROVE  [hostname |-> dest[d].hostname, address |-> a, port |-> port[d]] \in Target
<1>1. port[d] \in Port
  BY DEF TypeOK
<1>2. dest[d] \in Destination
  BY DEF Control, ControlOK
<1>3. dest[d].hostname \in Host \cup {NoHost}
  BY <1>2, LiteralAddress, HostnameOfDestination
<1> QED BY <1>1, <1>3 DEF Target

\* No dialer has started.
LEMMA TypeInit == Init => TypeOK
BY DEF Init, TypeOK, Outcome

\* A call starts from a clean state.
LEMMA CallType ==
  ASSUME TypeOK, NEW d \in Dialer, NEW destination \in Destination,
         NEW p \in Port \cup {0}, Call(d, destination, p)
  PROVE  TypeOK'
<1>1. dest' \in [Dialer -> Destination \cup {NoDestination}]
  BY DEF TypeOK, Call
<1>2. port' \in [Dialer -> Port \cup {0}]
  BY DEF TypeOK, Call
<1>3. tried' \in [Dialer -> Seq(Target)]
  <2>1. <<>> \in Seq(Target)
    OBVIOUS
  <2> QED BY <2>1 DEF TypeOK, Call
<1>4. answers' \in [Dialer -> Answers \cup {<<>>}]
  BY DEF TypeOK, Call
<1>5. pc' \in [Dialer -> {"idle", "called", "iterating", "dialing", "returned"}]
  BY DEF TypeOK, Call
<1>6. outcome' \in [Dialer -> Outcome]
  BY DEF TypeOK, Call, Outcome
<1>7. next' \in [Dialer -> Nat \ {0}] /\ seen' \in [Dialer -> SUBSET CanonicalAddr]
  BY DEF TypeOK, Call
<1>8. policy' \in Policies
  BY DEF TypeOK, Call
<1> QED BY <1>1, <1>2, <1>3, <1>4, <1>5, <1>6, <1>7, <1>8 DEF TypeOK

\* Every step of Dial keeps the types.
LEMMA TypeStep == TypeOK /\ Control /\ [Next]_vars => TypeOK'
<1> SUFFICES ASSUME TypeOK, Control, [Next]_vars PROVE TypeOK'
  OBVIOUS
<1> USE DEF TypeOK
<1>1. ASSUME NEW d \in Dialer, CallHost(d) PROVE TypeOK'
  <2>1. PICK h \in Host, p \in Port \cup {0} : Call(d, HostDestination(h), p)
    BY <1>1 DEF CallHost
  <2>2. HostDestination(h) \in Destination
    BY DEF Destination
  <2> QED BY <2>1, <2>2, CallType
<1>2. ASSUME NEW d \in Dialer, CallLiteral(d) PROVE TypeOK'
  <2>1. PICK a \in NetAddr, p \in Port \cup {0} :
          ~BadZone(a) /\ Call(d, AddressDestination(a), p)
    BY <1>2 DEF CallLiteral
  <2>2. AddressDestination(a) \in Destination
    BY <2>1, LiteralIsDestination
  <2> QED BY <2>1, <2>2, CallType
<1>3. ASSUME NEW d \in Dialer, RejectPort(d) PROVE TypeOK'
  BY <1>3 DEF RejectPort, Return, Outcome
<1>4. ASSUME NEW d \in Dialer, LookupFails(d) PROVE TypeOK'
  BY <1>4 DEF LookupFails, Return, Outcome
<1>5. ASSUME NEW d \in Dialer, NEW addresses \in Answers, LookupAnswers(d, addresses)
      PROVE  TypeOK'
  BY <1>5 DEF LookupAnswers
<1>6. ASSUME NEW d \in Dialer, DialLiteral(d) PROVE TypeOK'
  <2>1. dest[d].address \in NetAddr
    BY <1>6, LiteralAddress DEF DialLiteral, AtLiteral, Control, ControlOK
  <2>2. [hostname |-> dest[d].hostname, address |-> dest[d].address, port |-> port[d]] \in Target
    BY <1>6, <2>1, DialledTarget DEF DialLiteral, AtLiteral
  <2> QED BY <1>6, <2>2 DEF DialLiteral, DialAddress
<1>7. ASSUME NEW d \in Dialer, DenyLiteral(d) PROVE TypeOK'
  BY <1>7 DEF DenyLiteral, Return, Outcome
<1>8. ASSUME NEW d \in Dialer, SkipAnswer(d) PROVE TypeOK'
  BY <1>8 DEF SkipAnswer
<1>9. ASSUME NEW d \in Dialer, BlockAnswer(d) PROVE TypeOK'
  <2>1. Unmap(Answer(d)) \in CanonicalAddr
    BY <1>9, FreshAnswer, UsableIsCanonical DEF BlockAnswer, Consider, Fresh
  <2> QED BY <1>9, <2>1 DEF BlockAnswer, Consider
<1>10. ASSUME NEW d \in Dialer, DialAnswer(d) PROVE TypeOK'
  <2>1. Unmap(Answer(d)) \in CanonicalAddr
    BY <1>10, FreshAnswer, UsableIsCanonical DEF DialAnswer, Consider, Fresh
  <2>2. [hostname |-> dest[d].hostname, address |-> Unmap(Answer(d)), port |-> port[d]] \in Target
    BY <1>10, <2>1, CanonicalIsNetAddr, DialledTarget
    DEF DialAnswer, Consider, AtAnswer, Control, ControlOK
  <2> QED BY <1>10, <2>1, <2>2 DEF DialAnswer, Consider, DialAddress
<1>11. ASSUME NEW d \in Dialer, Connects(d) PROVE TypeOK'
  BY <1>11 DEF Connects, Return, Outcome
<1>12. ASSUME NEW d \in Dialer, DialFails(d) PROVE TypeOK'
  BY <1>12 DEF DialFails, Return, Outcome
<1>13. ASSUME NEW d \in Dialer, Exhausted(d) PROVE TypeOK'
  BY <1>13 DEF Exhausted, Return, Outcome
<1>14. CASE UNCHANGED vars
  BY <1>14 DEF vars
<1> QED
  BY <1>1, <1>2, <1>3, <1>4, <1>5, <1>6, <1>7, <1>8, <1>9, <1>10, <1>11, <1>12, <1>13, <1>14
  DEF Next, DialStep

-------------------------------------------------------------------------------
(* The inductive invariant, one dialer at a time *)

DInv(d) == ControlOK(d) /\ ApprovedOK(d) /\ ProgressOK(d) /\ OutcomeOK(d)

\* What one dialer sees of a step of another one.
Same(e) ==
  /\ pc'[e] = pc[e] /\ dest'[e] = dest[e] /\ port'[e] = port[e]
  /\ answers'[e] = answers[e] /\ next'[e] = next[e] /\ seen'[e] = seen[e]
  /\ tried'[e] = tried[e] /\ outcome'[e] = outcome[e] /\ policy' = policy

\* The call of another dialer changes nothing of this one.
LEMMA SameKeepsInv ==
  ASSUME NEW e \in Dialer, Same(e), DInv(e)
  PROVE  DInv(e)'
<1> USE DEF Same
<1>1. ControlOK(e)'
  BY DEF DInv, ControlOK
<1>2. Attempts(e)' = Attempts(e)
  BY DEF Attempts
<1>3. ApprovedOK(e)'
  BY <1>2 DEF DInv, ApprovedOK
<1>4. Considered(e)' = Considered(e) /\ (NoRepeat(e)' <=> NoRepeat(e))
  BY DEF Considered, NoRepeat
<1>5. ProgressOK(e)'
  BY <1>2, <1>4 DEF DInv, ProgressOK
<1>6. OutcomeOK(e)'
  BY DEF DInv, OutcomeOK
<1> QED BY <1>1, <1>3, <1>5, <1>6 DEF DInv

\* The dialers do not disturb each other.
LEMMA Frame ==
  ASSUME TypeOK, NEW d \in Dialer, NEW e \in Dialer, e # d,
         CallHost(d) \/ CallLiteral(d) \/ DialStep(d)
  PROVE  Same(e)
<1> USE DEF TypeOK, Same
<1>1. CASE CallHost(d) \/ CallLiteral(d)
  BY <1>1 DEF CallHost, CallLiteral, Call
<1>2. CASE RejectPort(d) \/ LookupFails(d) \/ \E addresses \in Answers : LookupAnswers(d, addresses)
  BY <1>2 DEF RejectPort, LookupFails, LookupAnswers, Return
<1>3. CASE DialLiteral(d) \/ DenyLiteral(d)
  BY <1>3 DEF DialLiteral, DenyLiteral, DialAddress, Return
<1>4. CASE SkipAnswer(d) \/ BlockAnswer(d) \/ DialAnswer(d)
  BY <1>4 DEF SkipAnswer, BlockAnswer, DialAnswer, Consider, DialAddress
<1>5. CASE Connects(d) \/ DialFails(d) \/ Exhausted(d)
  BY <1>5 DEF Connects, DialFails, Exhausted, Return
<1> QED BY <1>1, <1>2, <1>3, <1>4, <1>5 DEF DialStep

\* A target is appended to the attempts.
LEMMA AttemptAppended ==
  ASSUME TypeOK, NEW d \in Dialer, NEW t \in Target,
         tried' = [tried EXCEPT ![d] = Append(@, t)]
  PROVE  /\ Attempts(d)' = Attempts(d) \cup {t}
         /\ tried'[d] # <<>>
         /\ Len(tried'[d]) = Len(tried[d]) + 1
         /\ NoRepeat(d) /\ t \notin Attempts(d) => NoRepeat(d)'
<1> DEFINE s == tried[d]
<1>1. s \in Seq(Target) /\ tried'[d] = Append(s, t)
  BY DEF TypeOK
<1>2. /\ Len(Append(s, t)) = Len(s) + 1
      /\ DOMAIN Append(s, t) = 1..(Len(s) + 1)
      /\ DOMAIN s = 1..Len(s)
      /\ \A i \in 1..Len(s) : Append(s, t)[i] = s[i]
      /\ Append(s, t)[Len(s) + 1] = t
      /\ Len(s) \in Nat
  BY <1>1
<1>3. Attempts(d)' = Attempts(d) \cup {t}
  <2>1. Attempts(d)' = { Append(s, t)[i] : i \in 1..(Len(s) + 1) }
    BY <1>1, <1>2 DEF Attempts
  <2>2. Attempts(d) = { s[i] : i \in 1..Len(s) }
    BY <1>2 DEF Attempts
  <2>3. 1..(Len(s) + 1) = 1..Len(s) \cup {Len(s) + 1}
    BY <1>2
  <2> HIDE DEF s
  <2> QED BY <2>1, <2>2, <2>3, <1>2
<1>4. tried'[d] # <<>>
  BY <1>1, <1>2
<1>5. ASSUME NoRepeat(d), t \notin Attempts(d) PROVE NoRepeat(d)'
  <2>1. SUFFICES ASSUME NEW i \in 1..(Len(s) + 1), NEW j \in 1..(Len(s) + 1),
                        Append(s, t)[i] = Append(s, t)[j]
                 PROVE  i = j
    BY <1>1, <1>2 DEF NoRepeat
  <2>2. \A k \in 1..Len(s) : s[k] # t
    BY <1>2, <1>5 DEF Attempts
  <2>3. \A k, l \in 1..Len(s) : s[k] = s[l] => k = l
    BY <1>2, <1>5 DEF NoRepeat
  <2> HIDE DEF s
  <2> QED BY <2>1, <2>2, <2>3, <1>2
<1> QED BY <1>1, <1>2, <1>3, <1>4, <1>5

\* The loop passes one more answer.
LEMMA ConsideredGrows ==
  ASSUME TypeOK, NEW d \in Dialer, AtAnswer(d),
         answers' = answers, next' = [next EXCEPT ![d] = @ + 1]
  PROVE  Considered(d)' =
           Considered(d) \cup (IF Usable(Answer(d)) THEN {Unmap(Answer(d))} ELSE {})
<1>1. next[d] \in Nat /\ next'[d] = next[d] + 1 /\ next[d] \in DOMAIN answers[d]
  BY DEF TypeOK, AtAnswer
<1>2. DOMAIN answers[d] = 1..Len(answers[d])
  BY FreshAnswer
<1>3. \A j \in DOMAIN answers[d] : j < next[d] + 1 <=> j < next[d] \/ j = next[d]
  BY <1>1, <1>2
<1> QED BY <1>1, <1>3 DEF Considered, Answer

\* A call starts with nothing looked up and nothing dialled.
LEMMA CallInv ==
  ASSUME TypeOK, NEW d \in Dialer, NEW destination \in Destination,
         NEW p \in Port \cup {0}, Call(d, destination, p)
  PROVE  DInv(d)'
<1>1. /\ pc'[d] = "called" /\ dest'[d] = destination /\ answers'[d] = <<>>
      /\ next'[d] = 1 /\ seen'[d] = {} /\ tried'[d] = <<>> /\ outcome'[d] = "none"
  BY DEF TypeOK, Call
<1>2. Attempts(d)' = {} /\ Considered(d)' = {}
  BY <1>1 DEF Attempts, Considered
<1>3. ControlOK(d)'
  BY <1>1 DEF ControlOK
<1>4. ProgressOK(d)'
  BY <1>1, <1>2 DEF ProgressOK, NoRepeat
<1> QED BY <1>1, <1>2, <1>3, <1>4 DEF DInv, ApprovedOK, OutcomeOK

\* Dial returns without having moved anything else.
LEMMA ReturnInv ==
  ASSUME TypeOK, NEW d \in Dialer, NEW report \in Outcome \ {"none"}, DInv(d),
         Return(d, report),
         UNCHANGED <<policy, dest, port, answers, next, seen, tried>>,
         pc[d] # "idle",
         report \in {"denied", "bad port", "lookup failed"} => tried[d] = <<>>,
         report \in {"dial failed", "connected"} => tried[d] # <<>>,
         report \in {"denied", "dial failed"} /\ IsHostname(dest[d]) =>
           next[d] = Len(answers[d]) + 1
  PROVE  DInv(d)'
<1>1. pc'[d] = "returned" /\ outcome'[d] = report
  BY DEF TypeOK, Return
<1>2. Attempts(d)' = Attempts(d) /\ Considered(d)' = Considered(d)
  BY DEF Attempts, Considered
<1>3. ControlOK(d)' /\ ApprovedOK(d)'
  BY <1>1, <1>2 DEF DInv, ControlOK, ApprovedOK
<1>4. ProgressOK(d)'
  BY <1>2 DEF DInv, ProgressOK, NoRepeat
<1>5. OutcomeOK(d)'
  BY <1>1 DEF OutcomeOK
<1> QED BY <1>3, <1>4, <1>5 DEF DInv

\* The four ways out of Dial before anything was dialled.
LEMMA EarlyReturnInv ==
  ASSUME TypeOK, NEW d \in Dialer, DInv(d),
         RejectPort(d) \/ LookupFails(d) \/ DenyLiteral(d)
  PROVE  DInv(d)'
<1>1. pc[d] = "called" /\ tried[d] = <<>>
  BY DEF DInv, ControlOK, RejectPort, LookupFails, DenyLiteral, AtLiteral
<1>2. CASE RejectPort(d)
  BY <1>1, <1>2, ReturnInv DEF RejectPort, Outcome
<1>3. CASE LookupFails(d)
  BY <1>1, <1>3, ReturnInv DEF LookupFails, Outcome
<1>4. CASE DenyLiteral(d)
  BY <1>1, <1>4, ReturnInv DEF DenyLiteral, AtLiteral, Outcome
<1> QED BY <1>2, <1>3, <1>4

\* The answers of the resolver are what the loop goes through.
LEMMA LookupInv ==
  ASSUME TypeOK, NEW d \in Dialer, NEW addresses \in Answers, DInv(d),
         LookupAnswers(d, addresses)
  PROVE  DInv(d)'
<1>1. /\ pc[d] = "called" /\ pc'[d] = "iterating" /\ answers'[d] = addresses
      /\ port[d] # 0 /\ IsHostname(dest[d])
      /\ UNCHANGED <<policy, dest, port, next, seen, tried, outcome>>
  BY DEF TypeOK, LookupAnswers
<1>2. tried[d] = <<>> /\ seen[d] = {} /\ next[d] = 1
  BY <1>1 DEF DInv, ControlOK
<1>3. Len(addresses) \in Nat /\ DOMAIN addresses = 1..Len(addresses)
  BY OutboundAssumption DEF OutboundAssumption
<1>4. Considered(d)' = {}
  BY <1>1, <1>2, <1>3 DEF Considered
<1>5. Attempts(d)' = {}
  BY <1>1, <1>2 DEF Attempts
<1>6. ControlOK(d)'
  BY <1>1, <1>2, <1>3 DEF DInv, ControlOK
<1>7. ProgressOK(d)'
  BY <1>1, <1>2, <1>4, <1>5 DEF ProgressOK, NoRepeat
<1>8. OutcomeOK(d)'
  BY <1>1 DEF DInv, OutcomeOK
<1> QED BY <1>5, <1>6, <1>7, <1>8 DEF DInv, ApprovedOK

\* A literal without its zone is canonical.
LEMMA LiteralBase ==
  ASSUME NEW destination \in Destination, ~IsHostname(destination)
  PROVE  Base(destination.address) \in CanonicalAddr
<1>1. PICK a \in NetAddr : ~a.mapped /\ destination.address = a
  BY PolicyAssumption DEF Destination, HostDestination, IsHostname, NoHost, PolicyAssumption
<1>2. a \in [canon : Addr, mapped : BOOLEAN, zone : Zone \cup {NoZone}]
  BY DEF NetAddr
<1>3. [a EXCEPT !.zone = NoZone] = [canon |-> a.canon, mapped |-> a.mapped, zone |-> NoZone]
  BY <1>2
<1>4. a.mapped = FALSE
  BY <1>1, <1>2
<1>5. Base(a) = Canonical(a.canon)
  BY <1>3, <1>4 DEF Base, Canonical
<1> QED BY <1>1, <1>2, <1>5 DEF CanonicalAddr

\* A literal address is dialled as it is, once the policy allows it.
LEMMA DialLiteralInv ==
  ASSUME TypeOK, Control, NEW d \in Dialer, DInv(d), DialLiteral(d)
  PROVE  DInv(d)'
<1> DEFINE t == [hostname |-> dest[d].hostname, address |-> dest[d].address, port |-> port[d]]
<1>1. /\ pc[d] = "called" /\ pc'[d] = "dialing" /\ port[d] # 0 /\ ~IsHostname(dest[d])
      /\ LiteralAllowed(d) /\ tried' = [tried EXCEPT ![d] = Append(@, t)]
      /\ UNCHANGED <<policy, dest, port, answers, next, seen, outcome>>
  BY DEF TypeOK, DialLiteral, DialAddress, AtLiteral
<1>2. dest[d] \in Destination /\ tried[d] = <<>> /\ next[d] <= Len(answers[d]) + 1
  BY <1>1 DEF DInv, ControlOK
<1>3. t \in Target
  BY <1>1, <1>2, LiteralAddress, DialledTarget
<1>4. /\ Attempts(d)' = {t}
      /\ tried'[d] # <<>> /\ Len(tried'[d]) = 1
  <2>1. Attempts(d) = {} /\ Len(tried[d]) = 0
    BY <1>2 DEF Attempts
  <2>2. tried' = [tried EXCEPT ![d] = Append(@, t)]
    BY <1>1
  <2> HIDE DEF t
  <2>3. /\ Attempts(d)' = Attempts(d) \cup {t}
        /\ tried'[d] # <<>>
        /\ Len(tried'[d]) = Len(tried[d]) + 1
    BY <1>3, <2>2, AttemptAppended
  <2> QED BY <2>1, <2>3
<1>5. ControlOK(d)'
  BY <1>1, <1>2 DEF ControlOK
<1>6. ApprovedOK(d)'
  BY <1>1, <1>2, <1>4, LiteralBase, LiteralAddress
  DEF ApprovedOK, LiteralAllowed, PolicyAddress, Base
<1>7. ProgressOK(d)'
  BY <1>1, <1>4 DEF ProgressOK
<1>8. OutcomeOK(d)'
  BY <1>1, <1>4 DEF DInv, OutcomeOK
<1> QED BY <1>5, <1>6, <1>7, <1>8 DEF DInv

\* A usable answer that repeats an earlier one adds nothing to what the loop
\* considered, an unusable one neither.
LEMMA SkipAnswerInv ==
  ASSUME TypeOK, NEW d \in Dialer, DInv(d), SkipAnswer(d)
  PROVE  DInv(d)'
<1>1. /\ AtAnswer(d) /\ ~Fresh(d) /\ pc[d] = "iterating"
      /\ next' = [next EXCEPT ![d] = @ + 1] /\ next'[d] = next[d] + 1
      /\ UNCHANGED <<policy, pc, dest, port, answers, seen, tried, outcome>>
  BY DEF TypeOK, SkipAnswer, AtAnswer
<1>2. IsHostname(dest[d])
  BY <1>1 DEF DInv, ControlOK
<1>3. seen[d] = Considered(d)
  BY <1>2 DEF DInv, ProgressOK
<1>4. Considered(d)' = Considered(d)
  <2>1. Considered(d)' =
          Considered(d) \cup (IF Usable(Answer(d)) THEN {Unmap(Answer(d))} ELSE {})
    BY <1>1, ConsideredGrows
  <2> QED BY <1>1, <1>3, <2>1 DEF Fresh
<1>5. Attempts(d)' = Attempts(d) /\ (NoRepeat(d)' <=> NoRepeat(d))
  BY <1>1 DEF Attempts, NoRepeat
<1>6. ControlOK(d)'
  <2>1. next[d] \in 1..Len(answers[d]) /\ Len(answers[d]) \in Nat
    BY <1>1, FreshAnswer
  <2> QED BY <1>1, <2>1 DEF DInv, ControlOK
<1>7. ApprovedOK(d)'
  BY <1>1, <1>5 DEF DInv, ApprovedOK
<1>8. ProgressOK(d)'
  BY <1>1, <1>2, <1>4, <1>5 DEF DInv, ProgressOK
<1>9. OutcomeOK(d)'
  BY <1>1 DEF DInv, OutcomeOK
<1> QED BY <1>6, <1>7, <1>8, <1>9 DEF DInv

\* What considering a fresh answer does, whatever the policy says about it.
LEMMA ConsiderEffect ==
  ASSUME TypeOK, NEW d \in Dialer, DInv(d), Consider(d), answers' = answers
  PROVE  /\ pc[d] = "iterating" /\ IsHostname(dest[d])
         /\ dest[d] \in Destination /\ port[d] # 0
         /\ Unmap(Answer(d)) \in CanonicalAddr
         /\ Unmap(Answer(d)) \notin seen[d]
         /\ seen'[d] = seen[d] \cup {Unmap(Answer(d))}
         /\ Considered(d)' = seen'[d]
         /\ next'[d] <= Len(answers[d]) + 1
<1>1. /\ AtAnswer(d) /\ Fresh(d) /\ pc[d] = "iterating"
      /\ next' = [next EXCEPT ![d] = @ + 1] /\ next'[d] = next[d] + 1
      /\ seen'[d] = seen[d] \cup {Unmap(Answer(d))}
  BY DEF TypeOK, Consider, AtAnswer
<1>2. IsHostname(dest[d]) /\ dest[d] \in Destination /\ port[d] # 0
  BY <1>1 DEF DInv, ControlOK
<1>3. seen[d] = Considered(d)
  BY <1>2 DEF DInv, ProgressOK
<1>4. Unmap(Answer(d)) \in CanonicalAddr /\ Unmap(Answer(d)) \notin seen[d]
  BY <1>1, FreshAnswer, UsableIsCanonical DEF Fresh
<1>5. Considered(d)' = seen'[d]
  <2>1. Considered(d)' =
          Considered(d) \cup (IF Usable(Answer(d)) THEN {Unmap(Answer(d))} ELSE {})
    BY <1>1, ConsideredGrows
  <2> QED BY <1>1, <1>3, <2>1 DEF Fresh
<1>6. next'[d] <= Len(answers[d]) + 1
  <2>1. next[d] \in 1..Len(answers[d]) /\ Len(answers[d]) \in Nat
    BY <1>1, FreshAnswer
  <2> QED BY <1>1, <2>1
<1> QED BY <1>1, <1>2, <1>4, <1>5, <1>6

\* A blocked answer is passed over.
LEMMA BlockAnswerInv ==
  ASSUME TypeOK, NEW d \in Dialer, DInv(d), BlockAnswer(d)
  PROVE  DInv(d)'
<1>1. /\ Consider(d) /\ ~AnswerAllowed(d)
      /\ UNCHANGED <<policy, pc, dest, port, answers, tried, outcome>>
  BY DEF BlockAnswer
<1>2. /\ pc[d] = "iterating" /\ IsHostname(dest[d])
      /\ seen'[d] = seen[d] \cup {Unmap(Answer(d))}
      /\ Considered(d)' = seen'[d]
      /\ next'[d] <= Len(answers[d]) + 1
  BY <1>1, ConsiderEffect
<1>3. Attempts(d)' = Attempts(d) /\ (NoRepeat(d)' <=> NoRepeat(d))
  BY <1>1 DEF Attempts, NoRepeat
<1>4. ControlOK(d)'
  BY <1>1, <1>2 DEF DInv, ControlOK
<1>5. ApprovedOK(d)'
  BY <1>1, <1>3 DEF DInv, ApprovedOK
<1>6. ProgressOK(d)'
  BY <1>1, <1>2, <1>3 DEF DInv, ProgressOK, AnswerAllowed
<1>7. OutcomeOK(d)'
  BY <1>1, <1>2 DEF DInv, OutcomeOK
<1> QED BY <1>4, <1>5, <1>6, <1>7 DEF DInv

\* A canonical address has no zone to leave out.
LEMMA BaseOfCanonical == \A a \in CanonicalAddr : Base(a) = a
<1> SUFFICES ASSUME NEW c \in Addr PROVE Base(Canonical(c)) = Canonical(c)
  BY DEF CanonicalAddr
<1>1. Canonical(c) \in [canon : Addr, mapped : BOOLEAN, zone : Zone \cup {NoZone}]
  BY DEF Canonical
<1>2. [Canonical(c) EXCEPT !.zone = NoZone]
        = [canon |-> Canonical(c).canon, mapped |-> Canonical(c).mapped, zone |-> NoZone]
  BY <1>1
<1>3. Canonical(c).canon = c /\ Canonical(c).mapped = FALSE
  BY DEF Canonical
<1> QED BY <1>2, <1>3 DEF Base, Canonical

\* An approved answer is dialled in its canonical form, for the first time.
LEMMA DialAnswerInv ==
  ASSUME TypeOK, Control, NEW d \in Dialer, DInv(d), DialAnswer(d)
  PROVE  DInv(d)'
<1> DEFINE a == Unmap(Answer(d))
           t == [hostname |-> dest[d].hostname, address |-> a, port |-> port[d]]
<1>1. /\ Consider(d) /\ Allows(policy, dest[d].hostname, a, port[d])
      /\ tried' = [tried EXCEPT ![d] = Append(@, t)] /\ pc'[d] = "dialing"
      /\ UNCHANGED <<policy, dest, port, answers, outcome>>
  BY DEF TypeOK, DialAnswer, DialAddress, AnswerAllowed
<1>2. /\ pc[d] = "iterating" /\ IsHostname(dest[d])
      /\ dest[d] \in Destination /\ port[d] # 0
      /\ a \in CanonicalAddr /\ a \notin seen[d]
      /\ seen'[d] = seen[d] \cup {a} /\ Considered(d)' = seen'[d]
      /\ next'[d] <= Len(answers[d]) + 1
  BY <1>1, ConsiderEffect
<1>3. t \in Target /\ Base(a) = a
  <2>1. a \in NetAddr /\ Base(a) = a
    BY <1>2, CanonicalIsNetAddr, BaseOfCanonical
  <2> HIDE DEF a
  <2> QED BY <1>2, <2>1, DialledTarget
<1>4. t.hostname = dest[d].hostname /\ t.address = a /\ t.port = port[d]
  OBVIOUS
<1>5. t \notin Attempts(d) /\ NoRepeat(d)
  BY <1>2, <1>4 DEF DInv, ProgressOK
<1>6. Attempts(d)' = Attempts(d) \cup {t} /\ tried'[d] # <<>> /\ NoRepeat(d)'
  <2>1. tried' = [tried EXCEPT ![d] = Append(@, t)]
    BY <1>1
  <2> HIDE DEF t
  <2> QED BY <1>3, <1>5, <2>1, AttemptAppended
<1> HIDE DEF t, a
<1>7. ControlOK(d)'
  BY <1>1, <1>2 DEF DInv, ControlOK
<1>8. ApprovedOK(d)'
  BY <1>1, <1>2, <1>3, <1>4, <1>6 DEF DInv, ApprovedOK
<1>9. ProgressOK(d)'
  BY <1>1, <1>2, <1>4, <1>6 DEF DInv, ProgressOK
<1>10. OutcomeOK(d)'
  BY <1>1, <1>2, <1>6 DEF DInv, OutcomeOK
<1> QED BY <1>7, <1>8, <1>9, <1>10 DEF DInv

\* A dial ends, with a connection or without one.
LEMMA DialEndsInv ==
  ASSUME TypeOK, NEW d \in Dialer, DInv(d), Connects(d) \/ DialFails(d)
  PROVE  DInv(d)'
<1>1. pc[d] = "dialing" /\ tried[d] # <<>>
  BY DEF DInv, OutcomeOK, Connects, DialFails
<1>2. CASE Connects(d)
  BY <1>1, <1>2, ReturnInv DEF Connects, Outcome
<1>3. CASE DialFails(d) /\ ~IsHostname(dest[d])
  BY <1>1, <1>3, ReturnInv DEF DialFails, Outcome
<1>4. CASE DialFails(d) /\ IsHostname(dest[d])
  <2>1. /\ pc'[d] = "iterating"
        /\ UNCHANGED <<policy, dest, port, answers, next, seen, tried, outcome>>
    BY <1>4 DEF TypeOK, DialFails
  <2>2. Attempts(d)' = Attempts(d) /\ Considered(d)' = Considered(d)
    BY <2>1 DEF Attempts, Considered
  <2>3. ControlOK(d)' /\ ApprovedOK(d)'
    BY <1>1, <1>4, <2>1, <2>2 DEF DInv, ControlOK, ApprovedOK
  <2>4. ProgressOK(d)'
    BY <2>1, <2>2 DEF DInv, ProgressOK, NoRepeat
  <2>5. OutcomeOK(d)'
    BY <1>1, <2>1 DEF DInv, OutcomeOK
  <2> QED BY <2>3, <2>4, <2>5 DEF DInv
<1> QED BY <1>2, <1>3, <1>4

\* The loop ran off the end of the answers.
LEMMA ExhaustedInv ==
  ASSUME TypeOK, NEW d \in Dialer, DInv(d), Exhausted(d)
  PROVE  DInv(d)'
<1> DEFINE report == IF tried[d] # <<>> THEN "dial failed" ELSE "denied"
<1>1. /\ pc[d] = "iterating" /\ next[d] \notin DOMAIN answers[d] /\ Return(d, report)
      /\ UNCHANGED <<policy, dest, port, answers, next, seen, tried>>
  BY DEF Exhausted
<1>2. next[d] = Len(answers[d]) + 1
  <2>1. answers[d] \in Seq(NetAddr \cup {NoAddr})
    <3>1. answers[d] \in Answers \/ answers[d] = <<>>
      BY DEF TypeOK
    <3>2. <<>> \in Seq(NetAddr \cup {NoAddr})
      OBVIOUS
    <3> QED BY <3>1, <3>2, OutboundAssumption DEF OutboundAssumption
  <2>2. next[d] \in Nat \ {0} /\ next[d] <= Len(answers[d]) + 1
    BY DEF TypeOK, DInv, ControlOK
  <2>3. DOMAIN answers[d] = 1..Len(answers[d]) /\ Len(answers[d]) \in Nat
    BY <2>1
  <2>4. next[d] \notin 1..Len(answers[d])
    BY <1>1, <2>3
  <2> QED BY <2>2, <2>3, <2>4
<1>3. report \in Outcome \ {"none"}
  BY DEF Outcome
<1> QED BY <1>1, <1>2, <1>3, ReturnInv

\* A dialer that has not started has dialled nothing.
LEMMA InvInit == Init => DialInvariant
<1> SUFFICES ASSUME Init, NEW d \in Dialer PROVE DInv(d)
  BY DEF DialInvariant, DInv
<1>1. /\ pc[d] = "idle" /\ dest[d] = NoDestination /\ answers[d] = <<>> /\ next[d] = 1
      /\ seen[d] = {} /\ tried[d] = <<>> /\ outcome[d] = "none"
  BY DEF Init
<1>2. Attempts(d) = {}
  BY <1>1 DEF Attempts
<1>3. ControlOK(d)
  BY <1>1 DEF ControlOK
<1>4. ~IsHostname(dest[d])
  BY <1>1 DEF NoDestination, HostDestination, IsHostname
<1>5. ProgressOK(d)
  BY <1>1, <1>2, <1>4 DEF ProgressOK
<1> QED BY <1>1, <1>2, <1>3, <1>5 DEF DInv, ApprovedOK, OutcomeOK

\* What the step of a dialer does to its own part of the invariant.
LEMMA OwnStep ==
  ASSUME TypeOK, Control, NEW d \in Dialer, DInv(d),
         CallHost(d) \/ CallLiteral(d) \/ DialStep(d)
  PROVE  DInv(d)'
<1>1. CASE CallHost(d)
  <2>1. PICK h \in Host, p \in Port \cup {0} : Call(d, HostDestination(h), p)
    BY <1>1 DEF CallHost
  <2>2. HostDestination(h) \in Destination
    BY DEF Destination
  <2> QED BY <2>1, <2>2, CallInv
<1>2. CASE CallLiteral(d)
  <2>1. PICK a \in NetAddr, p \in Port \cup {0} :
          ~BadZone(a) /\ Call(d, AddressDestination(a), p)
    BY <1>2 DEF CallLiteral
  <2>2. AddressDestination(a) \in Destination
    BY <2>1, LiteralIsDestination
  <2> QED BY <2>1, <2>2, CallInv
<1>3. CASE RejectPort(d) \/ LookupFails(d) \/ DenyLiteral(d)
  BY <1>3, EarlyReturnInv
<1>4. CASE \E addresses \in Answers : LookupAnswers(d, addresses)
  BY <1>4, LookupInv
<1>5. CASE DialLiteral(d)
  BY <1>5, DialLiteralInv
<1>6. CASE SkipAnswer(d)
  BY <1>6, SkipAnswerInv
<1>7. CASE BlockAnswer(d)
  BY <1>7, BlockAnswerInv
<1>8. CASE DialAnswer(d)
  BY <1>8, DialAnswerInv
<1>9. CASE Connects(d) \/ DialFails(d)
  BY <1>9, DialEndsInv
<1>10. CASE Exhausted(d)
  BY <1>10, ExhaustedInv
<1> QED BY <1>1, <1>2, <1>3, <1>4, <1>5, <1>6, <1>7, <1>8, <1>9, <1>10 DEF DialStep

\* Every step of every dialer keeps what is known of each of them.
LEMMA InvStep == TypeOK /\ DialInvariant /\ [Next]_vars => DialInvariant'
<1> SUFFICES ASSUME TypeOK, DialInvariant, [Next]_vars PROVE DialInvariant'
  OBVIOUS
<1>1. \A e \in Dialer : DInv(e)
  BY DEF DialInvariant, DInv
<1>2. Control
  BY DEF DialInvariant, Control
<1>3. ASSUME NEW e \in Dialer PROVE DInv(e)'
  <2>1. CASE UNCHANGED vars
    <3>1. Same(e)
      BY <2>1 DEF vars, Same
    <3> QED BY <1>1, <3>1, SameKeepsInv
  <2>2. ASSUME NEW d \in Dialer, CallHost(d) \/ CallLiteral(d) \/ DialStep(d)
        PROVE  DInv(e)'
    <3>1. CASE e = d
      BY <1>1, <1>2, <2>2, <3>1, OwnStep
    <3>2. CASE e # d
      BY <1>1, <2>2, <3>2, Frame, SameKeepsInv
    <3> QED BY <3>1, <3>2
  <2> QED BY <2>1, <2>2 DEF Next
<1> QED BY <1>3 DEF DialInvariant, DInv

-------------------------------------------------------------------------------
(* The theorems *)

\* However the goroutines inside Direct.Dial interleave and whatever the
\* resolver answers, Dial's variables keep their types: seen holds canonical
\* addresses only, and what is put on the wire is a well-formed target.  Dial's
\* loop (direct.go) tries exactly the approved usable answers, each once.
THEOREM DialCorrect == Spec => [](TypeOK /\ DialInvariant)
<1>1. Init => TypeOK /\ DialInvariant
  BY TypeInit, InvInit
<1>2. TypeOK /\ DialInvariant /\ [Next]_vars => TypeOK' /\ DialInvariant'
  BY TypeStep, InvStep DEF DialInvariant, Control
<1> QED BY <1>1, <1>2, PTL DEF Spec

\* Type correctness of Direct.Dial on its own.
THEOREM TypeCorrect == Spec => []TypeOK
BY DialCorrect, PTL

\* The invariant that the loop of Direct.Dial maintains, on its own.
THEOREM InvariantHolds == Spec => []DialInvariant
BY DialCorrect, PTL

\* A rule that covers an address by itself covers it under every name.
LEMMA MatchesUnnamed ==
  ASSUME NEW rules, NEW h, NEW a, NEW p, Matches(rules, NoHost, a, p)
  PROVE  Matches(rules, h, a, p)
BY DEF Matches

\* Whatever was approved in its base form passed both lists.
LEMMA ApprovedTarget ==
  ASSUME DialInvariant, NEW d \in Dialer, NEW t \in Attempts(d)
  PROVE  /\ ~(Empty(policy.allow) /\ Empty(policy.block))
         /\ Empty(policy.allow) \/ Matches(policy.allow, t.hostname, Base(t.address), t.port)
         /\ ~Matches(policy.block, t.hostname, Base(t.address), t.port)
<1>1. Base(t.address) \in CanonicalAddr /\ Allows(policy, t.hostname, Base(t.address), t.port)
  BY DEF DialInvariant, ApprovedOK
<1>2. IsValid(Base(t.address)) /\ Unmap(Base(t.address)) = Base(t.address)
  BY <1>1, CanonicalIsNetAddr, PolicyAssumption DEF IsValid, PolicyAssumption
<1> QED BY <1>1, <1>2 DEF Allows

\* No address that a block rule covers is ever dialled, for every policy and
\* every sequence of answers (the Allows check of Direct.Dial is on the address
\* that is dialled).
THEOREM BlockedAddress == Spec => []BlockedAddressNeverDialled
<1>1. DialInvariant => BlockedAddressNeverDialled
  BY ApprovedTarget, MatchesUnnamed DEF BlockedAddressNeverDialled
<1> QED BY <1>1, DialCorrect, PTL

\* No hostname that a block rule covers is ever dialled, wherever DNS moved it.
THEOREM BlockedHostname == Spec => []BlockedHostnameNeverDialled
<1>1. DialInvariant => BlockedHostnameNeverDialled
  BY ApprovedTarget DEF BlockedHostnameNeverDialled, Matches
<1> QED BY <1>1, DialCorrect, PTL

\* Direct.Dial leaves a non-empty allow list only for what one of its rules
\* covers, and dials nothing under the empty policy.
THEOREM AllowList == Spec => []AllowListIsExhaustive
<1>1. DialInvariant => AllowListIsExhaustive
  BY ApprovedTarget DEF AllowListIsExhaustive
<1> QED BY <1>1, DialCorrect, PTL

\* The three promises of the policy together: Direct.Dial keeps them for every
\* policy and whatever the resolver answers at each lookup.
THEOREM PolicyKept == Spec => []PolicyIsKept
<1> QED BY BlockedAddress, BlockedHostname, AllowList, PTL DEF PolicyIsKept

\* What Direct.Dial puts on the wire was answered to the one lookup of the same
\* call: the checked address and the dialled address are the same.
THEOREM DialledAddress == Spec => []DialledAddressWasAnswered
<1>1. ASSUME DialInvariant, NEW d \in Dialer PROVE Considered(d) \subseteq NormalizeAddresses(answers[d])
  BY DEF Considered, NormalizeAddresses
<1>2. DialInvariant => DialledAddressWasAnswered
  BY <1>1 DEF DialInvariant, ApprovedOK, ProgressOK, DialledAddressWasAnswered
<1> QED BY <1>2, DialCorrect, PTL

\* The deduplication of Direct.Dial (seen) works across written forms.
THEOREM NoRepeatedDial == Spec => []NoAddressDialledTwice
<1>1. ASSUME TypeOK, DialInvariant, NEW d \in Dialer PROVE NoRepeat(d)
  <2>1. CASE IsHostname(dest[d])
    BY <1>1, <2>1 DEF DialInvariant, ProgressOK
  <2>2. CASE ~IsHostname(dest[d])
    <3>1. Len(tried[d]) <= 1 /\ tried[d] \in Seq(Target)
      BY <1>1, <2>2 DEF TypeOK, DialInvariant, ProgressOK
    <3>2. \A i, j \in DOMAIN tried[d] : i = j
      BY <3>1
    <3> QED BY <3>2 DEF NoRepeat
  <2> QED BY <2>1, <2>2
<1>2. TypeOK /\ DialInvariant => NoAddressDialledTwice
  BY <1>1 DEF NoAddressDialledTwice
<1> QED BY <1>2, DialCorrect, PTL

\* ErrDenied, which the proxies answer with 403 or a SOCKS rule failure, is
\* returned only by a Dial that dialled nothing.
THEOREM Denied == Spec => []DeniedMeansNotDialled
<1>1. DialInvariant => DeniedMeansNotDialled
  BY DEF DialInvariant, OutcomeOK, DeniedMeansNotDialled
<1> QED BY <1>1, DialCorrect, PTL

\* A failing or blocked answer never hides an allowed one behind it: when the
\* loop of Direct.Dial gives up, all of them were tried.
THEOREM EveryAnswerTried == Spec => []EveryAllowedAnswerTried
<1>1. ASSUME TypeOK, DialInvariant, NEW d \in Dialer,
             outcome[d] \in {"denied", "dial failed"}, IsHostname(dest[d])
      PROVE  NormalizeAddresses(answers[d]) \subseteq seen[d]
  <2>1. next[d] = Len(answers[d]) + 1 /\ seen[d] = Considered(d)
    BY <1>1 DEF DialInvariant, OutcomeOK, ProgressOK
  <2>2. answers[d] \in Seq(NetAddr \cup {NoAddr})
    <3>1. answers[d] \in Answers \/ answers[d] = <<>>
      BY <1>1 DEF TypeOK
    <3>2. <<>> \in Seq(NetAddr \cup {NoAddr})
      OBVIOUS
    <3> QED BY <3>1, <3>2, OutboundAssumption DEF OutboundAssumption
  <2>3. \A j \in DOMAIN answers[d] : j < next[d]
    BY <2>1, <2>2
  <2> QED BY <2>1, <2>3 DEF Considered, NormalizeAddresses
<1>2. TypeOK /\ DialInvariant => EveryAllowedAnswerTried
  BY <1>1 DEF DialInvariant, ProgressOK, EveryAllowedAnswerTried
<1> QED BY <1>2, DialCorrect, PTL

\* Allows is never asked what it answers with an error, so the error paths
\* behind it in Direct.Dial and dialLiteral are dead.
THEOREM PolicyAnswers == Spec => []PolicyAlwaysAnswers
<1>1. ASSUME TypeOK, DialInvariant, NEW d \in Dialer, AtLiteral(d)
      PROVE  ~Unanswerable(NoHost, PolicyAddress(d), port[d])
  <2>1. dest[d] \in Destination /\ ~IsHostname(dest[d]) /\ port[d] # 0
    BY <1>1 DEF DialInvariant, ControlOK, AtLiteral
  <2>2. PolicyAddress(d) \in CanonicalAddr
    BY <2>1, LiteralBase DEF PolicyAddress, Base
  <2>3. IsValid(PolicyAddress(d)) /\ PolicyAddress(d).zone = NoZone
    BY <2>2, CanonicalIsNetAddr, PolicyAssumption DEF IsValid, PolicyAssumption
  <2> QED BY <2>1, <2>3 DEF Unanswerable
<1>2. ASSUME TypeOK, DialInvariant, NEW d \in Dialer, AtAnswer(d), Fresh(d)
      PROVE  ~Unanswerable(dest[d].hostname, Unmap(Answer(d)), port[d])
  <2>1. port[d] # 0
    BY <1>2 DEF DialInvariant, ControlOK, AtAnswer
  <2>2. Unmap(Answer(d)) \in CanonicalAddr
    BY <1>2, FreshAnswer, UsableIsCanonical DEF Fresh
  <2>3. IsValid(Unmap(Answer(d))) /\ Unmap(Answer(d)).zone = NoZone
    BY <2>2, CanonicalIsNetAddr, PolicyAssumption DEF IsValid, PolicyAssumption
  <2> QED BY <2>1, <2>3 DEF Unanswerable
<1>3. TypeOK /\ DialInvariant => PolicyAlwaysAnswers
  BY <1>1, <1>2 DEF PolicyAlwaysAnswers
<1> QED BY <1>3, DialCorrect, PTL

-------------------------------------------------------------------------------
(* Direct.Dial implements the egress gate of module Egress: the safety half of *)
(* ImplementsEgress. That every request is answered rests on fairness and is   *)
(* left to TLC. First, the decision is the same one on both levels.            *)

\* The policy decides the same on both levels.
LEMMA GateAllows ==
  ASSUME NEW rules, NEW h, NEW a, NEW p
  PROVE  Gate!Allows(rules, h, a, p) <=> Allows(rules, h, a, p)
<1>1. \A r : Gate!Empty(r) <=> Empty(r)
  BY DEF Gate!Empty, Empty
<1>2. Gate!IsValid(a) <=> IsValid(a)
  BY DEF Gate!IsValid, IsValid
<1>3. Gate!Unmap(a) = Unmap(a)
  BY DEF Gate!Unmap, Unmap, Gate!Canonical, Canonical
<1>4. ASSUME NEW r, NEW c PROVE Gate!Matches(r, h, c, p) <=> Matches(r, h, c, p)
  BY DEF Gate!Matches, Matches, Gate!IsValid, IsValid, Gate!NoHost, NoHost,
         Gate!PortMatches, PortMatches, Gate!MatchesHostname, MatchesHostname,
         Gate!PrefixContains, PrefixContains, Gate!Canonical, Canonical
<1> QED BY <1>1, <1>2, <1>3, <1>4 DEF Gate!Allows, Allows

\* What may be dialled is the same on both levels.
LEMMA GateTarget == Gate!Target = Target
BY DEF Gate!Target, Target, Gate!NetAddr, NetAddr, Gate!NoHost, NoHost

-------------------------------------------------------------------------------
(* Steps of one dialer, seen through the refinement mapping *)

\* A dialer whose variables stay keeps its phase and its attempts.
LEMMA SameMaps ==
  ASSUME NEW e \in Dialer, Same(e)
  PROVE  Phase(e)' = Phase(e) /\ Attempts(e)' = Attempts(e)
BY DEF Same, Phase, Attempts

\* One dialer that changes its phase is a move of the gate.
LEMMA MoveMaps ==
  ASSUME NEW d \in Dialer, \A e \in Dialer \ {d} : Same(e), policy' = policy,
         NEW from, NEW to, Phase(d) \in from, Phase(d)' = to
  PROVE  Gate!Move(d, from, to)
<1>1. \A e \in Dialer \ {d} : Phase(e)' = Phase(e)
  BY SameMaps
<1> QED BY <1>1 DEF Gate!Move

\* One dialer that gains an attempt changes the attempts of that dialer only.
LEMMA AttemptsMap ==
  ASSUME NEW d \in Dialer, \A e \in Dialer \ {d} : Same(e),
         NEW new, Attempts(d)' = new
  PROVE  [e \in Dialer |-> Attempts(e)]'
           = [[e \in Dialer |-> Attempts(e)] EXCEPT ![d] = new]
<1>1. \A e \in Dialer \ {d} : Attempts(e)' = Attempts(e)
  BY SameMaps
<1> QED BY <1>1

\* A step without an attempt leaves the attempts of all dialers.
LEMMA AttemptsStay ==
  ASSUME NEW d \in Dialer, \A e \in Dialer \ {d} : Same(e), Attempts(d)' = Attempts(d)
  PROVE  [e \in Dialer |-> Attempts(e)]' = [e \in Dialer |-> Attempts(e)]
<1>1. \A e \in Dialer : Attempts(e)' = Attempts(e)
  BY SameMaps
<1> QED BY <1>1

\* A call of Dial is a request, whatever the goroutine did before.
LEMMA CallMaps ==
  ASSUME TypeOK, DialInvariant, NEW d \in Dialer, \A e \in Dialer \ {d} : Same(e),
         NEW destination, NEW p, Call(d, destination, p)
  PROVE  Gate!Request(d)
<1>1. /\ pc[d] \in {"idle", "returned"} /\ outcome[d] \in Outcome
      /\ pc'[d] = "called" /\ tried'[d] = <<>> /\ policy' = policy
  BY DEF TypeOK, Call
<1>2. Phase(d) \in {"idle", "connected", "denied", "failed"}
  BY <1>1 DEF Phase
<1>3. Phase(d)' = "deciding"
  BY <1>1 DEF Phase
<1>4. Attempts(d)' = {}
  BY <1>1 DEF Attempts
<1>5. Gate!Move(d, {"idle", "connected", "denied", "failed"}, "deciding")
  BY <1>1, <1>2, <1>3, MoveMaps
<1> QED BY <1>4, <1>5, AttemptsMap DEF Gate!Request

\* A target that is put on the wire is a dial of the gate.
LEMMA DialMaps ==
  ASSUME TypeOK, DialInvariant, DialInvariant',
         NEW d \in Dialer, \A e \in Dialer \ {d} : Same(e), policy' = policy,
         NEW t \in Target, tried' = [tried EXCEPT ![d] = Append(@, t)],
         t \notin Attempts(d), pc[d] \in {"called", "iterating"}, pc'[d] = "dialing"
  PROVE  Gate!Dial(d, t)
<1>1. Attempts(d)' = Attempts(d) \cup {t}
  BY AttemptAppended
<1>2. Phase(d) = "deciding" /\ Phase(d)' = "dialling"
  BY DEF Phase
<1>3. Gate!Permitted(t)
  <2>1. Allows(policy, t.hostname, Base(t.address), t.port)
    BY <1>1 DEF DialInvariant, ApprovedOK
  <2> QED BY <2>1, GateAllows DEF Gate!Permitted, Base
<1>4. Gate!Move(d, {"deciding"}, "dialling")
  BY <1>2, MoveMaps
<1> QED BY <1>1, <1>3, <1>4, AttemptsMap DEF Gate!Dial

\* A return of Dial is an answer of the gate.
LEMMA ReturnMaps ==
  ASSUME TypeOK, NEW d \in Dialer, \A e \in Dialer \ {d} : Same(e),
         NEW report \in {"bad port", "lookup failed", "denied", "dial failed", "connected"},
         Return(d, report), policy' = policy, tried' = tried,
         pc[d] \in {"called", "iterating", "dialing"},
         report = "connected" => pc[d] = "dialing",
         report = "denied" => pc[d] # "dialing" /\ tried[d] = <<>>
  PROVE  Gate!Answer(d)
<1>1. pc'[d] = "returned" /\ outcome'[d] = report
  BY DEF TypeOK, Return
<1>2. Attempts(d)' = Attempts(d)
  BY DEF Attempts
<1>3. Phase(d) = IF pc[d] = "dialing" THEN "dialling" ELSE "deciding"
  BY DEF Phase
<1>4. CASE report = "connected"
  <2>1. Gate!Move(d, {"dialling"}, "connected")
    BY <1>1, <1>3, <1>4, MoveMaps DEF Phase
  <2> QED BY <2>1, <1>2, AttemptsStay DEF Gate!Answer, Gate!Connect
<1>5. CASE report = "denied"
  <2>1. Gate!Move(d, {"deciding"}, "denied")
    BY <1>1, <1>3, <1>5, MoveMaps DEF Phase
  <2>2. Attempts(d) = {}
    BY <1>5 DEF Attempts
  <2> QED BY <2>1, <2>2, <1>2, AttemptsStay DEF Gate!Answer, Gate!Deny
<1>6. CASE report \in {"bad port", "lookup failed", "dial failed"}
  <2> DEFINE from == {"deciding", "dialling"}
  <2>1. Phase(d)' = "failed" /\ Phase(d) \in from
    BY <1>1, <1>3, <1>6 DEF Phase
  <2>2. Gate!Move(d, from, "failed")
    <3> HIDE DEF from
    <3> QED BY <2>1, MoveMaps
  <2> QED BY <2>2, <1>2, AttemptsStay DEF Gate!Answer, Gate!Fail
<1> QED BY <1>4, <1>5, <1>6

\* A step of the loop that dials nothing is invisible.
LEMMA LoopStutters ==
  ASSUME TypeOK, NEW d \in Dialer, \A e \in Dialer \ {d} : Same(e),
         policy' = policy, tried' = tried,
         pc[d] \in {"called", "iterating"}, pc'[d] = "iterating"
  PROVE  UNCHANGED Gate!vars
<1>1. Attempts(d)' = Attempts(d)
  BY DEF Attempts
<1>2. \A e \in Dialer : Phase(e)' = Phase(e)
  <2>1. Phase(d)' = Phase(d)
    BY DEF Phase
  <2> QED BY <2>1, SameMaps
<1> QED BY <1>1, <1>2, AttemptsStay DEF Gate!vars

-------------------------------------------------------------------------------
(* The refinement *)

\* No dialer of the gate has started either.
LEMMA GateInit == Init => Gate!Init
<1> SUFFICES ASSUME Init PROVE Gate!Init
  OBVIOUS
<1>1. \A d \in Dialer : Phase(d) = "idle" /\ Attempts(d) = {}
  BY DEF Init, Phase, Attempts
<1> QED BY <1>1 DEF Init, Gate!Init

\* Every step of Dial is a step of the gate, or changes nothing it shows.
LEMMA DialStepMaps ==
  ASSUME TypeOK, DialInvariant, DialInvariant', NEW d \in Dialer, DialStep(d)
  PROVE  Gate!Answer(d) \/ UNCHANGED Gate!vars
<1>0. /\ \A e \in Dialer \ {d} : Same(e)
      /\ ControlOK(d) /\ OutcomeOK(d) /\ ProgressOK(d) /\ DInv(d) /\ Control
  BY Frame DEF DialInvariant, DInv, Control
<1>1. CASE RejectPort(d)
  BY <1>0, <1>1, ReturnMaps DEF RejectPort
<1>2. CASE LookupFails(d)
  BY <1>0, <1>2, ReturnMaps DEF LookupFails
<1>3. CASE \E addresses \in Answers : LookupAnswers(d, addresses)
  <2>1. pc[d] = "called" /\ pc'[d] = "iterating" /\ policy' = policy /\ tried' = tried
    BY <1>3 DEF TypeOK, LookupAnswers
  <2> QED BY <1>0, <2>1, LoopStutters
<1>4. CASE DialLiteral(d)
  <2> DEFINE t == [hostname |-> dest[d].hostname, address |-> dest[d].address, port |-> port[d]]
  <2>1. /\ pc[d] = "called" /\ pc'[d] = "dialing" /\ policy' = policy
        /\ tried' = [tried EXCEPT ![d] = Append(@, t)]
        /\ port[d] # 0 /\ ~IsHostname(dest[d])
    BY <1>4 DEF TypeOK, DialLiteral, DialAddress, AtLiteral
  <2>2. t \in Target
    BY <1>0, <2>1, LiteralAddress, DialledTarget DEF ControlOK
  <2>3. Attempts(d) = {}
    BY <1>0, <2>1 DEF ControlOK, Attempts
  <2> HIDE DEF t
  <2> QED BY <1>0, <2>1, <2>2, <2>3, DialMaps, GateTarget DEF Gate!Answer
<1>5. CASE DenyLiteral(d)
  BY <1>0, <1>5, ReturnMaps DEF DenyLiteral, AtLiteral, ControlOK
<1>6. CASE SkipAnswer(d) \/ BlockAnswer(d)
  <2>1. pc[d] = "iterating" /\ pc'[d] = "iterating" /\ policy' = policy /\ tried' = tried
    BY <1>6 DEF SkipAnswer, BlockAnswer, Consider, AtAnswer
  <2> QED BY <1>0, <2>1, LoopStutters
<1>7. CASE DialAnswer(d)
  <2> DEFINE a == Unmap(Answer(d))
             t == [hostname |-> dest[d].hostname, address |-> a, port |-> port[d]]
  <2>1. /\ pc'[d] = "dialing" /\ policy' = policy /\ answers' = answers
        /\ tried' = [tried EXCEPT ![d] = Append(@, t)] /\ Consider(d)
    BY <1>7 DEF TypeOK, DialAnswer, DialAddress
  <2>2. /\ pc[d] = "iterating" /\ IsHostname(dest[d]) /\ port[d] # 0
        /\ a \in CanonicalAddr /\ a \notin seen[d]
    BY <1>0, <2>1, ConsiderEffect
  <2>3. t \in Target
    BY <1>0, <2>2, CanonicalIsNetAddr, DialledTarget
  <2>4. t \notin Attempts(d)
    BY <1>0, <2>2 DEF ProgressOK
  <2> HIDE DEF t, a
  <2> QED BY <1>0, <2>1, <2>2, <2>3, <2>4, DialMaps, GateTarget DEF Gate!Answer
<1>8. CASE Connects(d)
  BY <1>0, <1>8, ReturnMaps DEF Connects
<1>9. CASE DialFails(d) /\ ~IsHostname(dest[d])
  BY <1>0, <1>9, ReturnMaps DEF DialFails
<1>10. CASE DialFails(d) /\ IsHostname(dest[d])
  <2>1. /\ pc[d] = "dialing" /\ pc'[d] = "iterating" /\ policy' = policy
        /\ Attempts(d)' = Attempts(d)
    BY <1>10 DEF TypeOK, DialFails, Attempts
  <2>2. Phase(d) = "dialling" /\ Phase(d)' = "deciding"
    BY <2>1 DEF Phase
  <2>3. Gate!Move(d, {"dialling"}, "deciding")
    BY <1>0, <2>1, <2>2, MoveMaps
  <2> QED BY <1>0, <2>1, <2>3, AttemptsStay DEF Gate!Answer, Gate!Miss
<1>11. CASE Exhausted(d)
  <2> DEFINE report == IF tried[d] # <<>> THEN "dial failed" ELSE "denied"
  <2>1. /\ pc[d] = "iterating" /\ Return(d, report) /\ policy' = policy /\ tried' = tried
    BY <1>11 DEF Exhausted
  <2>2. report \in {"dial failed", "denied"} /\ (report = "denied" => tried[d] = <<>>)
    OBVIOUS
  <2> HIDE DEF report
  <2> QED BY <1>0, <2>1, <2>2, ReturnMaps
<1> QED BY <1>1, <1>2, <1>3, <1>4, <1>5, <1>6, <1>7, <1>8, <1>9, <1>10, <1>11 DEF DialStep

\* Every step of Dial is a step of the gate or a stutter.
LEMMA StepMaps ==
  TypeOK /\ DialInvariant /\ DialInvariant' /\ [Next]_vars => [Gate!Next]_(Gate!vars)
<1> SUFFICES ASSUME TypeOK, DialInvariant, DialInvariant', [Next]_vars
             PROVE  Gate!Next \/ UNCHANGED Gate!vars
  OBVIOUS
<1>1. CASE UNCHANGED vars
  <2>1. \A d \in Dialer : Phase(d)' = Phase(d) /\ Attempts(d)' = Attempts(d)
    BY <1>1 DEF vars, Phase, Attempts
  <2> QED BY <1>1, <2>1 DEF vars, Gate!vars
<1>2. ASSUME NEW d \in Dialer, CallHost(d) \/ CallLiteral(d) PROVE Gate!Request(d)
  <2>1. \A e \in Dialer \ {d} : Same(e)
    BY <1>2, Frame
  <2> QED BY <1>2, <2>1, CallMaps DEF CallHost, CallLiteral
<1>3. ASSUME NEW d \in Dialer, DialStep(d) PROVE Gate!Answer(d) \/ UNCHANGED Gate!vars
  BY <1>3, DialStepMaps
<1> QED BY <1>1, <1>2, <1>3 DEF Next, Gate!Next

\* Nothing leaves through Direct.Dial (direct.go) but what the gate of module
\* Egress lets out: the policy allows every target, no target leaves twice for
\* one request, and a request is denied only if nothing left for it.
THEOREM DirectImplementsEgress == Spec => Gate!Spec
<1>1. Init => Gate!Init
  BY GateInit
<1>2. TypeOK /\ DialInvariant /\ (TypeOK /\ DialInvariant)' /\ [Next]_vars
        => [Gate!Next]_(Gate!vars)
  BY StepMaps
<1> QED BY <1>1, <1>2, DialCorrect, PTL DEF Spec, Gate!Spec

-------------------------------------------------------------------------------
(* EnvironmentRouter: what Dial returns, for every limit of the header and any *)
(* number of bytes behind it                                                   *)

\* The stages of the CONNECT handshake; a deadline is set from the second on.
Handshake == {"arming", "securing", "writing", "reading", "parsing", "clearing"}

\* The connection is there from the dial on, the deadline during the handshake.
RouterStageOK ==
  /\ step = "returned" <=> result # "none"
  /\ step \in {"start", "dialling"} => connection = "none"
  /\ step \in Handshake \cup {"greeting"} => connection = "open" /\ ~Direct
  /\ step = "greeting" => proxy = "socks5"
  /\ step \in Handshake => proxy \in {"http", "https"}
  /\ step \in {"start", "dialling", "greeting", "arming"} => ~deadline

\* How much of the answer was read: less than the header while it is being read,
\* then exactly the header, which was within the limit.
RouterReadOK ==
  /\ step \in {"start", "dialling", "arming", "securing", "writing"} => read = 0
  /\ step = "reading" => read < answer.length
  /\ step \in {"parsing", "clearing"} => read = answer.length /\ read <= MaxHeader
  /\ step = "clearing" => answer.status = "success"

\* The inductive invariant of EnvironmentRouter.Dial.
RouterInvariant == RouterTypeOK /\ RouterStageOK /\ RouterReadOK /\ ReturnsCleanTunnel

\* A dial that has not begun has no connection and has read nothing.
LEMMA RouterBegins == RouterInit => RouterInvariant
<1> SUFFICES ASSUME RouterInit PROVE RouterInvariant
  OBVIOUS
<1>1. RouterTypeOK
  <2>1. sent \in 0..(MaxHeader + 1 + Tunnel) /\ read \in 0..sent
    BY RouterAssumption DEF RouterInit
  <2> QED
    BY <2>1 DEF RouterInit, RouterTypeOK
<1>2. RouterStageOK /\ RouterReadOK /\ ReturnsCleanTunnel
  BY <1>1 DEF RouterInit, RouterStageOK, RouterReadOK, ReturnsCleanTunnel, Handshake
<1> QED
  BY <1>1, <1>2 DEF RouterInvariant

\* Every early return closes what it finds open.
LEMMA RouterFail ==
  ASSUME RouterInvariant, step # "returned", Fail
  PROVE  RouterInvariant'
  BY RouterAssumption DEF Fail, config, RouterInvariant, RouterTypeOK,
         RouterStageOK, RouterReadOK, ReturnsCleanTunnel, Handshake, Direct

\* Every step of Dial, the clock, the proxy and the caller keeps the invariant.
LEMMA RouterStep == RouterInvariant /\ [RouterNext]_routerVars => RouterInvariant'
<1> SUFFICES ASSUME RouterInvariant, [RouterNext]_routerVars PROVE RouterInvariant'
  OBVIOUS
<1>0. CASE ChooseFails \/ TooLong \/ ParseFails \/ RouteDialFails
            \/ GreetFails \/ HandshakeFails
  <2>1. step # "returned" /\ Fail
    BY <1>0 DEF ChooseFails, TooLong, ParseFails, RouteDialFails,
                GreetFails, HandshakeFails
  <2> QED
    BY <2>1, RouterFail
<1> USE RouterAssumption DEF RouterInvariant, RouterTypeOK, RouterStageOK, RouterReadOK,
            ReturnsCleanTunnel, Handshake, Direct, config, Goto, Proxies
<1>1. CASE Cancel
  BY <1>1 DEF Cancel
<1>2. CASE Expire
  BY <1>2 DEF Expire
<1>3. CASE ProxySends
  <2>1. RouterTypeOK'
    BY <1>3 DEF ProxySends
  <2> QED
    BY <1>3, <2>1 DEF ProxySends
<1>4. CASE Choose
  BY <1>4 DEF Choose
<1>5. CASE Arm
  BY <1>5 DEF Arm
<1>6. CASE ReadByte
  BY <1>6 DEF ReadByte
<1>7. CASE Parse
  BY <1>7 DEF Parse
<1>8. CASE Clear
  BY <1>8 DEF Clear, Succeed
<1>9. CASE RouteDialSucceeds
  <2>1. RouterTypeOK'
    BY <1>9 DEF RouteDialSucceeds
  <2>2. RouterStageOK'
    BY <1>9 DEF RouteDialSucceeds
  <2>3. RouterReadOK'
    BY <1>9, <2>1 DEF RouteDialSucceeds
  <2>4. ReturnsCleanTunnel'
    BY <1>9, <2>1, <2>2 DEF RouteDialSucceeds
  <2> QED
    BY <2>1, <2>2, <2>3, <2>4
<1>10. CASE GreetSucceeds
  BY <1>10 DEF GreetSucceeds, Succeed
<1>11. CASE Secure
  BY <1>11 DEF Secure
<1>12. CASE Write
  BY <1>12 DEF Write
<1>13. CASE UNCHANGED routerVars
  BY <1>13 DEF routerVars
<1> QED
  BY <1>0, <1>1, <1>2, <1>3, <1>4, <1>5, <1>6, <1>7, <1>8, <1>9, <1>10, <1>11, <1>12,
     <1>13 DEF RouterNext, Local

\* A connection that Dial returns is a clean tunnel, and an error leaves none open.
THEOREM CleanTunnel == RouterSpec => []ReturnsCleanTunnel
<1>1. RouterInvariant => ReturnsCleanTunnel
  BY DEF RouterInvariant
<1> QED
  BY <1>1, RouterBegins, RouterStep, PTL DEF RouterSpec

===============================================================================
