------------------------------- MODULE Outbound -------------------------------
(***************************************************************************)
(* outbound.Direct: the connector every proxy handler dials through.  Each *)
(* dialer is a handler's goroutine inside Direct.Dial; the goroutines      *)
(* share the immutable policy and nothing else.  What the resolver answers *)
(* is chosen anew by the environment at every lookup, so that DNS may      *)
(* change between two lookups or between the start of airjail and a dial.  *)
(* The route an approved address is dialled over (AddressDialFunc) either  *)
(* connects or fails.                                                      *)
(***************************************************************************)
EXTENDS Policy

CONSTANTS
  Dialer,    \* goroutines of the two proxies that dial
  Policies,  \* the policies airjail may have been started with
  Answers    \* what the resolver may answer: sequences over NetAddr and NoAddr

ASSUME OutboundAssumption ==
  /\ Policies \subseteq PolicyType
  /\ Answers \subseteq Seq(NetAddr \cup {NoAddr})

VARIABLES
  policy,    \* Direct.policy
  pc,        \* where the dialer stands in Dial
  dest,      \* the parsed destination it was called with
  port,      \* and the port
  answers,   \* what LookupNetIP returned
  next,      \* index of the answer the loop is at
  seen,      \* the loop's seen
  tried,     \* the dialAddress calls of this Dial, oldest first
  outcome    \* what Dial returned

vars == <<policy, pc, dest, port, answers, next, seen, tried, outcome>>

Target == [hostname : Host \cup {NoHost}, address : NetAddr, port : Port]

\* The zero Destination of a dialer that has not been called.
NoDestination == HostDestination(NoHost)

Outcome == {"none", "bad port", "lookup failed", "denied", "dial failed", "connected"}

Init ==
  /\ policy \in Policies
  /\ pc = [d \in Dialer |-> "idle"]
  /\ dest = [d \in Dialer |-> NoDestination]
  /\ port = [d \in Dialer |-> 0]
  /\ answers = [d \in Dialer |-> <<>>]
  /\ next = [d \in Dialer |-> 1]
  /\ seen = [d \in Dialer |-> {}]
  /\ tried = [d \in Dialer |-> <<>>]
  /\ outcome = [d \in Dialer |-> "none"]

-------------------------------------------------------------------------------

\* A handler calls Dial; any earlier Dial of this goroutine has returned.
Call(d, destination, p) ==
  /\ pc[d] \in {"idle", "returned"}
  /\ pc' = [pc EXCEPT ![d] = "called"]
  /\ dest' = [dest EXCEPT ![d] = destination]
  /\ port' = [port EXCEPT ![d] = p]
  /\ answers' = [answers EXCEPT ![d] = <<>>]
  /\ next' = [next EXCEPT ![d] = 1]
  /\ seen' = [seen EXCEPT ![d] = {}]
  /\ tried' = [tried EXCEPT ![d] = <<>>]
  /\ outcome' = [outcome EXCEPT ![d] = "none"]
  /\ UNCHANGED policy

\* The request names a hostname.
CallHost(d) == \E h \in Host, p \in Port \cup {0} : Call(d, HostDestination(h), p)

\* The request names an address literal that ParseDestination accepts.
CallLiteral(d) ==
  \E a \in NetAddr, p \in Port \cup {0} :
    ~BadZone(a) /\ Call(d, AddressDestination(a), p)

Return(d, result) ==
  /\ pc' = [pc EXCEPT ![d] = "returned"]
  /\ outcome' = [outcome EXCEPT ![d] = result]

RejectPort(d) ==
  /\ pc[d] = "called" /\ port[d] = 0
  /\ Return(d, "bad port")
  /\ UNCHANGED <<policy, dest, port, answers, next, seen, tried>>

LookupFails(d) ==
  /\ pc[d] = "called" /\ port[d] # 0 /\ IsHostname(dest[d])
  /\ Return(d, "lookup failed")
  /\ UNCHANGED <<policy, dest, port, answers, next, seen, tried>>

LookupAnswers(d, addresses) ==
  /\ pc[d] = "called" /\ port[d] # 0 /\ IsHostname(dest[d])
  /\ answers' = [answers EXCEPT ![d] = addresses]
  /\ pc' = [pc EXCEPT ![d] = "iterating"]
  /\ UNCHANGED <<policy, dest, port, next, seen, tried, outcome>>

\* dialAddress is called: from here the address is on the wire.
DialAddress(d, address) ==
  /\ tried' = [tried EXCEPT ![d] =
       Append(@, [hostname |-> dest[d].hostname, address |-> address, port |-> port[d]])]
  /\ pc' = [pc EXCEPT ![d] = "dialing"]

\* dialLiteral: the policy is asked about the address without its zone, which
\* is then dialled with it.
PolicyAddress(d) == [dest[d].address EXCEPT !.zone = NoZone]

AtLiteral(d) == pc[d] = "called" /\ port[d] # 0 /\ ~IsHostname(dest[d])

\* Mutant: only hostnames are checked against the policy.
LiteralUnchecked(d) == TRUE

LiteralAllowed(d) == Allows(policy, NoHost, PolicyAddress(d), port[d])

DialLiteral(d) ==
  /\ AtLiteral(d) /\ LiteralAllowed(d)
  /\ DialAddress(d, dest[d].address)
  /\ UNCHANGED <<policy, dest, port, answers, next, seen, outcome>>

DenyLiteral(d) ==
  /\ AtLiteral(d) /\ ~LiteralAllowed(d)
  /\ Return(d, "denied")
  /\ UNCHANGED <<policy, dest, port, answers, next, seen, tried>>

\* The loop over the answers.
AtAnswer(d) == pc[d] = "iterating" /\ next[d] \in DOMAIN answers[d]

Answer(d) == answers[d][next[d]]

\* Mutant: the answers are not deduplicated.
FreshAlways(d) == Usable(Answer(d))

Fresh(d) == Usable(Answer(d)) /\ Unmap(Answer(d)) \notin seen[d]

\* Mutant: the name is checked, the address it resolved to is not.
NameAllowed(d) == Allows(policy, dest[d].hostname, NoAddr, port[d])

AnswerAllowed(d) == Allows(policy, dest[d].hostname, Unmap(Answer(d)), port[d])

\* An invalid, a zoned or a repeated answer: the first two continue.
SkipAnswer(d) ==
  /\ AtAnswer(d) /\ ~Fresh(d)
  /\ next' = [next EXCEPT ![d] = @ + 1]
  /\ UNCHANGED <<policy, pc, dest, port, answers, seen, tried, outcome>>

\* Allows does not return an error here: Usable(Answer(d)) and port[d] # 0.
Consider(d) ==
  /\ AtAnswer(d) /\ Fresh(d)
  /\ next' = [next EXCEPT ![d] = @ + 1]
  /\ seen' = [seen EXCEPT ![d] = @ \cup {Unmap(Answer(d))}]

BlockAnswer(d) ==
  /\ Consider(d) /\ ~AnswerAllowed(d)
  /\ UNCHANGED <<policy, pc, dest, port, answers, tried, outcome>>

\* Mutant: the address is dialled as it was answered.
DialRawAnswer(d) ==
  /\ Consider(d) /\ AnswerAllowed(d)
  /\ DialAddress(d, Answer(d))
  /\ UNCHANGED <<policy, dest, port, answers, outcome>>

DialAnswer(d) ==
  /\ Consider(d) /\ AnswerAllowed(d)
  /\ DialAddress(d, Unmap(Answer(d)))
  /\ UNCHANGED <<policy, dest, port, answers, outcome>>

Connects(d) ==
  /\ pc[d] = "dialing"
  /\ Return(d, "connected")
  /\ UNCHANGED <<policy, dest, port, answers, next, seen, tried>>

\* Mutant: the first failing address ends the dial.
DialFailsAtOnce(d) ==
  /\ pc[d] = "dialing"
  /\ Return(d, "dial failed")
  /\ UNCHANGED <<policy, dest, port, answers, next, seen, tried>>

\* A hostname goes on with its next answer, a literal has none.
DialFails(d) ==
  /\ pc[d] = "dialing"
  /\ IF IsHostname(dest[d])
     THEN pc' = [pc EXCEPT ![d] = "iterating"] /\ UNCHANGED outcome
     ELSE Return(d, "dial failed")
  /\ UNCHANGED <<policy, dest, port, answers, next, seen, tried>>

\* lastDialError is set exactly when some address was tried.
Exhausted(d) ==
  /\ pc[d] = "iterating" /\ next[d] \notin DOMAIN answers[d]
  /\ Return(d, IF tried[d] # <<>> THEN "dial failed" ELSE "denied")
  /\ UNCHANGED <<policy, dest, port, answers, next, seen, tried>>

-------------------------------------------------------------------------------

\* A step of Dial itself, of its resolver or of its route.
DialStep(d) ==
  \/ RejectPort(d)
  \/ LookupFails(d)
  \/ \E addresses \in Answers : LookupAnswers(d, addresses)
  \/ DialLiteral(d)
  \/ DenyLiteral(d)
  \/ SkipAnswer(d)
  \/ BlockAnswer(d)
  \/ DialAnswer(d)
  \/ Connects(d)
  \/ DialFails(d)
  \/ Exhausted(d)

Next ==
  \E d \in Dialer :
    \/ CallHost(d)
    \/ CallLiteral(d)
    \/ DialStep(d)

Spec == Init /\ [][Next]_vars

\* The goroutines are scheduled, and every lookup and every dial ends: the
\* resolver times out, a direct dial and the HTTP handshake end by their
\* timeouts (connectTimeout), and a SOCKS handshake with an outer proxy that
\* stays silent when the caller gives up (EnvironmentRouter!DialEnds).
FairSpec == Spec /\ \A d \in Dialer : WF_vars(DialStep(d))

-------------------------------------------------------------------------------
(* Properties *)

TypeOK ==
  /\ policy \in Policies
  /\ pc \in [Dialer -> {"idle", "called", "iterating", "dialing", "returned"}]
  /\ dest \in [Dialer -> Destination \cup {NoDestination}]
  /\ port \in [Dialer -> Port \cup {0}]
  /\ answers \in [Dialer -> Answers \cup {<<>>}]
  /\ next \in [Dialer -> Nat \ {0}]
  /\ seen \in [Dialer -> SUBSET CanonicalAddr]
  /\ tried \in [Dialer -> Seq(Target)]
  /\ outcome \in [Dialer -> Outcome]

Attempts(d) == { tried[d][i] : i \in DOMAIN tried[d] }

\* Without its zone, which no rule names.
Base(address) == [address EXCEPT !.zone = NoZone]

\* Direct.Dial checks the concrete address it dials, not the name: whatever a
\* resolver answers, for whichever hostname and in whichever written form, an
\* address that a block rule covers by itself is never dialled on its port.
BlockedAddressNeverDialled ==
  \A d \in Dialer : \A t \in Attempts(d) :
    ~Matches(policy.block, NoHost, Base(t.address), t.port)

\* A blocked hostname, or a subdomain of a blocked wildcard, is never dialled,
\* not even when DNS moved it away from the addresses it had when the policy
\* was built, nor when an allow rule covers the address it moved to.
BlockedHostnameNeverDialled ==
  \A d \in Dialer : \A t \in Attempts(d) : \A i \in DOMAIN policy.block.hosts :
    LET rule == policy.block.hosts[i]
    IN  ~(/\ t.hostname # NoHost
          /\ MatchesHostname(rule, t.hostname)
          /\ PortMatches(rule.port, t.port))

\* A non-empty allow list is exhaustive, and the empty policy denies all:
\* whatever is dialled, an allow rule covers its hostname or its address, or
\* there are only block rules.
AllowListIsExhaustive ==
  \A d \in Dialer : \A t \in Attempts(d) :
    \/ Matches(policy.allow, t.hostname, Base(t.address), t.port)
    \/ Empty(policy.allow) /\ ~Empty(policy.block)

\* What the rules promise of a policy (README.md, policy.go), whatever DNS does
\* between the start of airjail and the dial, or between two lookups: nothing a
\* block rule covers is ever dialled, neither by its address nor by its name,
\* and a non-empty allow list is exhaustive.
PolicyIsKept ==
  /\ BlockedAddressNeverDialled
  /\ BlockedHostnameNeverDialled
  /\ AllowListIsExhaustive

\* The address that is dialled comes from the one lookup of this very call, or
\* is the literal of the request, zone included; the name is never looked up
\* again after the policy approved it.
DialledAddressWasAnswered ==
  \A d \in Dialer : \A t \in Attempts(d) :
    IF IsHostname(dest[d])
    THEN /\ t.hostname = dest[d].hostname
         /\ t.address \in NormalizeAddresses(answers[d])
    ELSE t.address = dest[d].address

NoRepeat(d) == \A i, j \in DOMAIN tried[d] : tried[d][i] = tried[d][j] => i = j

\* One Dial tries a destination once, even if the resolver answers it in both
\* the IPv4 and the IPv4-mapped form.
NoAddressDialledTwice == \A d \in Dialer : NoRepeat(d)

\* Dial returns ErrDenied (the proxies answer 403) only if it dialled nothing,
\* and any other dial error only if it did.
DeniedMeansNotDialled ==
  \A d \in Dialer :
    /\ outcome[d] \in {"denied", "bad port", "lookup failed"} => tried[d] = <<>>
    /\ outcome[d] \in {"dial failed", "connected"} => tried[d] # <<>>

\* A hostname fails only after every usable answer the policy allows was tried:
\* neither a blocked answer nor a failing one hides the answers behind it.
EveryAllowedAnswerTried ==
  \A d \in Dialer :
    outcome[d] \in {"denied", "dial failed"} /\ IsHostname(dest[d]) =>
      \A a \in NormalizeAddresses(answers[d]) :
        Allows(policy, dest[d].hostname, a, port[d]) =>
          \E t \in Attempts(d) : t.address = a

\* The policy is only asked what it can answer: the error paths behind Allows
\* in Dial and dialLiteral are never taken.
PolicyAlwaysAnswers ==
  \A d \in Dialer :
    /\ AtLiteral(d) => ~Unanswerable(NoHost, PolicyAddress(d), port[d])
    /\ AtAnswer(d) /\ Fresh(d) =>
         ~Unanswerable(dest[d].hostname, Unmap(Answer(d)), port[d])

-------------------------------------------------------------------------------
(* The inductive invariant behind the properties above. *)

\* What each place in Dial knows about its arguments.
ControlOK(d) ==
  /\ pc[d] # "idle" => dest[d] \in Destination
  /\ pc[d] \in {"iterating", "dialing"} => port[d] # 0
  /\ pc[d] = "iterating" => IsHostname(dest[d])
  /\ pc[d] \in {"idle", "called"} => tried[d] = <<>> /\ seen[d] = {} /\ next[d] = 1
  /\ next[d] <= Len(answers[d]) + 1

\* Every dialled target belongs to this call and was approved.
ApprovedOK(d) ==
  \A t \in Attempts(d) :
    /\ t.hostname = dest[d].hostname /\ t.port = port[d]
    /\ Base(t.address) \in CanonicalAddr
    /\ Allows(policy, t.hostname, Base(t.address), t.port)

\* The usable answers the loop has passed.
Considered(d) ==
  { Unmap(answers[d][i]) :
      i \in {j \in DOMAIN answers[d] : j < next[d] /\ Usable(answers[d][j])} }

\* For a hostname, seen is what was considered, and the allowed ones of it were
\* tried; for a literal, the one attempt is the literal.
ProgressOK(d) ==
  IF IsHostname(dest[d])
  THEN /\ seen[d] = Considered(d)
       /\ \A a \in seen[d] :
            Allows(policy, dest[d].hostname, a, port[d]) => \E t \in Attempts(d) : t.address = a
       /\ \A t \in Attempts(d) : t.address \in seen[d]
       /\ NoRepeat(d)
  ELSE /\ \A t \in Attempts(d) : t.address = dest[d].address
       /\ Len(tried[d]) <= 1

\* What Dial returns fits what it did.
OutcomeOK(d) ==
  /\ outcome[d] = "none" <=> pc[d] # "returned"
  /\ pc[d] = "dialing" => tried[d] # <<>>
  /\ outcome[d] \in {"denied", "bad port", "lookup failed"} => tried[d] = <<>>
  /\ outcome[d] \in {"dial failed", "connected"} => tried[d] # <<>>
  /\ outcome[d] \in {"denied", "dial failed"} /\ IsHostname(dest[d]) =>
       next[d] = Len(answers[d]) + 1

\* Taken together: the loop of Dial tries exactly the approved ones among the
\* usable answers up to where it stands, each once.
DialInvariant ==
  \A d \in Dialer : ControlOK(d) /\ ApprovedOK(d) /\ ProgressOK(d) /\ OutcomeOK(d)

-------------------------------------------------------------------------------
(* Refinement of the abstract egress gate. *)

Phase(d) ==
  CASE pc[d] = "idle" -> "idle"
    [] pc[d] \in {"called", "iterating"} -> "deciding"
    [] pc[d] = "dialing" -> "dialling"
    [] OTHER -> IF outcome[d] \in {"connected", "denied"} THEN outcome[d] ELSE "failed"

Gate == INSTANCE Egress WITH
  phase <- [d \in Dialer |-> Phase(d)],
  attempts <- [d \in Dialer |-> Attempts(d)]

\* Direct implements the gate of module Egress: nothing leaves that the policy
\* does not allow, no target leaves twice for one request, a request is denied
\* only if nothing left for it, and every request is answered.
ImplementsEgress == Gate!FairSpec

===============================================================================
