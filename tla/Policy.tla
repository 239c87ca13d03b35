-------------------------------- MODULE Policy --------------------------------
(***************************************************************************)
(* The egress policy of internal/policy: addresses, hostnames, rules and   *)
(* the decision Allows takes on one (hostname, address, port) triple.      *)
(*                                                                         *)
(* An address is abstracted to what netip.Addr distinguishes in this code: *)
(* which canonical address it denotes, whether it is written in the        *)
(* IPv4-mapped IPv6 form, and the IPv6 zone attached to it.  A hostname is *)
(* its sequence of labels, in the form NormalizeHostname returns.  A       *)
(* parsed prefix is the set of canonical addresses it contains; module     *)
(* Prefix derives that set from the address and the bits of a CIDR.        *)
(***************************************************************************)
EXTENDS Naturals, Sequences

CONSTANTS
  Addr,       \* canonical addresses: IPv4, or IPv6 that is not IPv4-mapped
  Addr4,      \* those of them that are IPv4
  Label,      \* labels of hostnames
  Host,       \* normalized hostnames, each a non-empty sequence of labels
  Port,       \* ports a destination can name
  Zone,       \* IPv6 zone identifiers an address can carry
  ValidZone,  \* those of them that validateZone accepts
  NoZone,     \* the empty zone string
  NoAddr,     \* the invalid netip.Addr, of no address family
  AnyPort     \* a portMatcher that is not set

\* hostname == "" in the code
NoHost == <<>>

-------------------------------------------------------------------------------
(* Addresses *)

\* Everything netip.ParseAddr or a resolver can return.
NetAddr ==
  { a \in [canon : Addr, mapped : BOOLEAN, zone : Zone \cup {NoZone}] :
      /\ a.mapped => a.canon \in Addr4
      /\ a.canon \in Addr4 /\ a.zone # NoZone => a.mapped }

ASSUME PolicyAssumption ==
  /\ Addr4 \subseteq Addr
  /\ Host \subseteq Seq(Label) \ {<<>>}
  /\ Port \subseteq Nat \ {0}
  /\ ValidZone \subseteq Zone
  /\ NoZone \notin Zone
  /\ NoAddr \notin NetAddr
  /\ AnyPort \notin Nat

Canonical(c) == [canon |-> c, mapped |-> FALSE, zone |-> NoZone]

CanonicalAddr == { Canonical(c) : c \in Addr }

IsValid(a) == a # NoAddr

\* Addr.Unmap: the IPv4 form of an IPv4-mapped address, which has no zone.
Unmap(a) == IF a.mapped THEN Canonical(a.canon) ELSE a

\* The test with which Direct.Dial and normalizeAddresses drop an answer.
Usable(a) == IsValid(a) /\ a.zone = NoZone

\* normalizeAddresses: the canonical addresses of a resolver's answers.
NormalizeAddresses(answers) ==
  { Unmap(answers[i]) : i \in {j \in DOMAIN answers : Usable(answers[j])} }

-------------------------------------------------------------------------------
(* Destinations *)

HostDestination(h) == [hostname |-> h, address |-> NoAddr]

\* Destination: either a hostname, or an address with its zone.
Destination ==
  { HostDestination(h) : h \in Host }
  \cup { [hostname |-> NoHost, address |-> a] :
           a \in {b \in NetAddr : ~b.mapped /\ b.zone \in ValidZone \cup {NoZone}} }

\* A zone that parseAddressDestination refuses: on an IPv4-mapped address, or
\* not an interface name.
BadZone(a) == a.zone # NoZone /\ (a.mapped \/ a.zone \notin ValidZone)

\* ParseDestination of an address literal that is not refused.
AddressDestination(a) == [hostname |-> NoHost, address |-> Unmap(a)]

IsHostname(destination) == destination.hostname # NoHost

-------------------------------------------------------------------------------
(* Rules *)

PortMatcher == Port \cup {AnyPort}

PortMatches(matcher, port) == matcher \in {AnyPort, port}

HostRule ==
  [hostname : Host, wildcard : BOOLEAN, port : PortMatcher, resolved : SUBSET CanonicalAddr]

AddressRule == [address : CanonicalAddr, port : PortMatcher]

PrefixRule == [prefix : SUBSET Addr, port : PortMatcher]

RuleSet ==
  [hosts : Seq(HostRule), addresses : SUBSET AddressRule, prefixes : SUBSET PrefixRule]

PolicyType == [allow : RuleSet, block : RuleSet]

\* hostRule.matchesHostname: an exact rule covers its hostname, a wildcard rule
\* the strict subdomains of it.
MatchesHostname(rule, hostname) ==
  LET extra == Len(hostname) - Len(rule.hostname)
  IN  IF rule.wildcard
      THEN /\ Len(hostname) > Len(rule.hostname)
           /\ \A i \in 1..Len(rule.hostname) : hostname[extra + i] = rule.hostname[i]
      ELSE hostname = rule.hostname

\* netip.Prefix.Contains: no prefix contains a mapped or a zoned address.
PrefixContains(prefix, address) == address \in { Canonical(c) : c \in prefix }

\* ruleSet.matches
Matches(rules, hostname, address, port) ==
  \/ \E i \in DOMAIN rules.hosts :
       LET rule == rules.hosts[i]
       IN  /\ PortMatches(rule.port, port)
           /\ \/ hostname # NoHost /\ MatchesHostname(rule, hostname)
              \/ IsValid(address) /\ address \in rule.resolved
  \/ /\ IsValid(address)
     /\ \/ \E rule \in rules.addresses :
             PortMatches(rule.port, port) /\ rule.address = address
        \/ \E rule \in rules.prefixes :
             PortMatches(rule.port, port) /\ PrefixContains(rule.prefix, address)

Empty(rules) == rules.hosts = <<>> /\ rules.addresses = {} /\ rules.prefixes = {}

\* The arguments for which Policy.Allows returns an error.
Unanswerable(hostname, address, port) ==
  \/ port = 0
  \/ hostname = NoHost /\ ~IsValid(address)
  \/ IsValid(address) /\ address.zone # NoZone

\* Policy.Allows for all other arguments.
Allows(policy, hostname, address, port) ==
  LET canonical == IF IsValid(address) THEN Unmap(address) ELSE address
  IN  /\ ~(Empty(policy.allow) /\ Empty(policy.block))
      /\ Empty(policy.allow) \/ Matches(policy.allow, hostname, canonical, port)
      /\ ~Matches(policy.block, hostname, canonical, port)

===============================================================================
