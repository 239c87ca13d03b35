------------------------------ MODULE PolicyNew ------------------------------
(***************************************************************************)
(* policy.New: the rules of both lists are parsed, then the exact hostname *)
(* rules are resolved one after the other, the allow list first, with one  *)
(* cache of lookups for both.  The environment answers each lookup as it   *)
(* likes; a second lookup of the same name may well answer differently.    *)
(***************************************************************************)
EXTENDS Policy

CONSTANTS
  Configs,  \* what airjail may be started with
  Answers   \* what the resolver may answer: sequences over NetAddr and NoAddr

\* A rule as splitRulePort and the netip parsers classify it.  "bad" stands for
\* the ones they or NormalizeHostname refuse; a prefix is already the set of
\* addresses it contains (module Prefix).
RawRule ==
  [kind : {"exact", "wildcard"}, hostname : Host, port : PortMatcher]
  \cup [kind : {"address"}, address : NetAddr, port : PortMatcher]
  \cup [kind : {"prefix"}, prefix : SUBSET Addr, port : PortMatcher]
  \cup [kind : {"bad"}]

ASSUME PolicyNewAssumption ==
  /\ Configs \subseteq [allow : Seq(RawRule), block : Seq(RawRule), allowUnresolved : BOOLEAN]
  /\ Answers \subseteq Seq(NetAddr \cup {NoAddr})

VARIABLES
  config,   \* allowRules, blockRules and options.AllowUnresolved
  pc,       \* where New stands
  list,     \* the list it parses or resolves
  index,    \* the index of the loop of parseRules or resolveHostRules
  rules,    \* the rule set of either list
  cache     \* hostname to lookupResult

vars == <<config, pc, list, index, rules, cache>>

List == {"allow", "block"}

NoRules == [hosts |-> <<>>, addresses |-> {}, prefixes |-> {}]

Failed == [err |-> TRUE, addresses |-> {}]

Init ==
  /\ config \in Configs
  /\ pc = "parse"
  /\ list = "allow"
  /\ index = 1
  /\ rules = [l \in List |-> NoRules]
  /\ cache = <<>>

-------------------------------------------------------------------------------
(* parseRules *)

Parsing == pc = "parse" /\ index \in DOMAIN config[list]

Raw == config[list][index]

\* ruleSet.add of a rule that is accepted.
Add(set, raw) ==
  CASE raw.kind = "prefix" ->
         [set EXCEPT !.prefixes = @ \cup {[prefix |-> raw.prefix, port |-> raw.port]}]
    [] raw.kind = "address" ->
         [set EXCEPT !.addresses = @ \cup {[address |-> Unmap(raw.address), port |-> raw.port]}]
    [] OTHER ->
         [set EXCEPT !.hosts = Append(@,
            [hostname |-> raw.hostname, wildcard |-> raw.kind = "wildcard",
             port |-> raw.port, resolved |-> {}])]

\* ruleSet.add returns an error; an address rule must not have a zone.
Refused(raw) ==
  raw.kind = "bad" \/ (raw.kind = "address" /\ raw.address.zone # NoZone)

Refuse ==
  /\ Parsing /\ Refused(Raw)
  /\ pc' = "error"
  /\ UNCHANGED <<config, list, index, rules, cache>>

Parse ==
  /\ Parsing /\ ~Refused(Raw)
  /\ rules' = [rules EXCEPT ![list] = Add(@, Raw)]
  /\ index' = index + 1
  /\ UNCHANGED <<config, pc, list, cache>>

\* Both lists are parsed before anything is resolved.
ListParsed ==
  /\ pc = "parse" /\ index \notin DOMAIN config[list]
  /\ IF list = "allow"
     THEN list' = "block" /\ UNCHANGED pc
     ELSE list' = "allow" /\ pc' = "resolve"
  /\ index' = 1
  /\ UNCHANGED <<config, rules, cache>>

-------------------------------------------------------------------------------
(* resolveHostRules *)

Resolving == pc = "resolve" /\ index \in DOMAIN rules[list].hosts

Rule == rules[list].hosts[index]

SkipWildcard ==
  /\ Resolving /\ Rule.wildcard
  /\ index' = index + 1
  /\ UNCHANGED <<config, pc, list, rules, cache>>

\* A hostname that is not cached is looked up; a failure is cached too.
Lookup ==
  /\ Resolving /\ ~Rule.wildcard /\ Rule.hostname \notin DOMAIN cache
  /\ \E result \in {[err |-> FALSE, addresses |-> NormalizeAddresses(a)] : a \in Answers}
                   \cup {Failed} :
       cache' = [h \in DOMAIN cache \cup {Rule.hostname} |->
                   IF h = Rule.hostname THEN result ELSE cache[h]]
  /\ UNCHANGED <<config, pc, list, index, rules>>

Cached == Resolving /\ ~Rule.wildcard /\ Rule.hostname \in DOMAIN cache

Snapshot == cache[Rule.hostname]

Resolved == ~Snapshot.err /\ Snapshot.addresses # {}

\* Mutant: the addresses are assigned to the loop's copy of the rule.
ExpandCopy ==
  /\ Cached /\ Resolved
  /\ index' = index + 1
  /\ UNCHANGED <<config, pc, list, rules, cache>>

\* rule.resolved gets the rule's own copy of the cached addresses.
Expand ==
  /\ Cached /\ Resolved
  /\ rules' = [rules EXCEPT ![list].hosts[index].resolved = Snapshot.addresses]
  /\ index' = index + 1
  /\ UNCHANGED <<config, pc, list, cache>>

\* Mutant: a lookup that answers no address does not count as unresolved.
ToleratesEmpty == Cached /\ ~Resolved /\ (config.allowUnresolved \/ ~Snapshot.err)

Tolerated == Cached /\ ~Resolved /\ config.allowUnresolved

\* The rule stays without addresses, a warning is logged.
Tolerate ==
  /\ Tolerated
  /\ index' = index + 1
  /\ UNCHANGED <<config, pc, list, rules, cache>>

Abort ==
  /\ Cached /\ ~Resolved /\ ~Tolerated
  /\ pc' = "error"
  /\ UNCHANGED <<config, list, index, rules, cache>>

\* Mutant: each list is resolved with a cache of its own.
ListResolvedFreshCache ==
  /\ pc = "resolve" /\ index \notin DOMAIN rules[list].hosts
  /\ IF list = "allow"
     THEN list' = "block" /\ index' = 1 /\ UNCHANGED pc
     ELSE pc' = "built" /\ UNCHANGED <<list, index>>
  /\ cache' = <<>>
  /\ UNCHANGED <<config, rules>>

\* The block list follows, then New returns the policy.
ListResolved ==
  /\ pc = "resolve" /\ index \notin DOMAIN rules[list].hosts
  /\ IF list = "allow"
     THEN list' = "block" /\ index' = 1 /\ UNCHANGED pc
     ELSE pc' = "built" /\ UNCHANGED <<list, index>>
  /\ UNCHANGED <<config, rules, cache>>

Next ==
  \/ Parse \/ Refuse \/ ListParsed
  \/ SkipWildcard \/ Lookup \/ Expand \/ Tolerate \/ Abort \/ ListResolved

Spec == Init /\ [][Next]_vars

-------------------------------------------------------------------------------
(* Properties *)

TypeOK ==
  /\ config \in Configs
  /\ pc \in {"parse", "resolve", "built", "error"}
  /\ list \in List
  /\ index \in Nat \ {0}
  /\ rules \in [List -> RuleSet]
  /\ DOMAIN cache \subseteq Host
  /\ \A h \in DOMAIN cache :
       cache[h] \in [err : BOOLEAN, addresses : SUBSET CanonicalAddr]

ExactRules ==
  UNION { { r \in {rules[l].hosts[i] : i \in DOMAIN rules[l].hosts} : ~r.wildcard } : l \in List }

\* Two exact rules for one hostname, on the same list or on both, hold the same
\* addresses: a name that moves while New runs cannot be allowed at one address
\* and blocked at another (the shared lookup cache).
OneSnapshotPerHostname ==
  /\ TypeOK
  /\ pc = "built" =>
       \A r, s \in ExactRules : r.hostname = s.hostname => r.resolved = s.resolved

\* A policy is not built with an exact rule that covers no address, unless the
\* user asked for that: a block rule never silently lacks its addresses.
NoRuleSilentlyUnresolved ==
  pc = "built" /\ ~config.allowUnresolved => \A r \in ExactRules : r.resolved # {}

\* What a rule covers as it is written.  An exact hostname stands for the
\* addresses of its snapshot too, a wildcard for the names below its own.
Covers(raw, hostname, address, port) ==
  /\ raw.kind # "bad" /\ PortMatches(raw.port, port)
  /\ \/ raw.kind = "address" /\ address = Unmap(raw.address)
     \/ raw.kind = "prefix" /\ PrefixContains(raw.prefix, address)
     \/ raw.kind = "exact" /\ (hostname = raw.hostname \/ address \in cache[raw.hostname].addresses)
     \/ /\ raw.kind = "wildcard"
        /\ \E k \in 1..(Len(hostname) - 1) : SubSeq(hostname, k + 1, Len(hostname)) = raw.hostname

\* The policy that is built is the one that is written: a list matches exactly
\* what the rules on it cover, whatever order they came in, however often a
\* name was looked up, and in either notation of the addresses.  No rule is lost
\* between the two loops, and no name or address is covered that no rule names.
PolicyIsAsWritten ==
  pc = "built" =>
    \A l \in List, hostname \in Host \cup {NoHost}, address \in CanonicalAddr \cup {NoAddr}, port \in Port :
      Matches(rules[l], hostname, address, port)
        <=> \E i \in DOMAIN config[l] : Covers(config[l][i], hostname, address, port)

===============================================================================
