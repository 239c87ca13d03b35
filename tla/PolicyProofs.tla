---------------------------- MODULE PolicyProofs ----------------------------
(***************************************************************************)
(* What policy.New builds, for every configuration and for every answer of *)
(* the resolver: the two loops leave each element behind in the state the  *)
(* policy needs it in, and the cache makes what they leave behind agree.   *)
(* The last sections are about the CIDR rules among them, bit by bit and   *)
(* for addresses of any width.                                             *)
(***************************************************************************)
EXTENDS PolicyNew, Prefix, FiniteSetTheorems, SequenceTheorems, TLAPS

-------------------------------------------------------------------------------
(* The inductive invariant *)

\* ruleSet.add took the rule: it stands in the set, with its port.
Accepted(set, raw) ==
  /\ ~Refused(raw)
  /\ raw.kind = "prefix" => [prefix |-> raw.prefix, port |-> raw.port] \in set.prefixes
  /\ raw.kind = "address" => [address |-> Unmap(raw.address), port |-> raw.port] \in set.addresses
  /\ raw.kind \in {"exact", "wildcard"} =>
       \E j \in DOMAIN set.hosts :
         /\ set.hosts[j].hostname = raw.hostname /\ set.hosts[j].port = raw.port
         /\ set.hosts[j].wildcard = (raw.kind = "wildcard")

\* A hostname rule as it is written and as it is kept.
SameHost(raw, host) ==
  /\ raw.kind \in {"exact", "wildcard"}
  /\ host.hostname = raw.hostname /\ host.port = raw.port
  /\ host.wildcard = (raw.kind = "wildcard")

\* Nothing is in the set that is not written in the list.
Written(written, set) ==
  /\ \A e \in set.prefixes : \E i \in DOMAIN written :
       written[i].kind = "prefix" /\ e = [prefix |-> written[i].prefix, port |-> written[i].port]
  /\ \A e \in set.addresses : \E i \in DOMAIN written :
       written[i].kind = "address" /\ e = [address |-> Unmap(written[i].address), port |-> written[i].port]
  /\ \A j \in DOMAIN set.hosts : \E i \in DOMAIN written : SameHost(written[i], set.hosts[j])

\* The loops have left the element behind.
IsParsed(l, i) ==
  \/ pc \in {"resolve", "built"}
  \/ pc = "parse" /\ ((l = list /\ i < index) \/ (l = "allow" /\ list = "block"))
IsResolved(l, j) ==
  \/ pc = "built"
  \/ pc = "resolve" /\ ((l = list /\ j < index) \/ (l = "allow" /\ list = "block"))

\* Every rule that parseRules has left behind was accepted and is in the rule set.
ParsedOK(l) ==
  \A i \in DOMAIN config[l] : IsParsed(l, i) => Accepted(rules[l], config[l][i])

\* An exact rule that resolveHostRules has left behind holds the addresses of its
\* name's snapshot, and none only where the user asked for it; before the loop
\* gets to it a rule holds none, and a wildcard never does.
HostOK(l, j) ==
  LET rule == rules[l].hosts[j]
  IN  /\ IsResolved(l, j) /\ ~rule.wildcard =>
           /\ rule.hostname \in DOMAIN cache
           /\ rule.resolved = cache[rule.hostname].addresses
           /\ rule.resolved # {} \/ config.allowUnresolved
      /\ pc # "error" /\ ~IsResolved(l, j) => rule.resolved = {}
      /\ rule.wildcard => rule.resolved = {}

\* A failed lookup is cached without addresses.
CacheOK == \A h \in DOMAIN cache : cache[h].err => cache[h].addresses = {}

\* The inductive invariant of policy.New.
NewInvariant ==
  /\ TypeOK
  /\ CacheOK
  /\ \A l \in List :
       /\ ParsedOK(l) /\ Written(config[l], rules[l])
       /\ \A j \in DOMAIN rules[l].hosts : HostOK(l, j)

-------------------------------------------------------------------------------
(* What the operators return *)

\* Unmapping an address without a zone gives its canonical form, which is valid
\* and has no zone (netip.Addr.Unmap).
LEMMA CanonicalAddress ==
  /\ \A c \in Addr : Canonical(c) \in CanonicalAddr
  /\ \A a \in CanonicalAddr : a \in NetAddr /\ IsValid(a) /\ a.zone = NoZone
  /\ \A a \in NetAddr : a.zone = NoZone => Unmap(a) \in CanonicalAddr
<1>1. \A c \in Addr : Canonical(c) \in CanonicalAddr
  BY DEF CanonicalAddr
<1>2. ASSUME NEW a \in CanonicalAddr PROVE a \in NetAddr /\ IsValid(a) /\ a.zone = NoZone
  <2>1. PICK c \in Addr : a = Canonical(c)
    BY DEF CanonicalAddr
  <2>2. Canonical(c) \in NetAddr /\ Canonical(c).zone = NoZone
    BY DEF Canonical, NetAddr
  <2> QED
    BY <2>1, <2>2, PolicyAssumption DEF IsValid
<1>3. ASSUME NEW a \in NetAddr, a.zone = NoZone PROVE Unmap(a) \in CanonicalAddr
  <2>1. CASE a.mapped
    BY <1>1, <2>1, PolicyAssumption DEF Unmap, NetAddr
  <2>2. CASE ~a.mapped
    <3>1. a = [canon |-> a.canon, mapped |-> FALSE, zone |-> NoZone] /\ a.canon \in Addr
      BY <1>3, <2>2 DEF NetAddr
    <3> QED
      BY <1>1, <2>2, <3>1 DEF Unmap, Canonical
  <2> QED
    BY <2>1, <2>2
<1> QED
  BY <1>1, <1>2, <1>3

\* Only canonical addresses come out of normalizeAddresses.
LEMMA NormalizedAddresses ==
  ASSUME NEW a \in Answers
  PROVE  NormalizeAddresses(a) \in SUBSET CanonicalAddr
<1>1. a \in Seq(NetAddr \cup {NoAddr})
  BY PolicyNewAssumption
<1>2. \A i \in DOMAIN a : Usable(a[i]) => a[i] \in NetAddr /\ a[i].zone = NoZone
  BY <1>1 DEF Usable, IsValid
<1> QED
  BY <1>2, CanonicalAddress DEF NormalizeAddresses

\* The fields a rule has, by its kind.
LEMMA RawFields ==
  ASSUME NEW raw \in RawRule
  PROVE  /\ raw.kind \in {"exact", "wildcard", "address", "prefix", "bad"}
         /\ raw.kind \in {"exact", "wildcard"} => raw.hostname \in Host
         /\ raw.kind = "address" => raw.address \in NetAddr
         /\ raw.kind = "prefix" => raw.prefix \in SUBSET Addr
         /\ raw.kind # "bad" => raw.port \in PortMatcher
  BY DEF RawRule

\* Both loops run over sequences.
LEMMA ListLoops ==
  ASSUME TypeOK
  PROVE  \A l \in List : config[l] \in Seq(RawRule) /\ rules[l] \in RuleSet /\ rules[l].hosts \in Seq(HostRule)
<1>1. config \in [allow : Seq(RawRule), block : Seq(RawRule), allowUnresolved : BOOLEAN]
  BY PolicyNewAssumption DEF TypeOK
<1>2. \A l \in List : rules[l] \in RuleSet
  BY DEF TypeOK
<1> QED
  BY <1>1, <1>2 DEF List, RuleSet

\* ruleSet.add puts the rule in the set, takes none out of it and resolves none.
LEMMA AddEffect ==
  ASSUME NEW set \in RuleSet, NEW raw \in RawRule, ~Refused(raw)
  PROVE  LET new == Add(set, raw)
         IN  /\ new \in RuleSet
             /\ Accepted(new, raw)
             /\ \A r : Accepted(set, r) => Accepted(new, r)
             /\ \A j \in DOMAIN new.hosts :
                  new.hosts[j].resolved = {} \/ (j \in DOMAIN set.hosts /\ new.hosts[j] = set.hosts[j])
<1> DEFINE new == Add(set, raw)
<1> SUFFICES /\ new \in RuleSet
             /\ Accepted(new, raw)
             /\ \A r : Accepted(set, r) => Accepted(new, r)
             /\ \A j \in DOMAIN new.hosts :
                  new.hosts[j].resolved = {} \/ (j \in DOMAIN set.hosts /\ new.hosts[j] = set.hosts[j])
  OBVIOUS
<1>0. set.hosts \in Seq(HostRule) /\ set.addresses \in SUBSET AddressRule /\ set.prefixes \in SUBSET PrefixRule
  BY DEF RuleSet
<1>1. CASE raw.kind = "prefix"
  <2> DEFINE e == [prefix |-> raw.prefix, port |-> raw.port]
  <2>1. new = [set EXCEPT !.prefixes = @ \cup {e}]
    BY <1>1 DEF Add
  <2>2. e \in PrefixRule
    BY <1>1, RawFields DEF PrefixRule
  <2>3. new.hosts = set.hosts /\ new.addresses = set.addresses /\ new.prefixes = set.prefixes \cup {e}
    BY <2>1 DEF RuleSet
  <2>4. new \in RuleSet
    BY <1>0, <2>1, <2>2 DEF RuleSet
  <2>5. Accepted(new, raw)
    BY <1>1, <2>3 DEF Accepted
  <2>6. \A r : Accepted(set, r) => Accepted(new, r)
    BY <2>3 DEF Accepted
  <2> QED
    BY <2>3, <2>4, <2>5, <2>6
<1>2. CASE raw.kind = "address"
  <2> DEFINE e == [address |-> Unmap(raw.address), port |-> raw.port]
  <2>1. new = [set EXCEPT !.addresses = @ \cup {e}]
    BY <1>2 DEF Add
  <2>2. e \in AddressRule
    BY <1>2, RawFields, CanonicalAddress DEF AddressRule, Refused
  <2>3. new.hosts = set.hosts /\ new.prefixes = set.prefixes /\ new.addresses = set.addresses \cup {e}
    BY <2>1 DEF RuleSet
  <2>4. new \in RuleSet
    BY <1>0, <2>1, <2>2 DEF RuleSet
  <2>5. Accepted(new, raw)
    BY <1>2, <2>3 DEF Accepted
  <2>6. \A r : Accepted(set, r) => Accepted(new, r)
    BY <2>3 DEF Accepted
  <2> QED
    BY <2>3, <2>4, <2>5, <2>6
<1>3. CASE raw.kind \in {"exact", "wildcard"}
  <2> DEFINE e == [hostname |-> raw.hostname, wildcard |-> raw.kind = "wildcard", port |-> raw.port, resolved |-> {}]
  <2>1. new = [set EXCEPT !.hosts = Append(@, e)]
    BY <1>3 DEF Add
  <2>2. e \in HostRule
    <3>1. (raw.kind = "wildcard") \in BOOLEAN /\ {} \in SUBSET CanonicalAddr
      OBVIOUS
    <3>2. raw.hostname \in Host /\ raw.port \in PortMatcher
      BY <1>3, RawFields
    <3> QED
      BY <3>1, <3>2 DEF HostRule
  <2>3. new.hosts = Append(set.hosts, e) /\ new.prefixes = set.prefixes /\ new.addresses = set.addresses
    BY <2>1 DEF RuleSet
  <2> HIDE DEF e
  <2>4. /\ new.hosts \in Seq(HostRule) /\ DOMAIN new.hosts = DOMAIN set.hosts \cup {Len(set.hosts) + 1}
        /\ new.hosts[Len(set.hosts) + 1] = e
        /\ \A j \in DOMAIN set.hosts : new.hosts[j] = set.hosts[j]
    BY <1>0, <2>2, <2>3
  <2>5. new \in RuleSet
    BY <1>0, <2>1, <2>3, <2>4 DEF RuleSet
  <2>6. Accepted(new, raw)
    BY <1>3, <2>4 DEF Accepted, e
  <2>7. ASSUME NEW r, Accepted(set, r) PROVE Accepted(new, r)
    <3>1. new.prefixes = set.prefixes /\ new.addresses = set.addresses
      BY <2>3
    <3>2. ASSUME r.kind \in {"exact", "wildcard"}
          PROVE  \E j \in DOMAIN new.hosts :
                   /\ new.hosts[j].hostname = r.hostname /\ new.hosts[j].port = r.port
                   /\ new.hosts[j].wildcard = (r.kind = "wildcard")
      <4>1. PICK j \in DOMAIN set.hosts :
              /\ set.hosts[j].hostname = r.hostname /\ set.hosts[j].port = r.port
              /\ set.hosts[j].wildcard = (r.kind = "wildcard")
        BY <2>7, <3>2 DEF Accepted
      <4> QED
        BY <2>4, <4>1
    <3> HIDE DEF new
    <3> QED
      BY <2>7, <3>1, <3>2 DEF Accepted
  <2>8. e.resolved = {}
    BY DEF e
  <2>9. \A j \in DOMAIN new.hosts :
          new.hosts[j].resolved = {} \/ (j \in DOMAIN set.hosts /\ new.hosts[j] = set.hosts[j])
    BY <2>4, <2>8
  <2> HIDE DEF new
  <2> QED
    BY <2>5, <2>6, <2>7, <2>9
<1> QED
  BY <1>1, <1>2, <1>3, RawFields DEF Refused

\* ruleSet.add puts nothing else in the set.
LEMMA AddWritten ==
  ASSUME NEW set \in RuleSet, NEW written \in Seq(RawRule), NEW k \in DOMAIN written,
         ~Refused(written[k]), Written(written, set)
  PROVE  Written(written, Add(set, written[k]))
<1> DEFINE raw == written[k]
           new == Add(set, raw)
<1>0. set.hosts \in Seq(HostRule) /\ raw \in RawRule
  BY DEF RuleSet
<1>1. CASE raw.kind = "prefix"
  <2> DEFINE e == [prefix |-> raw.prefix, port |-> raw.port]
  <2>1. new.hosts = set.hosts /\ new.addresses = set.addresses /\ new.prefixes = set.prefixes \cup {e}
    BY <1>1 DEF Add, RuleSet
  <2> HIDE DEF new
  <2> QED
    BY <1>1, <2>1 DEF Written, new
<1>2. CASE raw.kind = "address"
  <2> DEFINE e == [address |-> Unmap(raw.address), port |-> raw.port]
  <2>1. new.hosts = set.hosts /\ new.prefixes = set.prefixes /\ new.addresses = set.addresses \cup {e}
    BY <1>2 DEF Add, RuleSet
  <2> HIDE DEF new
  <2> QED
    BY <1>2, <2>1 DEF Written, new
<1>3. CASE raw.kind \in {"exact", "wildcard"}
  <2> DEFINE e == [hostname |-> raw.hostname, wildcard |-> raw.kind = "wildcard",
                   port |-> raw.port, resolved |-> {}]
  <2>1. new.prefixes = set.prefixes /\ new.addresses = set.addresses /\ new.hosts = Append(set.hosts, e)
    BY <1>3 DEF Add, RuleSet
  <2>2. SameHost(raw, e)
    BY <1>3 DEF SameHost
  <2> HIDE DEF e, new
  <2>3. \A j \in DOMAIN new.hosts : new.hosts[j] = e \/ (j \in DOMAIN set.hosts /\ new.hosts[j] = set.hosts[j])
    BY <1>0, <2>1
  <2> QED
    BY <2>1, <2>2, <2>3 DEF Written, new
<1> QED
  BY <1>0, <1>1, <1>2, <1>3, RawFields DEF Refused

\* The assignment to rule.resolved changes this field of this rule and no other.
LEMMA ExpandEffect ==
  ASSUME TypeOK, Expand
  PROVE  /\ rules' \in [List -> RuleSet]
         /\ \A l \in List :
              /\ rules'[l].addresses = rules[l].addresses /\ rules'[l].prefixes = rules[l].prefixes
              /\ DOMAIN rules'[l].hosts = DOMAIN rules[l].hosts
              /\ \A j \in DOMAIN rules[l].hosts :
                   /\ rules'[l].hosts[j].hostname = rules[l].hosts[j].hostname
                   /\ rules'[l].hosts[j].wildcard = rules[l].hosts[j].wildcard
                   /\ rules'[l].hosts[j].port = rules[l].hosts[j].port
                   /\ rules'[l].hosts[j].resolved =
                        IF l = list /\ j = index THEN Snapshot.addresses ELSE rules[l].hosts[j].resolved
<1> DEFINE addresses == Snapshot.addresses
           old == rules[list]
           host == [old.hosts[index] EXCEPT !.resolved = addresses]
           hosts == [old.hosts EXCEPT ![index] = host]
           set == [old EXCEPT !.hosts = hosts]
<1>1. /\ list \in List /\ index \in DOMAIN old.hosts /\ rules \in [List -> RuleSet]
      /\ old \in RuleSet /\ old.hosts \in Seq(HostRule) /\ old.hosts[index] \in HostRule
  <2>1. list \in List /\ index \in DOMAIN old.hosts /\ rules \in [List -> RuleSet]
    BY DEF Expand, Cached, Resolving, TypeOK
  <2>2. old \in RuleSet /\ old.hosts \in Seq(HostRule)
    BY <2>1, ListLoops
  <2>3. old.hosts[index] \in HostRule
    BY <2>1, <2>2
  <2> QED
    BY <2>1, <2>2, <2>3
<1>2. rules' = [rules EXCEPT ![list] = set]
  BY DEF Expand
<1>3. addresses \in SUBSET CanonicalAddr
  <2>1. Rule.hostname \in DOMAIN cache
    BY DEF Expand, Cached
  <2>2. cache[Rule.hostname] \in [err : BOOLEAN, addresses : SUBSET CanonicalAddr]
    BY <2>1 DEF TypeOK
  <2> QED
    BY <2>2 DEF Snapshot
<1> HIDE DEF addresses
<1>4. /\ host \in HostRule /\ host.resolved = addresses
      /\ host.hostname = old.hosts[index].hostname /\ host.wildcard = old.hosts[index].wildcard
      /\ host.port = old.hosts[index].port
  BY <1>1, <1>3 DEF HostRule
<1> HIDE DEF host
<1>5. /\ hosts \in Seq(HostRule) /\ DOMAIN hosts = DOMAIN old.hosts /\ hosts[index] = host
      /\ \A j \in DOMAIN old.hosts : j # index => hosts[j] = old.hosts[j]
  BY <1>1, <1>4
<1> HIDE DEF hosts
<1>6. set \in RuleSet /\ set.hosts = hosts /\ set.addresses = old.addresses /\ set.prefixes = old.prefixes
  BY <1>1, <1>5 DEF RuleSet
<1> HIDE DEF set, old
<1>7. rules' \in [List -> RuleSet] /\ rules'[list] = set /\ \A l \in List : l # list => rules'[l] = rules[l]
  BY <1>1, <1>2, <1>6
<1>8. ASSUME NEW l \in List
      PROVE  /\ rules'[l].addresses = rules[l].addresses /\ rules'[l].prefixes = rules[l].prefixes
             /\ DOMAIN rules'[l].hosts = DOMAIN rules[l].hosts
             /\ \A j \in DOMAIN rules[l].hosts :
                  /\ rules'[l].hosts[j].hostname = rules[l].hosts[j].hostname
                  /\ rules'[l].hosts[j].wildcard = rules[l].hosts[j].wildcard
                  /\ rules'[l].hosts[j].port = rules[l].hosts[j].port
                  /\ rules'[l].hosts[j].resolved =
                       IF l = list /\ j = index THEN addresses ELSE rules[l].hosts[j].resolved
  <2>1. CASE l = list
    BY <1>4, <1>5, <1>6, <1>7, <2>1 DEF old
  <2>2. CASE l # list
    BY <1>7, <2>2
  <2> QED
    BY <2>1, <2>2
<1> QED
  BY <1>7, <1>8 DEF addresses

-------------------------------------------------------------------------------
(* Each part of the invariant holds initially and is preserved *)

\* New starts in a state of its types.
LEMMA NewTypeInit == Init => TypeOK
<1> SUFFICES ASSUME Init PROVE TypeOK
  OBVIOUS
<1>1. NoRules \in RuleSet
  BY DEF NoRules, RuleSet
<1> QED
  BY <1>1 DEF Init, TypeOK, List

\* A lookup adds one entry to the cache and changes none.
LEMMA LookupEffect ==
  ASSUME TypeOK, Lookup
  PROVE  /\ DOMAIN cache' = DOMAIN cache \cup {Rule.hostname} /\ Rule.hostname \in Host \ DOMAIN cache
         /\ \A h \in DOMAIN cache : cache'[h] = cache[h]
         /\ cache'[Rule.hostname] \in [err : BOOLEAN, addresses : SUBSET CanonicalAddr]
         /\ cache'[Rule.hostname].err => cache'[Rule.hostname].addresses = {}
<1> DEFINE name == Rule.hostname
<1>1. name \in Host \ DOMAIN cache
  <2>1. list \in List /\ index \in DOMAIN rules[list].hosts /\ name \notin DOMAIN cache
    BY DEF Lookup, Resolving, TypeOK
  <2>2. rules[list].hosts[index] \in HostRule
    BY <2>1, ListLoops
  <2> QED
    BY <2>1, <2>2 DEF Rule, HostRule
<1>2. PICK result \in {[err |-> FALSE, addresses |-> NormalizeAddresses(a)] : a \in Answers} \cup {Failed} :
        cache' = [h \in DOMAIN cache \cup {name} |-> IF h = name THEN result ELSE cache[h]]
  BY DEF Lookup
<1>3. result \in [err : BOOLEAN, addresses : SUBSET CanonicalAddr] /\ (result.err => result.addresses = {})
  <2>1. CASE result = Failed
    BY <2>1 DEF Failed
  <2>2. CASE result # Failed
    <3>1. PICK a \in Answers : result = [err |-> FALSE, addresses |-> NormalizeAddresses(a)]
      BY <1>2, <2>2
    <3>2. NormalizeAddresses(a) \in SUBSET CanonicalAddr
      BY NormalizedAddresses
    <3> QED
      BY <3>1, <3>2
  <2> QED
    BY <2>1, <2>2
<1> HIDE DEF name
<1>4. DOMAIN cache' = DOMAIN cache \cup {name} /\ cache'[name] = result /\ \A h \in DOMAIN cache : cache'[h] = cache[h]
  BY <1>1, <1>2
<1> QED
  BY <1>1, <1>3, <1>4 DEF name

\* Every step of New keeps the types.
LEMMA NewTypeStep == TypeOK /\ [Next]_vars => TypeOK'
<1> SUFFICES ASSUME TypeOK, [Next]_vars PROVE TypeOK'
  OBVIOUS
<1>1. CASE Parse
  <2>1. list \in List /\ Raw \in RawRule /\ rules[list] \in RuleSet /\ ~Refused(Raw)
    BY <1>1, ListLoops DEF Parse, Parsing, Raw, TypeOK
  <2>2. Add(rules[list], Raw) \in RuleSet
    BY <2>1, AddEffect
  <2>3. rules' \in [List -> RuleSet]
    BY <1>1, <2>1, <2>2 DEF Parse, TypeOK
  <2> QED
    BY <1>1, <2>3 DEF Parse, TypeOK
<1>2. CASE Refuse
  BY <1>2 DEF Refuse, TypeOK
<1>3. CASE ListParsed \/ ListResolved
  BY <1>3 DEF ListParsed, ListResolved, TypeOK, List
<1>4. CASE SkipWildcard \/ Tolerate
  BY <1>4 DEF SkipWildcard, Tolerate, TypeOK
<1>5. CASE Lookup
  BY <1>5, LookupEffect DEF Lookup, TypeOK
<1>6. CASE Expand
  <2>1. rules' \in [List -> RuleSet]
    BY <1>6, ExpandEffect
  <2> QED
    BY <1>6, <2>1 DEF Expand, TypeOK
<1>7. CASE Abort
  BY <1>7 DEF Abort, TypeOK
<1>8. CASE UNCHANGED vars
  BY <1>8 DEF vars, TypeOK
<1> QED
  BY <1>1, <1>2, <1>3, <1>4, <1>5, <1>6, <1>7, <1>8 DEF Next
\* No step caches a failure with addresses.
LEMMA CacheStep == TypeOK /\ CacheOK /\ [Next]_vars => CacheOK'
<1> SUFFICES ASSUME TypeOK, CacheOK, [Next]_vars PROVE CacheOK'
  OBVIOUS
<1>1. CASE Lookup
  BY <1>1, LookupEffect DEF CacheOK
<1>2. CASE ~Lookup
  BY <1>2 DEF CacheOK, Next, vars, Parse, Refuse, ListParsed, SkipWildcard, Expand, Tolerate,
              Abort, ListResolved
<1> QED
  BY <1>1, <1>2

\* No step loses a rule that was parsed: only the parsing itself moves the loop on,
\* and the resolving changes neither name, nor port, nor kind.
LEMMA ParsedStep ==
  ASSUME TypeOK, [Next]_vars, NEW l \in List, ParsedOK(l)
  PROVE  ParsedOK(l)'
<1> SUFFICES ASSUME NEW i \in DOMAIN config'[l], IsParsed(l, i)'
             PROVE  Accepted(rules'[l], config'[l][i])
  BY DEF ParsedOK
<1>1. config' = config /\ i \in DOMAIN config[l] /\ config[l] \in Seq(RawRule) /\ list \in List
  BY ListLoops DEF Next, vars, Parse, Refuse, ListParsed, SkipWildcard, Lookup, Expand, Tolerate,
                   Abort, ListResolved, TypeOK
<1>2. i \in Nat \ {0} /\ i <= Len(config[l]) /\ config[l][i] \in RawRule
  BY <1>1
<1>3. index \in Nat \ {0} /\ (index \notin DOMAIN config[l] => i < index)
  BY <1>1, <1>2 DEF TypeOK
<1>4. IsParsed(l, i) => Accepted(rules[l], config[l][i])
  BY <1>1 DEF ParsedOK
<1>5. CASE Parse
  <2>1. pc = "parse" /\ index \in DOMAIN config[list] /\ ~Refused(Raw) /\ pc' = pc /\ list' = list /\ index' = index + 1
        /\ rules' = [rules EXCEPT ![list] = Add(rules[list], Raw)]
    BY <1>5 DEF Parse, Parsing
  <2>2. rules[list] \in RuleSet /\ Raw \in RawRule /\ rules \in [List -> RuleSet]
    BY <1>1, <2>1, ListLoops DEF Raw, TypeOK
  <2>3. CASE l = list
    <3>1. rules'[l] = Add(rules[list], Raw)
      BY <2>1, <2>2, <2>3
    <3>2. CASE i = index
      BY <1>1, <2>1, <2>2, <2>3, <3>1, <3>2, AddEffect DEF Raw
    <3>3. CASE i # index
      <4>1. IsParsed(l, i)
        BY <1>2, <1>3, <2>1, <2>3, <3>3 DEF IsParsed
      <4> QED
        BY <1>1, <1>4, <2>1, <2>2, <2>3, <3>1, <4>1, AddEffect
    <3> QED
      BY <3>2, <3>3
  <2>4. CASE l # list
    BY <1>1, <1>4, <2>1, <2>2, <2>4 DEF IsParsed
  <2> QED
    BY <2>3, <2>4
<1>6. CASE ListParsed
  <2>1. rules' = rules
    BY <1>6 DEF ListParsed
  <2>2. IsParsed(l, i)
    BY <1>1, <1>2, <1>3, <1>6 DEF ListParsed, IsParsed, List
  <2> QED
    BY <1>1, <1>4, <2>1, <2>2
<1>7. CASE Refuse \/ Abort
  BY <1>7 DEF Refuse, Abort, IsParsed
<1>8. CASE Expand
  <2>1. IsParsed(l, i)
    BY <1>8 DEF Expand, Cached, Resolving, IsParsed
  <2>2. Accepted(rules[l], config[l][i])
    BY <1>4, <2>1
  <2>3. ASSUME config[l][i].kind \in {"exact", "wildcard"}
        PROVE  \E j \in DOMAIN rules'[l].hosts :
                 /\ rules'[l].hosts[j].hostname = config[l][i].hostname
                 /\ rules'[l].hosts[j].port = config[l][i].port
                 /\ rules'[l].hosts[j].wildcard = (config[l][i].kind = "wildcard")
    <3>1. PICK j \in DOMAIN rules[l].hosts :
            /\ rules[l].hosts[j].hostname = config[l][i].hostname
            /\ rules[l].hosts[j].port = config[l][i].port
            /\ rules[l].hosts[j].wildcard = (config[l][i].kind = "wildcard")
      BY <2>2, <2>3 DEF Accepted
    <3> QED
      BY <1>8, <3>1, ExpandEffect
  <2>4. rules'[l].addresses = rules[l].addresses /\ rules'[l].prefixes = rules[l].prefixes
    BY <1>8, ExpandEffect
  <2> QED
    BY <1>1, <2>2, <2>3, <2>4 DEF Accepted
<1>9. CASE SkipWildcard \/ Lookup \/ Tolerate \/ ListResolved \/ UNCHANGED vars
  <2>1. rules' = rules
    BY <1>9 DEF SkipWildcard, Lookup, Tolerate, ListResolved, vars
  <2>2. IsParsed(l, i)
    BY <1>9 DEF SkipWildcard, Lookup, Tolerate, ListResolved, vars, IsParsed, Cached, Resolving,
                Tolerated
  <2> QED
    BY <1>1, <1>4, <2>1, <2>2
<1> QED
  BY <1>5, <1>6, <1>7, <1>8, <1>9 DEF Next

\* No step puts a rule in a set that is not written.
LEMMA WrittenStep ==
  ASSUME TypeOK, [Next]_vars, NEW l \in List, Written(config[l], rules[l])
  PROVE  Written(config'[l], rules'[l])
<1>1. config' = config /\ config[l] \in Seq(RawRule) /\ list \in List /\ rules \in [List -> RuleSet]
  BY ListLoops DEF Next, vars, Parse, Refuse, ListParsed, SkipWildcard, Lookup, Expand, Tolerate,
                   Abort, ListResolved, TypeOK
<1>2. CASE Parse
  <2>1. index \in DOMAIN config[list] /\ ~Refused(Raw) /\ rules' = [rules EXCEPT ![list] = Add(rules[list], Raw)]
    BY <1>2 DEF Parse, Parsing
  <2>2. CASE l = list
    BY <1>1, <2>1, <2>2, AddWritten DEF Raw
  <2>3. CASE l # list
    BY <1>1, <2>1, <2>3
  <2> QED
    BY <2>2, <2>3
<1>3. CASE Expand
  BY <1>1, <1>3, ExpandEffect DEF Written, SameHost
<1>4. CASE ~Parse /\ ~Expand
  <2>1. rules' = rules
    BY <1>4 DEF Next, vars, Refuse, ListParsed, SkipWildcard, Lookup, Tolerate, Abort, ListResolved
  <2> QED
    BY <1>1, <2>1
<1> QED
  BY <1>2, <1>3, <1>4

\* No step leaves a rule behind with other addresses than its snapshot's, and no
\* entry of the cache changes under a rule that was resolved from it.
LEMMA HostStep ==
  ASSUME TypeOK, CacheOK, [Next]_vars,
         \A k \in List : \A i \in DOMAIN rules[k].hosts : HostOK(k, i),
         NEW l \in List, NEW j \in DOMAIN rules'[l].hosts
  PROVE  HostOK(l, j)'
<1>1. list \in List /\ rules \in [List -> RuleSet] /\ index \in Nat \ {0} /\ rules[l].hosts \in Seq(HostRule)
  BY ListLoops DEF TypeOK
<1>2. CASE Parse
  <2>1. pc = "parse" /\ pc' = pc
    BY <1>2 DEF Parse, Parsing
  <2>2. rules' = [rules EXCEPT ![list] = Add(rules[list], Raw)] /\ ~Refused(Raw)
    BY <1>2 DEF Parse
  <2>3. rules[list] \in RuleSet /\ Raw \in RawRule
    BY <1>1, <1>2, ListLoops DEF Parse, Parsing, Raw
  <2>4. \A k \in List : \A i \in DOMAIN rules[k].hosts : rules[k].hosts[i].resolved = {}
    BY <2>1 DEF HostOK, IsResolved
  <2>5. rules'[l].hosts[j].resolved = {}
    <3>1. CASE l = list
      <4>1. rules'[l] = Add(rules[list], Raw)
        BY <1>1, <2>2, <3>1
      <4>2. \/ rules'[l].hosts[j].resolved = {}
            \/ j \in DOMAIN rules[list].hosts /\ rules'[l].hosts[j] = rules[list].hosts[j]
        BY <2>2, <2>3, <4>1, AddEffect
      <4> QED
        BY <1>1, <2>4, <4>2
    <3>2. CASE l # list
      BY <1>1, <2>2, <2>4, <3>2
    <3> QED
      BY <3>1, <3>2
  <2> QED
    BY <2>1, <2>5 DEF HostOK, IsResolved
<1>3. CASE Refuse \/ Abort
  BY <1>3 DEF Refuse, Abort, HostOK, IsResolved
<1>4. ASSUME rules' = rules
      PROVE  /\ j \in DOMAIN rules[l].hosts /\ j \in Nat \ {0} /\ HostOK(l, j)
             /\ index \notin DOMAIN rules[l].hosts => j < index
  BY <1>1, <1>4
<1>5. CASE ListParsed
  <2>1. rules' = rules /\ cache' = cache /\ index' = 1 /\ pc = "parse"
    BY <1>5 DEF ListParsed
  <2>2. ~IsResolved(l, j) /\ ~IsResolved(l, j)'
    BY <1>1, <1>4, <1>5, <2>1 DEF ListParsed, IsResolved
  <2> QED
    BY <1>4, <2>1, <2>2 DEF HostOK
<1>6. CASE ListResolved
  <2>1. rules' = rules /\ cache' = cache /\ config' = config /\ pc = "resolve"
    BY <1>6 DEF ListResolved
  <2>2. IsResolved(l, j)' = IsResolved(l, j)
    BY <1>1, <1>4, <1>6, <2>1 DEF ListResolved, IsResolved, List
  <2> QED
    BY <1>4, <2>1, <2>2 DEF HostOK
<1>7. CASE Lookup
  <2>1. rules' = rules /\ config' = config /\ pc' = pc /\ list' = list /\ index' = index
    BY <1>7 DEF Lookup
  <2>2. IsResolved(l, j)' = IsResolved(l, j)
    BY <2>1 DEF IsResolved
  <2>3. \A h \in DOMAIN cache : h \in DOMAIN cache' /\ cache'[h] = cache[h]
    BY <1>7, LookupEffect
  <2> QED
    BY <1>4, <2>1, <2>2, <2>3 DEF HostOK
<1>8. CASE SkipWildcard
  <2>1. rules' = rules /\ cache' = cache /\ config' = config /\ pc' = pc /\ list' = list /\ index' = index + 1
        /\ pc = "resolve" /\ rules[list].hosts[index].wildcard
    BY <1>8 DEF SkipWildcard, Resolving, Rule
  <2>2. CASE l = list /\ j = index
    <3>1. IsResolved(l, j)'
      BY <1>1, <2>1, <2>2 DEF IsResolved
    <3> QED
      BY <2>1, <2>2, <3>1 DEF HostOK
  <2>3. CASE ~(l = list /\ j = index)
    <3>1. IsResolved(l, j)' = IsResolved(l, j)
      BY <1>1, <1>4, <2>1, <2>3 DEF IsResolved
    <3> QED
      BY <1>4, <2>1, <3>1 DEF HostOK
  <2> QED
    BY <2>2, <2>3
<1>9. CASE Tolerate
  <2>1. rules' = rules /\ cache' = cache /\ config' = config /\ pc' = pc /\ list' = list /\ index' = index + 1
        /\ pc = "resolve" /\ config.allowUnresolved
    BY <1>9 DEF Tolerate, Tolerated, Cached, Resolving
  <2>2. CASE l = list /\ j = index
    <3>1. Rule = rules[l].hosts[j]
      BY <2>2 DEF Rule
    <3>2. Rule.hostname \in DOMAIN cache /\ ~Resolved
      BY <1>9 DEF Tolerate, Tolerated, Cached
    <3>3. cache[Rule.hostname].addresses = {}
      <4>1. cache[Rule.hostname].err \in BOOLEAN
        BY <3>2 DEF TypeOK
      <4> QED
        BY <3>2, <4>1 DEF CacheOK, Resolved, Snapshot
    <3>4. Rule.resolved = {}
      <4>1. ~IsResolved(l, j)
        BY <1>1, <2>1, <2>2 DEF IsResolved
      <4> QED
        BY <1>4, <2>1, <3>1, <4>1 DEF HostOK
    <3>5. IsResolved(l, j)'
      BY <1>1, <2>1, <2>2 DEF IsResolved
    <3> QED
      BY <2>1, <3>1, <3>2, <3>3, <3>4, <3>5 DEF HostOK
  <2>3. CASE ~(l = list /\ j = index)
    <3>1. IsResolved(l, j)' = IsResolved(l, j)
      BY <1>1, <1>4, <2>1, <2>3 DEF IsResolved
    <3> QED
      BY <1>4, <2>1, <3>1 DEF HostOK
  <2> QED
    BY <2>2, <2>3
<1>10. CASE Expand
  <2>1. cache' = cache /\ config' = config /\ pc' = pc /\ list' = list /\ index' = index + 1 /\ pc = "resolve"
    BY <1>10 DEF Expand, Cached, Resolving
  <2>2. /\ j \in DOMAIN rules[l].hosts /\ j \in Nat \ {0}
        /\ rules'[l].hosts[j].hostname = rules[l].hosts[j].hostname
        /\ rules'[l].hosts[j].wildcard = rules[l].hosts[j].wildcard
        /\ rules'[l].hosts[j].resolved =
             IF l = list /\ j = index THEN Snapshot.addresses ELSE rules[l].hosts[j].resolved
    BY <1>1, <1>10, ExpandEffect
  <2>3. HostOK(l, j)
    BY <2>2
  <2>4. CASE l = list /\ j = index
    <3>1. rules[l].hosts[j].hostname \in DOMAIN cache
          /\ Snapshot = cache[rules[l].hosts[j].hostname] /\ Snapshot.addresses # {}
          /\ ~rules[l].hosts[j].wildcard
      BY <1>10, <2>4 DEF Expand, Cached, Resolved, Snapshot, Rule
    <3>2. IsResolved(l, j)'
      BY <1>1, <2>1, <2>4 DEF IsResolved
    <3> QED
      BY <2>1, <2>2, <2>4, <3>1, <3>2 DEF HostOK
  <2>5. CASE ~(l = list /\ j = index)
    <3>1. IsResolved(l, j)' = IsResolved(l, j)
      BY <1>1, <2>1, <2>2, <2>5 DEF IsResolved
    <3> QED
      BY <2>1, <2>2, <2>3, <2>5, <3>1 DEF HostOK
  <2> QED
    BY <2>4, <2>5
<1>11. CASE UNCHANGED vars
  <2>1. rules' = rules
    BY <1>11 DEF vars
  <2> QED
    BY <1>4, <1>11, <2>1 DEF vars, HostOK, IsResolved
<1> QED
  BY <1>2, <1>3, <1>5, <1>6, <1>7, <1>8, <1>9, <1>10, <1>11 DEF Next

\* The invariant holds before the first rule is parsed.
LEMMA NewInit == Init => NewInvariant
<1> SUFFICES ASSUME Init PROVE NewInvariant
  OBVIOUS
<1>1. TypeOK
  BY NewTypeInit
<1>2. CacheOK
  BY DEF Init, CacheOK
<1>3. ASSUME NEW l \in List PROVE ParsedOK(l)
  <2>1. config[l] \in Seq(RawRule)
    BY <1>1, ListLoops
  <2>2. \A i \in DOMAIN config[l] : ~(i < 1)
    BY <2>1
  <2> QED
    BY <2>2 DEF Init, ParsedOK, IsParsed
<1>4. ASSUME NEW l \in List PROVE DOMAIN rules[l].hosts = {} /\ Written(config[l], rules[l])
  <2>1. rules[l] = NoRules /\ DOMAIN <<>> = {}
    BY DEF Init
  <2> QED
    BY <2>1 DEF NoRules, Written
<1> QED
  BY <1>1, <1>2, <1>3, <1>4 DEF NewInvariant

-------------------------------------------------------------------------------
(* The theorems *)

\* policy.New keeps its inductive invariant, whatever it is started with and
\* whatever the resolver answers.
THEOREM NewInvariantHolds == Spec => []NewInvariant
<1>1. Init => NewInvariant
  BY NewInit
<1>2. NewInvariant /\ [Next]_vars => NewInvariant'
  <2> SUFFICES ASSUME NewInvariant, [Next]_vars PROVE NewInvariant'
    OBVIOUS
  <2>1. TypeOK /\ CacheOK /\ TypeOK' /\ CacheOK'
    BY NewTypeStep, CacheStep DEF NewInvariant
  <2>2. ASSUME NEW l \in List PROVE ParsedOK(l)'
    BY <2>1, ParsedStep DEF NewInvariant
  <2>3. ASSUME NEW l \in List, NEW j \in DOMAIN rules'[l].hosts PROVE HostOK(l, j)'
    BY <2>1, HostStep DEF NewInvariant
  <2>4. ASSUME NEW l \in List PROVE Written(config'[l], rules'[l])
    BY <2>1, WrittenStep DEF NewInvariant
  <2> QED
    BY <2>1, <2>2, <2>3, <2>4 DEF NewInvariant
<1> QED
  BY <1>1, <1>2, PTL DEF Spec

\* What the invariant says of an exact rule of the policy that was built.
LEMMA BuiltRule ==
  ASSUME NewInvariant, pc = "built", NEW r \in ExactRules
  PROVE  /\ r.hostname \in DOMAIN cache
         /\ r.resolved = cache[r.hostname].addresses
         /\ r.resolved # {} \/ config.allowUnresolved
<1>1. PICK l \in List : \E k \in DOMAIN rules[l].hosts : r = rules[l].hosts[k] /\ ~r.wildcard
  BY DEF ExactRules
<1>2. PICK j \in DOMAIN rules[l].hosts : r = rules[l].hosts[j] /\ ~r.wildcard
  BY <1>1
<1>3. HostOK(l, j)
  BY DEF NewInvariant
<1> QED
  BY <1>2, <1>3 DEF HostOK, IsResolved

\* Two exact rules for one hostname hold the same addresses in every policy that
\* New returns: the shared lookup cache, across both lists.
THEOREM OneSnapshot == Spec => []OneSnapshotPerHostname
<1>1. NewInvariant => OneSnapshotPerHostname
  BY BuiltRule DEF OneSnapshotPerHostname, NewInvariant
<1> QED
  BY <1>1, NewInvariantHolds, PTL

\* New returns no policy with an exact rule that covers no address, unless
\* AllowUnresolved is set.
THEOREM NoSilentRule == Spec => []NoRuleSilentlyUnresolved
<1>1. NewInvariant => NoRuleSilentlyUnresolved
  BY BuiltRule DEF NoRuleSilentlyUnresolved
<1> QED
  BY <1>1, NewInvariantHolds, PTL

\* The wildcard's test from the end of the name finds the names below its own.
LEMMA Below ==
  ASSUME NEW name \in Host, NEW hostname \in Host \cup {NoHost}
  PROVE  (Len(hostname) > Len(name)
            /\ \A n \in 1..Len(name) : hostname[(Len(hostname) - Len(name)) + n] = name[n])
         <=> \E k \in 1..(Len(hostname) - 1) : SubSeq(hostname, k + 1, Len(hostname)) = name
<1>1. name \in Seq(Label) /\ Len(name) \in Nat \ {0} /\ hostname \in Seq(Label) /\ Len(hostname) \in Nat
  <2>1. <<>> \in Seq(Label) /\ \A s \in Seq(Label) : s # <<>> => Len(s) \in Nat \ {0}
    BY EmptySeq
  <2>2. name \in Seq(Label) /\ name # <<>> /\ hostname \in Seq(Label)
    BY <2>1, PolicyAssumption, Zenon DEF NoHost
  <2> QED
    BY <2>1, <2>2, LenProperties
<1> DEFINE k0 == Len(hostname) - Len(name)
           suffix(k) == SubSeq(hostname, k + 1, Len(hostname))
<1>2. ASSUME NEW k \in 1..(Len(hostname) - 1)
      PROVE  /\ suffix(k) \in Seq(Label) /\ Len(suffix(k)) = Len(hostname) - k
             /\ \A n \in 1..(Len(hostname) - k) : suffix(k)[n] = hostname[k + n]
  BY <1>1
<1> HIDE DEF suffix
<1>3. ASSUME NEW k \in 1..(Len(hostname) - 1), suffix(k) = name
      PROVE  k = k0 /\ Len(hostname) > Len(name) /\ \A n \in 1..Len(name) : hostname[k0 + n] = name[n]
  <2>1. Len(suffix(k)) = Len(hostname) - k /\ \A n \in 1..(Len(hostname) - k) : suffix(k)[n] = hostname[k + n]
    BY <1>2
  <2>2. Len(name) = Len(hostname) - k /\ \A n \in 1..(Len(hostname) - k) : name[n] = hostname[k + n]
    BY <1>3, <2>1
  <2>3. k = k0 /\ Len(hostname) > Len(name)
    BY <1>1, <2>2
  <2> QED
    BY <2>2, <2>3
<1>4. ASSUME Len(hostname) > Len(name), \A n \in 1..Len(name) : hostname[k0 + n] = name[n]
      PROVE  k0 \in 1..(Len(hostname) - 1) /\ suffix(k0) = name
  <2>1. k0 \in 1..(Len(hostname) - 1) /\ Len(hostname) - k0 = Len(name)
    BY <1>1, <1>4
  <2> HIDE DEF k0
  <2>2. Len(suffix(k0)) = Len(name) /\ \A n \in 1..Len(name) : suffix(k0)[n] = name[n]
    BY <1>2, <1>4, <2>1
  <2>3. suffix(k0) \in Seq(Label)
    BY <1>2, <2>1
  <2>4. suffix(k0) = name
    BY <1>1, <2>2, <2>3, SeqEqual
  <2> QED
    BY <2>1, <2>4
<1> QED
  BY <1>3, <1>4 DEF suffix

\* What the invariant says of the rules on a list of the policy that was built: the
\* ones that are written are in the set, those in the set are written.
LEMMA BuiltList ==
  ASSUME NewInvariant, pc = "built", NEW l \in List
  PROVE  /\ config[l] \in Seq(RawRule) /\ rules[l] \in RuleSet
         /\ Written(config[l], rules[l])
         /\ \A i \in DOMAIN config[l] : Accepted(rules[l], config[l][i]) /\ config[l][i] \in RawRule
         /\ \A j \in DOMAIN rules[l].hosts :
              LET host == rules[l].hosts[j]
              IN  /\ host.hostname \in Host /\ host.wildcard \in BOOLEAN
                  /\ host.resolved = IF host.wildcard THEN {} ELSE cache[host.hostname].addresses
<1>1. TypeOK /\ ParsedOK(l) /\ Written(config[l], rules[l])
  BY DEF NewInvariant
<1>2. config[l] \in Seq(RawRule) /\ rules[l] \in RuleSet /\ rules[l].hosts \in Seq(HostRule)
  BY <1>1, ListLoops
<1>3. ASSUME NEW j \in DOMAIN rules[l].hosts
      PROVE  /\ rules[l].hosts[j].hostname \in Host /\ rules[l].hosts[j].wildcard \in BOOLEAN
             /\ rules[l].hosts[j].resolved =
                  IF rules[l].hosts[j].wildcard THEN {} ELSE cache[rules[l].hosts[j].hostname].addresses
  <2>1. HostOK(l, j) /\ IsResolved(l, j)
    BY DEF NewInvariant, IsResolved
  <2>2. rules[l].hosts[j] \in HostRule
    BY <1>2
  <2> QED
    BY <2>1, <2>2 DEF HostOK, HostRule
<1> QED
  BY <1>1, <1>2, <1>3 DEF ParsedOK, IsParsed

\* A rule that is kept covers what the one it was written as does.
LEMMA HostCovers ==
  ASSUME NewInvariant, pc = "built", NEW l \in List, NEW i \in DOMAIN config[l],
         NEW j \in DOMAIN rules[l].hosts, SameHost(config[l][i], rules[l].hosts[j]),
         NEW hostname \in Host \cup {NoHost}, NEW address \in CanonicalAddr \cup {NoAddr}, NEW port \in Port
  PROVE  LET host == rules[l].hosts[j]
         IN  Covers(config[l][i], hostname, address, port) <=>
               /\ PortMatches(host.port, port)
               /\ \/ hostname # NoHost /\ MatchesHostname(host, hostname)
                  \/ IsValid(address) /\ address \in host.resolved
<1> DEFINE host == rules[l].hosts[j]
           raw == config[l][i]
<1>1. host.hostname \in Host /\ host.wildcard \in BOOLEAN /\ host.hostname # NoHost
      /\ host.resolved = IF host.wildcard THEN {} ELSE cache[host.hostname].addresses
  BY BuiltList, PolicyAssumption DEF NoHost
<1>2. /\ raw.kind \in {"exact", "wildcard"} /\ host.hostname = raw.hostname /\ host.port = raw.port
      /\ host.wildcard = (raw.kind = "wildcard")
  BY DEF SameHost
<1> HIDE DEF host, raw
<1>3. CASE raw.kind = "exact"
  <2>1. cache[host.hostname].addresses \subseteq CanonicalAddr
    <3>1. host.resolved \in SUBSET CanonicalAddr
      <4>1. rules[l].hosts \in Seq(HostRule)
        BY BuiltList DEF RuleSet
      <4>2. rules[l].hosts[j] \in HostRule
        BY <4>1
      <4> QED
        BY <4>2 DEF host, HostRule
    <3> QED
      BY <1>1, <1>2, <1>3, <3>1
  <2>2. Covers(raw, hostname, address, port) <=>
          PortMatches(raw.port, port) /\ (hostname = raw.hostname \/ address \in cache[raw.hostname].addresses)
    BY <1>3 DEF Covers
  <2>3. MatchesHostname(host, hostname) <=> hostname = host.hostname
    BY <1>2, <1>3 DEF MatchesHostname
  <2>4. \A a \in CanonicalAddr : IsValid(a)
    BY CanonicalAddress
  <2> QED
    BY <1>1, <1>2, <1>3, <2>1, <2>2, <2>3, <2>4 DEF host, raw
<1>4. CASE raw.kind = "wildcard"
  <2>1. Covers(raw, hostname, address, port) <=>
          /\ PortMatches(raw.port, port)
          /\ \E k \in 1..(Len(hostname) - 1) : SubSeq(hostname, k + 1, Len(hostname)) = raw.hostname
    BY <1>4 DEF Covers
  <2>2. MatchesHostname(host, hostname) <=>
          /\ Len(hostname) > Len(host.hostname)
          /\ \A n \in 1..Len(host.hostname) :
               hostname[(Len(hostname) - Len(host.hostname)) + n] = host.hostname[n]
    BY <1>2, <1>4 DEF MatchesHostname
  <2>3. MatchesHostname(host, hostname) <=>
          \E k \in 1..(Len(hostname) - 1) : SubSeq(hostname, k + 1, Len(hostname)) = host.hostname
    BY <1>1, <2>2, Below, Zenon
  <2>4. MatchesHostname(host, hostname) => hostname # NoHost
    <3>1. Len(NoHost) = 0
      BY DEF NoHost
    <3> QED
      BY <2>3, <3>1
  <2> QED
    BY <1>1, <1>2, <1>4, <2>1, <2>3, <2>4 DEF host, raw
<1> QED
  BY <1>2, <1>3, <1>4

\* Each list of the policy that was built matches what its rules cover.
LEMMA BuiltAsWritten == NewInvariant => PolicyIsAsWritten
<1> SUFFICES ASSUME NewInvariant, pc = "built", NEW l \in List, NEW hostname \in Host \cup {NoHost},
                    NEW address \in CanonicalAddr \cup {NoAddr}, NEW port \in Port
             PROVE  Matches(rules[l], hostname, address, port)
                      <=> \E i \in DOMAIN config[l] : Covers(config[l][i], hostname, address, port)
  BY DEF PolicyIsAsWritten
<1>1. ASSUME Matches(rules[l], hostname, address, port)
      PROVE  \E i \in DOMAIN config[l] : Covers(config[l][i], hostname, address, port)
  <2>1. ASSUME NEW j \in DOMAIN rules[l].hosts, PortMatches(rules[l].hosts[j].port, port),
               \/ hostname # NoHost /\ MatchesHostname(rules[l].hosts[j], hostname)
               \/ IsValid(address) /\ address \in rules[l].hosts[j].resolved
        PROVE  \E i \in DOMAIN config[l] : Covers(config[l][i], hostname, address, port)
    <3>1. PICK i \in DOMAIN config[l] : SameHost(config[l][i], rules[l].hosts[j])
      BY BuiltList DEF Written
    <3> QED
      BY <2>1, <3>1, HostCovers
  <2>2. ASSUME NEW e \in rules[l].addresses, PortMatches(e.port, port), e.address = address
        PROVE  \E i \in DOMAIN config[l] : Covers(config[l][i], hostname, address, port)
    <3>1. PICK i \in DOMAIN config[l] :
            config[l][i].kind = "address"
            /\ e = [address |-> Unmap(config[l][i].address), port |-> config[l][i].port]
      BY BuiltList DEF Written
    <3> QED
      BY <2>2, <3>1 DEF Covers
  <2>3. ASSUME NEW e \in rules[l].prefixes, PortMatches(e.port, port), PrefixContains(e.prefix, address)
        PROVE  \E i \in DOMAIN config[l] : Covers(config[l][i], hostname, address, port)
    <3>1. PICK i \in DOMAIN config[l] :
            config[l][i].kind = "prefix" /\ e = [prefix |-> config[l][i].prefix, port |-> config[l][i].port]
      BY BuiltList DEF Written
    <3> QED
      BY <2>3, <3>1 DEF Covers
  <2> QED
    BY <1>1, <2>1, <2>2, <2>3 DEF Matches
<1>2. ASSUME NEW i \in DOMAIN config[l], Covers(config[l][i], hostname, address, port)
      PROVE  Matches(rules[l], hostname, address, port)
  <2> DEFINE raw == config[l][i]
  <2>1. Accepted(rules[l], raw) /\ raw \in RawRule /\ PortMatches(raw.port, port)
    BY <1>2, BuiltList DEF Covers
  <2> HIDE DEF raw
  <2>2. CASE raw.kind = "address"
    <3>1. address = Unmap(raw.address)
      BY <1>2, <2>2 DEF Covers, raw
    <3>2. IsValid(address)
      BY <2>1, <2>2, <3>1, RawFields, CanonicalAddress DEF Accepted, Refused
    <3>3. [address |-> address, port |-> raw.port] \in rules[l].addresses
      BY <2>1, <2>2, <3>1 DEF Accepted
    <3> QED
      BY <2>1, <3>2, <3>3 DEF Matches
  <2>3. CASE raw.kind = "prefix"
    <3>1. PrefixContains(raw.prefix, address)
      BY <1>2, <2>3 DEF Covers, raw
    <3>2. IsValid(address)
      BY <2>1, <2>3, <3>1, RawFields, CanonicalAddress DEF PrefixContains
    <3>3. [prefix |-> raw.prefix, port |-> raw.port] \in rules[l].prefixes
      BY <2>1, <2>3 DEF Accepted
    <3> QED
      BY <2>1, <3>1, <3>2, <3>3 DEF Matches
  <2>4. CASE raw.kind \in {"exact", "wildcard"}
    <3>1. PICK j \in DOMAIN rules[l].hosts : SameHost(raw, rules[l].hosts[j])
      BY <2>1, <2>4 DEF Accepted, SameHost
    <3> QED
      BY <1>2, <3>1, HostCovers DEF Matches, raw
  <2>5. raw.kind # "bad"
    BY <2>1 DEF Accepted, Refused
  <2> QED
    BY <2>1, <2>2, <2>3, <2>4, <2>5, RawFields
<1> QED
  BY <1>1, <1>2

\* The policy that New returns is the one that is written, on both lists.
THEOREM RulesAsWritten == Spec => []PolicyIsAsWritten
<1> QED
  BY BuiltAsWritten, NewInvariantHolds, PTL

-------------------------------------------------------------------------------
(* Arithmetic: powers of two as numbers of subsets, division with remainder     *)

\* A set of n elements has 2^n subsets.
LEMMA Subsets ==
  ASSUME NEW n \in Nat, NEW S, IsFiniteSet(S), Cardinality(S) = n
  PROVE  IsFiniteSet(SUBSET S) /\ Cardinality(SUBSET S) = 2^n /\ 2^n \in Nat
<1>1. IsFiniteSet(SUBSET S) /\ Cardinality(SUBSET S) = 2^Cardinality(S)
  BY FS_SUBSET, Zenon
<1>2. Cardinality(SUBSET S) \in Nat
  BY <1>1, FS_CardinalityType, Zenon
<1> QED
  BY <1>1, <1>2, Zenon

\* The power of a sum: a subset of an interval is a pair of subsets of its halves.
LEMMA PowerSum ==
  ASSUME NEW m \in Nat, NEW n \in Nat
  PROVE  2^(m + n) = 2^m * 2^n
<1> DEFINE A == 1..m
           B == (m + 1)..(m + n)
           S == SUBSET (1..(m + n))
           T == (SUBSET A) \X (SUBSET B)
           f == [X \in S |-> <<X \cap A, X \cap B>>]
<1>1. IsFiniteSet(A) /\ Cardinality(A) = m
  BY FS_Interval
<1>2. IsFiniteSet(B) /\ Cardinality(B) = n
  BY FS_Interval
<1>3. m + n \in Nat /\ IsFiniteSet(1..(m + n)) /\ Cardinality(1..(m + n)) = m + n
  <2>1. m + n \in Nat /\ 1 \in Int /\ m + n \in Int /\ (m + n) - 1 + 1 = m + n /\ (1 > m + n <=> m + n = 0)
    OBVIOUS
  <2> QED
    BY <2>1, FS_Interval, Zenon
<1>4. IsFiniteSet(S) /\ Cardinality(S) = 2^(m + n)
  BY <1>3, Subsets, Zenon
<1>5. IsFiniteSet(T) /\ Cardinality(T) = 2^m * 2^n
  <2>1. IsFiniteSet(SUBSET A) /\ Cardinality(SUBSET A) = 2^m
    BY <1>1, Subsets, Zenon
  <2>2. IsFiniteSet(SUBSET B) /\ Cardinality(SUBSET B) = 2^n
    BY <1>2, Subsets, Zenon
  <2> QED
    BY <2>1, <2>2, FS_Product, Zenon
<1>6. A \cap B = {} /\ A \cup B = 1..(m + n)
  OBVIOUS
<1>7. f \in Bijection(S, T)
  <2>1. f \in [S -> T]
    OBVIOUS
  <2>2. ASSUME NEW X \in S, NEW Y \in S, f[X] = f[Y]
        PROVE  X = Y
    <3>1. X \cap A = Y \cap A /\ X \cap B = Y \cap B
      BY <2>2
    <3> QED
      BY <3>1, <1>6, Zenon
  <2>3. ASSUME NEW t \in T
        PROVE  \E X \in S : f[X] = t
    <3>1. PICK X1 \in SUBSET A, X2 \in SUBSET B : t = <<X1, X2>>
      OBVIOUS
    <3>2. X1 \cup X2 \in S
      BY <1>6, Zenon
    <3>3. (X1 \cup X2) \cap A = X1 /\ (X1 \cup X2) \cap B = X2
      BY <1>6, Zenon
    <3>4. f[X1 \cup X2] = t
      BY <3>1, <3>2, <3>3
    <3> QED
      BY <3>2, <3>4
  <2> HIDE DEF f, S, T
  <2> QED
    BY <2>1, <2>2, <2>3 DEF Bijection, Injection, Surjection, IsInjective
<1> HIDE DEF S, T, f
<1>8. Cardinality(T) = Cardinality(S)
  BY <1>4, <1>7, FS_Bijection, Zenon DEF ExistsBijection
<1> QED
  BY <1>4, <1>5, <1>8

\* The first two powers.
LEMMA PowerOne == 2^1 = 2 /\ 2^0 = 1
<1>1. IsFiniteSet({}) /\ Cardinality({}) = 0
  BY FS_EmptySet, Zenon
<1>2. Cardinality(SUBSET {}) = 2^0
  <2>1. 0 \in Nat
    OBVIOUS
  <2> QED
    BY <1>1, <2>1, Subsets, Zenon
<1>3. SUBSET {} = {{}}
  OBVIOUS
<1>4. 2^0 = 1
  BY <1>2, <1>3, FS_Singleton, Zenon
<1>5. Cardinality(SUBSET {0}) = 2^1
  BY FS_Singleton, Subsets
<1>6. SUBSET {0} = {{}} \cup {{0}}
  OBVIOUS
<1>7. Cardinality({{}} \cup {{0}}) = 2
  <2>1. IsFiniteSet({{}}) /\ Cardinality({{}}) = 1 /\ {0} \notin {{}}
    BY FS_Singleton
  <2>2. Cardinality({{}} \cup {{0}}) = 1 + 1
    BY <2>1, FS_AddElement, Zenon
  <2> QED
    BY <2>2
<1> QED
  BY <1>4, <1>5, <1>6, <1>7

\* The number of subsets is not zero: the empty set is one.
LEMMA PowerPositive ==
  ASSUME NEW n \in Nat
  PROVE  2^n \in Nat \ {0}
<1>1. IsFiniteSet(1..n) /\ Cardinality(1..n) = n
  BY FS_Interval
<1>2. IsFiniteSet(SUBSET (1..n)) /\ Cardinality(SUBSET (1..n)) = 2^n /\ 2^n \in Nat
  BY <1>1, Subsets, Zenon
<1>3. SUBSET (1..n) # {}
  OBVIOUS
<1>4. 2^n # 0
  BY <1>2, <1>3, FS_EmptySet, Zenon
<1> QED
  BY <1>2, <1>4

\* Division with remainder.
LEMMA DivMod ==
  ASSUME NEW a \in Nat, NEW d \in Nat \ {0}
  PROVE  /\ a \div d \in Nat
         /\ a % d \in 0..(d - 1)
         /\ a = (a \div d) * d + (a % d)
  OBVIOUS

\* Quotient and remainder are determined by what they satisfy.
LEMMA DivUnique ==
  ASSUME NEW a \in Nat, NEW d \in Nat \ {0}, NEW q \in Nat, NEW r \in 0..(d - 1),
         a = q * d + r
  PROVE  a \div d = q /\ a % d = r
  OBVIOUS

\* Cutting m * n off at once is cutting off m, then n.
LEMMA DivSplit ==
  ASSUME NEW a \in Nat, NEW m \in Nat \ {0}, NEW n \in Nat \ {0}
  PROVE  a \div (m * n) = (a \div m) \div n
<1> DEFINE q == a \div m
           r == a % m
           s == q \div n
           t == q % n
<1>1. q \in Nat /\ r \in 0..(m - 1) /\ a = q * m + r
  BY DivMod
<1>2. s \in Nat /\ t \in 0..(n - 1) /\ q = s * n + t
  BY <1>1, DivMod
<1> HIDE DEF q, r, s, t
<1>3. a = s * (m * n) + (t * m + r)
  BY <1>1, <1>2
<1>4. t * m + r \in 0..(m * n - 1) /\ m * n \in Nat \ {0}
  <2>1. t * m <= (n - 1) * m /\ t * m \in Nat
    BY <1>2
  <2>2. (n - 1) * m = m * n - m /\ m * n \in Nat \ {0}
    OBVIOUS
  <2> QED
    BY <2>1, <2>2, <1>1
<1>5. a \div (m * n) = s
  BY <1>1, <1>2, <1>3, <1>4, DivUnique
<1> QED
  BY <1>5 DEF q, s

\* Bits above the ones that are cut off stay where they are.
LEMMA DivShift ==
  ASSUME NEW a \in Nat, NEW k \in Nat, NEW m \in Nat \ {0}
  PROVE  (k * m + a) \div m = k + (a \div m) /\ (k * m + a) % m = a % m
<1> DEFINE q == a \div m
           r == a % m
<1>1. q \in Nat /\ r \in 0..(m - 1) /\ a = q * m + r
  BY DivMod
<1> HIDE DEF q, r
<1>2. k * m + a = (k + q) * m + r /\ k * m + a \in Nat /\ k + q \in Nat
  BY <1>1
<1>3. (k * m + a) \div m = k + q /\ (k * m + a) % m = r
  BY <1>1, <1>2, DivUnique
<1> QED
  BY <1>3 DEF q, r

-------------------------------------------------------------------------------
(* CIDR rules: normalizePrefix and Prefix.Contains, for any width of the fields *)

\* The one bits in front of an embedded IPv4 address, and an address behind them.
Pattern == 2^Ones - 1

Mapped(value) == Pattern * 2^Width4 + value

\* Pattern is odd, so no number that ends in a zero bit is the pattern.
LEMMA Powers ==
  /\ 2^Width4 \in Nat \ {0}
  /\ Pattern \in Nat
  /\ \A k \in Nat \ {0} : \A t \in Nat : t * 2^k # Pattern
<1>1. Width4 \in Nat /\ Ones \in Nat /\ Ones - 1 \in Nat /\ Ones = (Ones - 1) + 1
  BY PrefixAssumption
<1>2. 2^Width4 \in Nat \ {0} /\ 2^Ones \in Nat \ {0} /\ 2^(Ones - 1) \in Nat \ {0}
  BY <1>1, PowerPositive, Zenon
<1>3. 2^Ones = 2^(Ones - 1) * 2
  <2>1. 2^((Ones - 1) + 1) = 2^(Ones - 1) * 2^1
    BY <1>1, PowerSum
  <2> QED
    BY <2>1, <1>1, PowerOne
<1>4. ASSUME NEW k \in Nat \ {0}, NEW t \in Nat
      PROVE  t * 2^k # Pattern
  <2>1. k - 1 \in Nat /\ k = (k - 1) + 1 /\ 1 \in Nat
    OBVIOUS
  <2>2. 2^((k - 1) + 1) = 2^(k - 1) * 2^1
    BY <2>1, PowerSum
  <2>3. 2^k = 2^(k - 1) * 2
    BY <2>1, <2>2, PowerOne
  <2>4. 2^(k - 1) \in Nat
    BY <2>1, PowerPositive
  <2> DEFINE x == t * 2^(k - 1)
             y == 2^(Ones - 1)
  <2>5. x \in Nat /\ y \in Nat /\ t * 2^k = 2 * x /\ Pattern = 2 * y - 1
    BY <2>3, <2>4, <1>2, <1>3 DEF Pattern
  <2> HIDE DEF x, y
  <2> QED
    BY <2>5
<1> QED
  BY <1>2, <1>4 DEF Pattern

\* A length b inside the IPv4 part cuts the mapped form of x like x itself, below the
\* pattern; the b bits that are left of x are cut off by the rest of the width.
LEMMA InnerLength ==
  ASSUME NEW b \in 0..Width4, NEW x \in Nat
  PROVE  /\ 2^(Width4 - b) \in Nat \ {0} /\ 2^b \in Nat \ {0}
         /\ Mapped(x) \in Nat
         /\ Mapped(x) \div 2^(Width4 - b) = Pattern * 2^b + (x \div 2^(Width4 - b))
         /\ (x \div 2^(Width4 - b)) \div 2^b = x \div 2^Width4
<1>1. Width4 - b \in Nat /\ b \in Nat /\ Width4 = b + (Width4 - b) /\ Width4 = (Width4 - b) + b
  BY PrefixAssumption
<1> DEFINE d == 2^(Width4 - b)
           e == 2^b
<1>2. d \in Nat \ {0} /\ e \in Nat \ {0}
  BY <1>1, PowerPositive, Zenon
<1>3. 2^Width4 = e * d /\ 2^Width4 = d * e
  <2>1. 2^(b + (Width4 - b)) = e * d /\ 2^((Width4 - b) + b) = d * e
    BY <1>1, PowerSum, Zenon
  <2> QED
    BY <2>1, <1>1
<1>4. Pattern \in Nat
  BY Powers
<1> HIDE DEF d, e
<1>5. Mapped(x) = (Pattern * e) * d + x /\ Pattern * e \in Nat /\ Mapped(x) \in Nat
  BY <1>2, <1>3, <1>4 DEF Mapped
<1>6. Mapped(x) \div d = Pattern * e + (x \div d)
  <2>1. ((Pattern * e) * d + x) \div d = Pattern * e + (x \div d)
    BY <1>5, <1>2, DivShift, Zenon
  <2> QED
    BY <2>1, <1>5, Zenon
<1>7. (x \div d) \div e = x \div 2^Width4
  <2>1. x \div (d * e) = (x \div d) \div e
    BY <1>2, DivSplit, Zenon
  <2> QED
    BY <2>1, <1>3, Zenon
<1> QED
  BY <1>2, <1>5, <1>6, <1>7 DEF d, e

\* Prefix.Masked keeps the bits of the prefix.
LEMMA MaskKeeps ==
  ASSUME NEW v \in Nat, NEW d \in Nat \ {0}
  PROVE  (v \div d) * d \in Nat /\ ((v \div d) * d) \div d = v \div d
<1>1. v \div d \in Nat
  OBVIOUS
<1>2. (v \div d) * d \in Nat /\ (v \div d) * d = (v \div d) * d + 0
  BY <1>1
<1> QED
  BY <1>1, <1>2, DivUnique

\* Unmap leaves an address alone or takes an IPv4 address out of its mapped form; both
\* notations stand for the same number.
LEMMA Unmapped ==
  ASSUME NEW a \in Address
  PROVE  /\ a.family \in {4, 6} /\ a.value \in Nat
         /\ UnmapAddress(a).family = 6 => UnmapAddress(a) = a /\ Embedded(a) = a.value
         /\ UnmapAddress(a).family = 4 =>
              /\ UnmapAddress(a).value \in Nat
              /\ UnmapAddress(a).value \div 2^Width4 = 0
              /\ Embedded(a) = Mapped(UnmapAddress(a).value)
         /\ UnmapAddress(a).family \in {4, 6}
         /\ a.family = 4 => UnmapAddress(a) = a
<1>1. 2^Width4 \in Nat \ {0} /\ Pattern \in Nat
  BY Powers
<1>2. Width4 \in Nat /\ Zeros + Ones + Width4 \in Nat
  BY PrefixAssumption
<1>3. 2^Width4 - 1 \in Nat /\ 2^(Zeros + Ones + Width4) - 1 \in Nat
  <2>1. 2^(Zeros + Ones + Width4) \in Nat \ {0}
    BY <1>2, PowerPositive, Zenon
  <2> QED
    BY <1>1, <2>1
<1>4. PICK f \in {4, 6} : a \in [family : {f}, value : 0..2^Width(f) - 1]
  BY DEF Address
<1>5. a = [family |-> a.family, value |-> a.value] /\ a.family = f
  BY <1>4
<1>6. CASE f = 4
  <2>1. a.value \in 0..(2^Width4 - 1)
    BY <1>4, <1>6 DEF Width
  <2>2. UnmapAddress(a) = a
    BY <1>5, <1>6 DEF UnmapAddress, Is4In6
  <2>3. a.value \div 2^Width4 = 0
    <3> DEFINE d == 2^Width4
    <3>1. a.value = 0 * d + a.value /\ d \in Nat \ {0} /\ a.value \in 0..(d - 1) /\ a.value \in Nat
      BY <2>1, <1>1
    <3> HIDE DEF d
    <3>2. a.value \div d = 0
      BY <3>1, DivUnique
    <3> QED
      BY <3>2 DEF d
  <2> QED
    BY <1>1, <1>5, <1>6, <2>1, <2>2, <2>3 DEF Embedded, Mapped, Pattern
<1>7. CASE f = 6
  <2>1. a.value \in Nat
    BY <1>3, <1>4, <1>7 DEF Width, Offset
  <2>2. CASE ~Is4In6(a)
    BY <1>5, <1>7, <2>1, <2>2 DEF UnmapAddress, Embedded
  <2>3. CASE Is4In6(a)
    <3> DEFINE d == 2^Width4
               r == a.value % d
    <3>1. a.value \div d = Pattern
      BY <2>3 DEF Is4In6, Pattern
    <3>2. UnmapAddress(a).family = 4 /\ UnmapAddress(a).value = r
      BY <2>3 DEF UnmapAddress
    <3>3. d \in Nat \ {0}
      BY <1>1
    <3>4. Embedded(a) = a.value
      BY <1>5, <1>7 DEF Embedded
    <3>5. Mapped(r) = Pattern * d + r
      BY DEF Mapped
    <3> HIDE DEF d
    <3>6. r \in 0..(d - 1) /\ a.value = Pattern * d + r /\ r \in Nat
      <4>1. r \in 0..(d - 1) /\ a.value = (a.value \div d) * d + r
        BY <2>1, <3>3, DivMod, Zenon
      <4>2. r \in Nat
        BY <4>1, <3>3
      <4> QED
        BY <4>1, <4>2, <3>1, Zenon
    <3> HIDE DEF r
    <3>7. r \div d = 0
      BY <3>3, <3>6, DivUnique
    <3> QED
      BY <1>5, <1>7, <2>1, <3>2, <3>4, <3>5, <3>6, <3>7 DEF d
  <2> QED
    BY <2>2, <2>3
<1> QED
  BY <1>4, <1>6, <1>7

\* A rule field by field, as it is written and after Masked.
LEMMA RawFacts ==
  ASSUME NEW p \in RawPrefix
  PROVE  /\ p.address \in Address
         /\ p.address.family \in {4, 6} /\ p.address.value \in Nat
         /\ p.bits \in 0..Width(p.address.family)
         /\ Masked(p).bits = p.bits
         /\ Masked(p).address.family = p.address.family
         /\ Masked(p).address.value =
              Top(p.address.value, Width(p.address.family), p.bits)
                * 2^(Width(p.address.family) - p.bits)
<1>1. PICK a \in Address : p \in [address : {a}, bits : 0..Width(a.family)]
  BY DEF RawPrefix
<1>2. p = [address |-> a, bits |-> p.bits] /\ p.bits \in 0..Width(a.family)
  BY <1>1
<1>3. p.address = a /\ a.family \in {4, 6} /\ a.value \in Nat
  BY <1>2, Unmapped
<1>4. PICK f \in {4, 6} : a \in [family : {f}, value : 0..2^Width(f) - 1]
  BY DEF Address
<1>5. a = [family |-> a.family, value |-> a.value]
  BY <1>4
<1> QED
  BY <1>2, <1>3, <1>5 DEF Masked

\* An IPv4 rule: it stays as it is, and its bits are the low bits of the mapped form.
LEMMA Covers4 ==
  ASSUME NEW p \in RawPrefix, NEW a \in Address, p.address.family = 4
  PROVE  RuleMatches(p, a) <=>
           InBlock(p, a) /\ (Is4Block(p) <=> UnmapAddress(a).family = 4)
<1> DEFINE b == p.bits
           v == p.address.value
           d == 2^(Width4 - b)
           U == UnmapAddress(a)
<1>1. b \in 0..Width4 /\ v \in Nat /\ p.address \in Address
  BY RawFacts DEF Width
<1>2. d \in Nat \ {0}
  BY <1>1, InnerLength, Zenon
<1>3. UnmapAddress(p.address) = p.address
  BY <1>1, Unmapped
<1>4. Embedded(p.address) = Mapped(v) /\ Mapped(v) \div 2^Width4 = Pattern
  <2>1. v \div 2^Width4 = 0 /\ Embedded(p.address) = Mapped(v)
    BY <1>1, <1>3, Unmapped
  <2>2. Mapped(v) \div 2^Width4 = Pattern + (v \div 2^Width4) /\ Pattern \in Nat
    BY <1>1, Powers, DivShift, Zenon DEF Mapped
  <2> QED
    BY <2>1, <2>2
<1>5. Is4Block(p)
  BY PrefixAssumption, <1>1, <1>4 DEF Is4Block, Is4In6, EmbeddedBits, Pattern,
                    Offset
<1>6. Stored(p) = Masked(p) /\ Stored(p).bits = b
      /\ Stored(p).address.family = 4 /\ Stored(p).address.value = (v \div d) * d
  BY RawFacts DEF Stored, NormalizePrefix, Is4In6, Width, Top
<1>7. Width(6) - EmbeddedBits(p) = Width4 - b
  BY PrefixAssumption, <1>1 DEF Width, EmbeddedBits, Offset
<1>8. CASE U.family = 6
  BY <1>5, <1>6, <1>8 DEF RuleMatches, Contains
<1>9. CASE U.family = 4
  <2>1. RuleMatches(p, a) <=> ((v \div d) * d) \div d = U.value \div d
    BY <1>1, <1>6, <1>9 DEF RuleMatches, Contains, Top, Width
  <2>2. ((v \div d) * d) \div d = v \div d
    BY <1>1, <1>2, MaskKeeps, Zenon
  <2>3. InBlock(p, a) <=> Mapped(v) \div d = Mapped(U.value) \div d
    BY <1>4, <1>7, <1>9, Unmapped DEF InBlock, Top
  <2>4. U.value \in Nat
    BY <1>9, Unmapped
  <2>5. /\ Mapped(v) \div d = Pattern * 2^b + (v \div d)
        /\ Mapped(U.value) \div d = Pattern * 2^b + (U.value \div d)
    BY <1>1, <2>4, InnerLength, Zenon
  <2>6. Pattern * 2^b \in Nat
    BY <1>1, Powers, InnerLength
  <2> HIDE DEF d, b, v, U
  <2>7. v \div d \in Nat /\ U.value \div d \in Nat
    BY <1>1, <1>2, <2>4
  <2>8. Mapped(v) \div d = Mapped(U.value) \div d <=> v \div d = U.value \div d
    BY <2>5, <2>6, <2>7
  <2> QED
    BY <1>5, <1>9, <2>1, <2>2, <2>3, <2>8 DEF U
<1> QED
  BY <1>8, <1>9, Unmapped

\* An IPv6 rule whose length reaches the IPv4 part: masking does not touch the bits
\* Is4In6 looks at, so it is rewritten exactly if the rule is a mapped one.
LEMMA Covers6Inside ==
  ASSUME NEW p \in RawPrefix, NEW a \in Address, p.address.family = 6,
         p.bits >= Zeros + Ones
  PROVE  RuleMatches(p, a) <=>
           InBlock(p, a) /\ (Is4Block(p) <=> UnmapAddress(a).family = 4)
<1> DEFINE b == p.bits - (Zeros + Ones)
           v == p.address.value
           d == 2^(Width4 - b)
           m == (v \div d) * d
           U == UnmapAddress(a)
<1>1. b \in 0..Width4 /\ v \in Nat /\ p.bits \in Nat
  BY PrefixAssumption, RawFacts DEF Width, Offset
<1>2. d \in Nat \ {0} /\ 2^b \in Nat \ {0} /\ 2^Width4 \in Nat \ {0}
  BY <1>1, InnerLength, Powers, Zenon
<1>3. Width(6) - p.bits = Width4 - b /\ EmbeddedBits(p) = p.bits
  BY PrefixAssumption, <1>1 DEF Width, EmbeddedBits, Offset
<1>4. /\ Masked(p).bits = p.bits /\ Masked(p).address.family = 6
      /\ Masked(p).address.value = m
  BY RawFacts, <1>3 DEF Top
<1>5. m \in Nat /\ m \div d = v \div d
  BY <1>1, <1>2, MaskKeeps, Zenon
<1>6. m \div 2^Width4 = v \div 2^Width4
  <2>1. (m \div d) \div 2^b = m \div 2^Width4 /\ (v \div d) \div 2^b = v \div 2^Width4
    BY <1>1, <1>5, InnerLength, Zenon
  <2> QED
    BY <2>1, <1>5, Zenon
<1>7. Embedded(p.address) = v
  BY DEF Embedded
<1>8. Is4Block(p) <=> v \div 2^Width4 = Pattern
  BY <1>1, <1>3, <1>7 DEF Is4Block, Is4In6, Pattern, Offset
<1>9. CASE v \div 2^Width4 # Pattern
  <2>1. Stored(p) = Masked(p)
    BY <1>4, <1>6, <1>9 DEF Stored, NormalizePrefix, Is4In6, Pattern
  <2>2. CASE U.family = 4
    BY <1>4, <1>8, <1>9, <2>1, <2>2 DEF RuleMatches, Contains
  <2>3. CASE U.family = 6
    <3>1. U = a /\ Embedded(a) = a.value
      BY <2>3, Unmapped
    <3>2. RuleMatches(p, a) <=> m \div d = a.value \div d
      BY <1>1, <1>3, <1>4, <2>1, <2>3, <3>1 DEF RuleMatches, Contains, Top
    <3>3. InBlock(p, a) <=> v \div d = a.value \div d
      BY <1>3, <1>7, <3>1 DEF InBlock, Top
    <3> QED
      BY <1>5, <1>8, <1>9, <2>3, <3>2, <3>3
  <2> QED
    BY <2>2, <2>3, Unmapped
<1>10. CASE v \div 2^Width4 = Pattern
  <2> DEFINE r == m % 2^Width4
             x == v % 2^Width4
  <2>1. /\ Stored(p).bits = b /\ Stored(p).address.family = 4
        /\ Stored(p).address.value = r
    BY <1>1, <1>4, <1>6, <1>10
       DEF Stored, NormalizePrefix, Is4In6, PrefixFrom, UnmapAddress,
           Width, Offset, Pattern
  <2>2. r \in Nat /\ x \in Nat /\ m = Mapped(r) /\ v = Mapped(x)
    <3>1. /\ r \in 0..(2^Width4 - 1) /\ m = (m \div 2^Width4) * 2^Width4 + r
          /\ x \in 0..(2^Width4 - 1) /\ v = (v \div 2^Width4) * 2^Width4 + x
      BY <1>1, <1>2, <1>5, DivMod, Zenon
    <3>2. m = Pattern * 2^Width4 + r /\ v = Pattern * 2^Width4 + x
      BY <3>1, <1>6, <1>10, Zenon
    <3>3. r \in Nat /\ x \in Nat
      BY <3>1, <1>2
    <3> QED
      BY <3>2, <3>3 DEF Mapped
  <2>3. CASE U.family = 6
    BY <1>8, <1>10, <2>1, <2>3 DEF RuleMatches, Contains
  <2>4. CASE U.family = 4
    <3>1. U.value \in Nat /\ Embedded(a) = Mapped(U.value)
      BY <2>4, Unmapped
    <3>2. RuleMatches(p, a) <=> r \div d = U.value \div d
      BY <1>1, <2>1, <2>4 DEF RuleMatches, Contains, Top, Width
    <3>3. InBlock(p, a) <=> v \div d = Mapped(U.value) \div d
      BY <1>3, <1>7, <3>1 DEF InBlock, Top
    <3>4. /\ Mapped(r) \div d = Pattern * 2^b + (r \div d)
          /\ Mapped(U.value) \div d = Pattern * 2^b + (U.value \div d)
      BY <1>1, <2>2, <3>1, InnerLength, Zenon
    <3>5. Pattern * 2^b \in Nat
      BY <1>2, Powers
    <3>6. v \div d = Mapped(r) \div d
      BY <1>5, <2>2, Zenon
    <3> HIDE DEF d, b, U, r
    <3>7. r \div d \in Nat /\ U.value \div d \in Nat
      BY <1>2, <2>2, <3>1
    <3>8. v \div d = Mapped(U.value) \div d <=> r \div d = U.value \div d
      BY <3>4, <3>5, <3>6, <3>7
    <3> QED
      BY <1>8, <1>10, <2>4, <3>2, <3>3, <3>8 DEF U
  <2> QED
    BY <2>3, <2>4, Unmapped
<1> QED
  BY <1>9, <1>10

\* A shorter IPv6 rule: masking clears the last bit of the pattern, so that what is
\* stored is not mapped and contains no address that Unmap makes an IPv4 address.
LEMMA Covers6Outside ==
  ASSUME NEW p \in RawPrefix, NEW a \in Address, p.address.family = 6,
         p.bits < Zeros + Ones
  PROVE  RuleMatches(p, a) <=>
           InBlock(p, a) /\ (Is4Block(p) <=> UnmapAddress(a).family = 4)
<1> DEFINE k == Zeros + Ones - p.bits
           v == p.address.value
           d == 2^(Width4 + k)
           m == (v \div d) * d
           U == UnmapAddress(a)
<1>1. k \in Nat \ {0} /\ v \in Nat /\ p.bits \in Nat /\ Width4 \in Nat
  BY PrefixAssumption, RawFacts DEF Width, Offset
<1>2. 2^k \in Nat \ {0} /\ 2^Width4 \in Nat \ {0} /\ d = 2^Width4 * 2^k
  BY <1>1, PowerSum, PowerPositive
<1>3. d \in Nat \ {0}
  <2>1. Width4 + k \in Nat
    BY <1>1
  <2> QED
    BY <2>1, PowerPositive, Zenon
<1>4. Width(6) - p.bits = Width4 + k /\ EmbeddedBits(p) = p.bits
  BY PrefixAssumption, <1>1 DEF Width, EmbeddedBits, Offset
<1>5. /\ Masked(p).bits = p.bits /\ Masked(p).address.family = 6
      /\ Masked(p).address.value = m
  BY RawFacts, <1>4 DEF Top
<1>6. m \in Nat /\ m \div d = v \div d
  BY <1>1, <1>3, MaskKeeps, Zenon
<1>7. m \div 2^Width4 # Pattern
  <2> DEFINE t == v \div d
             h == 2^k
             e == 2^Width4
  <2>1. t \in Nat
    BY <1>1, <1>3, DivMod, Zenon
  <2>2. t * h # Pattern
    BY <1>1, <2>1, Powers
  <2>3. m = (t * h) * e + 0 /\ t * h \in Nat
    <3>1. m = t * d /\ d = e * h /\ h \in Nat /\ e \in Nat
      BY <1>2
    <3> HIDE DEF t, h, e, d, m
    <3> QED
      BY <3>1, <2>1
  <2>4. e \in Nat \ {0}
    BY <1>2
  <2> HIDE DEF t, h, e, m
  <2>5. m \div e = t * h
    BY <1>6, <2>3, <2>4, DivUnique
  <2> QED
    BY <2>2, <2>5 DEF e
<1>8. Stored(p) = Masked(p)
  BY <1>5, <1>7 DEF Stored, NormalizePrefix, Is4In6, Pattern
<1>9. ~Is4Block(p)
  BY PrefixAssumption, <1>1, <1>4 DEF Is4Block, Offset
<1>10. CASE U.family = 4
  BY <1>5, <1>8, <1>9, <1>10 DEF RuleMatches, Contains
<1>11. CASE U.family = 6
  <2>1. U = a /\ Embedded(a) = a.value /\ Embedded(p.address) = v
    BY <1>11, Unmapped DEF Embedded
  <2>2. RuleMatches(p, a) <=> m \div d = a.value \div d
    BY <1>1, <1>4, <1>5, <1>8, <1>11, <2>1 DEF RuleMatches, Contains, Top
  <2>3. InBlock(p, a) <=> v \div d = a.value \div d
    BY <1>4, <2>1 DEF InBlock, Top
  <2> QED
    BY <1>6, <1>9, <1>11, <2>2, <2>3
<1> QED
  BY <1>10, <1>11, Unmapped

\* However many bits the addresses and the mapped prefix have, a CIDR rule covers the
\* addresses of the block it is written for and no others, in either notation of both.
THEOREM RuleCovers == CidrSpec => []RuleCoversItsBlock
<1> DEFINE Typed == cidr \in RawPrefix /\ probe \in Address
<1>1. CidrInit => Typed
  BY DEF CidrInit
<1>2. Typed /\ [CidrNext]_cidrVars => Typed'
  BY DEF CidrNext, Probe, cidrVars, RawPrefix, Address, Width, Offset
<1>3. Typed => RuleCoversItsBlock
  <2> SUFFICES ASSUME Typed PROVE RuleCoversItsBlock
    OBVIOUS
  <2>1. cidr.address.family \in {4, 6} /\ cidr.bits \in 0..Width(cidr.address.family)
    BY RawFacts
  <2>2. cidr.address.family = 6 => cidr.bits >= Zeros + Ones \/ cidr.bits < Zeros + Ones
    BY PrefixAssumption, <2>1 DEF Width, Offset
  <2> QED
    BY <2>1, <2>2, Covers4, Covers6Inside, Covers6Outside, Zenon DEF RuleCoversItsBlock
<1> HIDE DEF Typed
<1> QED
  BY <1>1, <1>2, <1>3, PTL DEF CidrSpec

===============================================================================
