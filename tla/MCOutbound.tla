------------------------------ MODULE MCOutbound ------------------------------
(***************************************************************************)
(* A small instance of Outbound: two IPv4 addresses and an IPv6 one, a     *)
(* hostname, a subdomain of it and an unrelated one, and policies that     *)
(* between them use every kind of rule on both lists.                      *)
(***************************************************************************)
EXTENDS Outbound, TLC, SequencesExt

CONSTANTS a4, b4, c6

MCHost == {<<"example", "org">>, <<"api", "example", "org">>, <<"other">>}

\* A prefix of zone-free and IPv4-mapped answers, and the answers Dial drops.
MCRawAnswer ==
  { Canonical(a4), [Canonical(a4) EXCEPT !.mapped = TRUE],
    Canonical(b4), Canonical(c6), [Canonical(c6) EXCEPT !.zone = "eth0"], NoAddr }

\* Every answer of up to three addresses.
MCAnswers == SeqOf(MCRawAnswer, 3)

NoRules == [hosts |-> <<>>, addresses |-> {}, prefixes |-> {}]

Exact(h, p, resolved) ==
  [NoRules EXCEPT !.hosts =
     <<[hostname |-> h, wildcard |-> FALSE, port |-> p, resolved |-> resolved]>>]

Wildcard(h, p) ==
  [NoRules EXCEPT !.hosts =
     <<[hostname |-> h, wildcard |-> TRUE, port |-> p, resolved |-> {}]>>]

Address(a, p) == [NoRules EXCEPT !.addresses = {[address |-> Canonical(a), port |-> p]}]

Cidr(as, p) == [NoRules EXCEPT !.prefixes = {[prefix |-> as, port |-> p]}]

MCPolicies ==
  { [allow |-> NoRules, block |-> NoRules],
    [allow |-> NoRules, block |-> Exact(<<"example", "org">>, AnyPort, {Canonical(a4)})],
    [allow |-> NoRules, block |-> Cidr({b4, c6}, AnyPort)],
    [allow |-> Wildcard(<<"example", "org">>, AnyPort), block |-> Address(b4, 443)],
    [allow |-> Exact(<<"example", "org">>, 443, {Canonical(a4)}),
     block |-> Cidr({c6}, AnyPort)],
    [allow |-> Cidr({a4, b4}, 80), block |-> Wildcard(<<"example", "org">>, AnyPort)],
    [allow |-> Address(a4, AnyPort), block |-> Exact(<<"other">>, AnyPort, {})] }

===============================================================================
