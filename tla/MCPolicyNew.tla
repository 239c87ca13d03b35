----------------------------- MODULE MCPolicyNew -----------------------------
(***************************************************************************)
(* Lists of up to two rules each, drawn from one rule of every kind: exact *)
(* rules for two hostnames, one with and one without a port, a wildcard,   *)
(* an IPv4-mapped address, a zoned one, a prefix and a malformed rule.     *)
(***************************************************************************)
EXTENDS PolicyNew, SequencesExt

CONSTANTS a4, b4, c6

\* The third is covered by the wildcard only.
MCHost == {<<"example", "org">>, <<"other">>, <<"www", "example", "org">>}

MCRule ==
  { [kind |-> "exact", hostname |-> <<"example", "org">>, port |-> AnyPort],
    [kind |-> "exact", hostname |-> <<"example", "org">>, port |-> 443],
    [kind |-> "exact", hostname |-> <<"other">>, port |-> AnyPort],
    [kind |-> "wildcard", hostname |-> <<"example", "org">>, port |-> 443],
    [kind |-> "address", address |-> [Canonical(a4) EXCEPT !.mapped = TRUE], port |-> 443],
    [kind |-> "address", address |-> [Canonical(c6) EXCEPT !.zone = "eth0"], port |-> AnyPort],
    [kind |-> "prefix", prefix |-> {b4, c6}, port |-> AnyPort],
    [kind |-> "bad"] }

MCConfigs ==
  [allow : SeqOf(MCRule, 2), block : SeqOf(MCRule, 2), allowUnresolved : BOOLEAN]

\* No address, unusable ones only, one address in both notations, two addresses.
MCAnswers ==
  { <<>>,
    <<NoAddr, [Canonical(c6) EXCEPT !.zone = "eth0"]>>,
    <<Canonical(a4), [Canonical(a4) EXCEPT !.mapped = TRUE]>>,
    <<[Canonical(b4) EXCEPT !.mapped = TRUE], Canonical(c6)>> }

===============================================================================
