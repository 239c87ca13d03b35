-------------------------------- MODULE Prefix --------------------------------
(***************************************************************************)
(* CIDR rules of internal/policy, down to the bits: how ruleSet.add        *)
(* normalizes a prefix (Masked, then normalizePrefix) and which addresses  *)
(* the stored prefix then contains.  The widths are parameters; in the     *)
(* code an IPv6 address has 128 bits, an IPv4 address 32, and the          *)
(* IPv4-mapped form is 80 zero bits, 16 one bits and the IPv4 address.     *)
(* The names differ from those of Policy, so that one module can extend    *)
(* both.                                                                   *)
(***************************************************************************)
EXTENDS Integers

CONSTANTS
  Width4,  \* bits of an IPv4 address
  Ones,    \* one bits in front of the embedded IPv4 address
  Zeros    \* zero bits in front of those

ASSUME PrefixAssumption ==
  Width4 \in Nat \ {0} /\ Ones \in Nat \ {0} /\ Zeros \in Nat \ {0}

VARIABLES
  cidr,   \* a CIDR as it is written on the command line
  probe   \* an address as a client or a resolver hands it in

cidrVars == <<cidr, probe>>

Offset == Zeros + Ones    \* 96 in the code

Width(family) == IF family = 4 THEN Width4 ELSE Offset + Width4

Address == UNION { [family : {f}, value : 0..2^Width(f) - 1] : f \in {4, 6} }

RawPrefix ==
  UNION { [address : {a}, bits : 0..Width(a.family)] : a \in Address }

\* Addr.Is4In6 and Addr.Unmap
Is4In6(a) == a.family = 6 /\ a.value \div 2^Width4 = 2^Ones - 1

UnmapAddress(a) ==
  IF Is4In6(a) THEN [family |-> 4, value |-> a.value % 2^Width4] ELSE a

\* The first bits of a value of width w, as a number.
Top(value, w, bits) == value \div 2^(w - bits)

\* Prefix.Masked
Masked(p) ==
  LET w == Width(p.address.family)
  IN  [p EXCEPT !.address.value = Top(@, w, p.bits) * 2^(w - p.bits)]

\* netip.PrefixFrom: bits out of range make a prefix that contains nothing.
PrefixFrom(a, bits) ==
  [address |-> a, bits |-> IF bits \in 0..Width(a.family) THEN bits ELSE -1]

\* Mutant: the embedded IPv4 address is taken to start one bit further up.
NormalizeShifted(p) ==
  IF Is4In6(p.address)
  THEN PrefixFrom(UnmapAddress(p.address), p.bits - (Offset - 1))
  ELSE p

\* normalizePrefix
NormalizePrefix(p) ==
  IF Is4In6(p.address) THEN PrefixFrom(UnmapAddress(p.address), p.bits - Offset) ELSE p

\* What ruleSet.add appends for a CIDR.
Stored(p) == NormalizePrefix(Masked(p))

\* Prefix.Contains
Contains(p, a) ==
  LET w == Width(a.family)
  IN  /\ p.bits >= 0
      /\ p.address.family = a.family
      /\ Top(p.address.value, w, p.bits) = Top(a.value, w, p.bits)

\* The test of ruleSet.matches, on the address Policy.Allows unmapped.
RuleMatches(p, a) == Contains(Stored(p), UnmapAddress(a))

CidrInit == cidr \in RawPrefix /\ probe \in Address

Probe == probe' \in Address /\ UNCHANGED cidr

CidrNext == Probe

CidrSpec == CidrInit /\ [][CidrNext]_cidrVars

-------------------------------------------------------------------------------
(* Properties *)

\* The 128-bit number both notations of an address stand for.
Embedded(a) ==
  IF a.family = 4 THEN (2^Ones - 1) * 2^Width4 + a.value ELSE a.value

EmbeddedBits(p) == IF p.address.family = 4 THEN p.bits + Offset ELSE p.bits

InBlock(p, a) ==
  Top(Embedded(p.address), Width(6), EmbeddedBits(p))
    = Top(Embedded(a), Width(6), EmbeddedBits(p))

\* A block of IPv4 addresses, in either notation: at least the mapped bits are
\* fixed, and fixed to the mapped pattern.
Is4Block(p) ==
  EmbeddedBits(p) >= Offset /\ Is4In6([family |-> 6, value |-> Embedded(p.address)])

\* A CIDR rule covers what it says whichever notation the rule and the address
\* use (rules.go normalizePrefix, policy.go Allows): IPv4 blocks cover the IPv4
\* addresses in them, all others the IPv6 addresses in them and no IPv4 address.
RuleCoversItsBlock ==
  RuleMatches(cidr, probe) <=>
    InBlock(cidr, probe) /\ (Is4Block(cidr) <=> UnmapAddress(probe).family = 4)

===============================================================================
