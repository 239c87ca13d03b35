\* 2 + 2 + 3 bits instead of 80 + 16 + 32: every prefix length, below, at and
\* above the boundary of the mapped form.
CONSTANTS
  Width4 = 3
  Ones = 2
  Zeros = 2
SPECIFICATION CidrSpec
INVARIANTS
  RuleCoversItsBlock
