SPECIFICATION Spec
CONSTANTS
  c1 = c1
  c2 = c2
  r1 = r1
  p1 = p1
  k1 = k1
  k2 = k2
  Channels = {c1, c2}
  Rules = {r1}
  Projects = {p1}
  Clients = {k1, k2}
  MaxFaults = 0
SYMMETRY ClientSymmetry
INVARIANTS
  ReplacedCredentialIsThere
