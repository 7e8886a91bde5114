CONSTANTS
  Streams = {t1, t2, t3}
  Servers = {s1, s2}
  Descriptors = {0, 1, 2, 3}
  Resolvers = {r1, r2}
  Lists = {l1, l2, l3}
  NoList = NoList
SYMMETRY OwnersSymmetry
SPECIFICATION OwnersSpec
INVARIANTS
  OwnersTypeOK
  OneOwner
  FreedOnce
