CONSTANTS
  Resolvers = {r1, r2}
  Lists = {l1, l2, l3, l4}
  NoList = NoList
SPECIFICATION ResolverSpec
INVARIANT GatheredAreValid
