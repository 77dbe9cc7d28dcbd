SPECIFICATION FairSpec
CONSTANTS
  NChan = 3
  Op = {o1, o2}
  NoOp = NoOp
INVARIANTS RequestIntact StrobeRouting StrobeParity
PROPERTIES ServiceSpec ServedUnlessOutranked
