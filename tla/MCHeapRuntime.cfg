SPECIFICATION Spec
CONSTANTS
  t1 = t1
  t2 = t2
  t3 = t3
  foreign = foreign
  own = own
  NoOwner = NoOwner
  Threads <- MCThreads
  Owners <- MCOwners
  OwnerOf <- MCOwnerOf
  MaxCalls = 2
  MaxLive = 1
SYMMETRY MCSymmetry
INVARIANTS TeardownExclusive
PROPERTIES NoAllocAfterTeardown
