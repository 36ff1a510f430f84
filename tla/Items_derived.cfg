\* A create whose derived id frees up between its check and its write.
SPECIFICATION Spec
CONSTANTS
  c1 = c1
  c2 = c2
  Clients <- TwoClients
  N = 3
  Sites <- OneSite
  Requests <- OneCalls
  Stores <- OneStores
  MaxCalls = 2
SYMMETRY Symmetry
INVARIANT DerivedNotListed
