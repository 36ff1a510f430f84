\* Any two overlapping calls: given ids under an optional key on any small store
\* of three records; a required key, derived ids and a vault that fails.
SPECIFICATION Spec
CONSTANTS
  c1 = c1
  c2 = c2
  Clients <- TwoClients
  N = 5
  Sites <- AllSites
  Requests <- AllCalls
  Stores <- AllStores
  MaxCalls = 2
SYMMETRY Symmetry
INVARIANT ApartIsExact
INVARIANT RefusedWritesNothing
INVARIANT AnnouncedUnlessFault
INVARIANT NoSelfParent
