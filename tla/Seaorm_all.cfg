\* Any two overlapping calls over a pool of one or two connections: given ids under
\* an optional key; a required key, derived ids and faults.  Under fairness.
SPECIFICATION FairSpec
CONSTANTS
  c1 = c1
  c2 = c2
  Clients <- TwoClients
  N = 5
  Sites <- AllSites
  Requests <- AllCalls
  Stores <- AllTables
  MaxCalls = 2
INVARIANT TypeOK
INVARIANT ApartIsExact
PROPERTY AllOrNothing
PROPERTY NoneSkipped
PROPERTY EveryCallReturns
