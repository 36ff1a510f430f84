\* A connection that breaks twice; an item the server cannot write.
SPECIFICATION FairSpec
CONSTANTS
  Cap = 2
  MaxSent = 5
  MaxWire = 2
  MaxFailures = 2
  Unwritable = {4}
INVARIANT NothingMissedSilently
INVARIANT ResumeLosesNothing
INVARIANT ClosedStaysClosed
PROPERTY EveryItemHandled
