\* Two subscriptions, cancelled, closed, lagging and panicking at any point.
SPECIFICATION FairSpec
CONSTANTS
  Cap = 2
  MaxSubs = 2
  MaxSent = 3
INVARIANT LiveIffRunning
INVARIANT NothingSkippedSilently
PROPERTY SubscriptionsEnd
PROPERTY EveryItemReported
