SPECIFICATION FairSpec
INVARIANTS TypeOK WatchIsKept
PROPERTIES TriggersAreNotLost ChangesAreNoticed
