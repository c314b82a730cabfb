\* Two clients contend for the channel and for selfMu; either may hang.
SPECIFICATION LiveSpec
CONSTANTS
    Clients = {k1, k2}
    MaxEmit = 2
INVARIANTS TypeOK ResultIsComplete NoSendOnClosed
PROPERTIES HandsOverAtOnce SendersAreServed CollectionEnds
CHECK_DEADLOCK FALSE
