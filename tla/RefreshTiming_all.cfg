\* Four regimes, a lock that may take a moment to have, and time for up to five cycles.
SPECIFICATION Spec
CONSTANTS
    Regimes <- MCRegimes
    Lag = 1
    MaxNow = 9
INVARIANTS TypeOK CyclesKeepPace StampIsHonest InFlightIsBounded NoTimeNoData
    StalenessIsVisible
PROPERTIES InTimeMeansPublished
