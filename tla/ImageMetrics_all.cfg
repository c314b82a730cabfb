\* Each collector by itself, for two cycles while images come, go and are
\* retagged.
SPECIFICATION Spec
CONSTANTS
    Enabling <- MCEnabling
    Images = {i1, i2}
    NoImage = NoImage
    Metadata <- MCMetadata
    MaxCycles = 2
SYMMETRY Symmetry
INVARIANTS TypeOK PublishedIsWhole OwnersAreExact LimitsAreExact
