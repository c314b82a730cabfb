SPECIFICATION Spec
CONSTANTS
    Enabling = {{"rbd_volumes"}}
    Images = {i1, i2}
    NoImage = NoImage
    Metadata <- GoodMetadata
    MaxCycles = 1
PROPERTIES NoImageHidesOthers
