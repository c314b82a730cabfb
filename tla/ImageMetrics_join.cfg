SPECIFICATION Spec
CONSTANTS
    Enabling = {{"rbd_images", "rbd_image_usage"}}
    Images = {i1, i2}
    NoImage = NoImage
    Metadata <- GoodMetadata
    MaxCycles = 1
INVARIANTS JoinIsExact
