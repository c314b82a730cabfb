\* Missing and broken files, two realms, which may have the same name, and a
\* collector that does not exist.
SPECIFICATION Spec
CONSTANTS
    Collectors = {"rbd_images", "rgw_buckets", "rbd_image"}
    Factories = {"rbd_images", "rgw_buckets"}
    RBD = {"rbd_images", "rbd_image"}
    DefaultEnabled = {"rbd_images"}
    east = east
    west = west
    RealmNames = {east, west}
    DefaultClient = DefaultClient
    MaxRealms = 2
    Times <- MCTimes
    NoNumber = NoNumber
    Default <- MCDefault
    Configs <- MCConfigs
INVARIANTS TypeOK CollectorsCanCollect OperationsAreBounded FlagsWin
CHECK_DEADLOCK FALSE
