SPECIFICATION FairSpec
CONSTANTS
    Digests = {d1}
    Types = {chartType, octetStream}
    NoType = NoType
    Writers = {w1, w2}
    AttrRung = 2
    CreateMode = "NotSupported"
    Faults = {"HeadOutage", "Generic", "Denied", "LostReply"}
INVARIANTS
    SuccessMeansStored
PROPERTIES
    PutEnds
    WritesAreTheCallers
