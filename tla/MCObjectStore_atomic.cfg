SPECIFICATION Spec
CONSTANTS
    Digests = {d1}
    Types = {chartType, octetStream}
    NoType = NoType
    Writers = {w1, w2}
    AttrRung = 3
    CreateMode = "Atomic"
    Faults = {"HeadOutage", "Denied"}
PROPERTIES
    RefinesContentStore
