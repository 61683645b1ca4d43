SPECIFICATION Spec
CONSTANTS
    None = None
    NoVersion = NoVersion
    Target <- MCTarget
    Headers <- MCHeaders
    Extra <- MCExtra
    Tags = {1, 2, 3, 4}
    PageSizes = {0, 1, 3}
    PageCap = 2
    MaxChanges = 2
INVARIANTS
    TypeOK
    WalkComplete
    
PROPERTIES
    WalkEnds
