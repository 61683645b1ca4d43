SPECIFICATION Spec
CONSTANTS
    None = None
    Entries <- MCEntries
    MaxEntries = 5
    LongNames <- MCLongNames
    UnsafeNames <- MCUnsafeNames
    Encodings = {2, 4}
    Rewrite <- MCRewrite
    MaxExpanded = 5
    MaxFile = 3
    MaxFiles = 4
INVARIANTS
    NamesResolved
    
    
