CONSTANTS
    WordBits = 2
    NWords = 3
    NReserved = 1
    NSlots = 3
    Mmio = {5}
    NoFrame = none
SPECIFICATION Spec
INVARIANTS
    NoAlias
    Accounted
    TlbCoherent
PROPERTIES
    TakesLowest
