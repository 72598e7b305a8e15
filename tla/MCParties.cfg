SPECIFICATION Spec
CONSTANTS
    c1 = c1
    c2 = c2
    c3 = c3
    c4 = c4
    Characters <- FourCharacters
    MAX_PARTY_SIZE = 3
    NoOne = NoOne
    MaxParties = 2
    MaxClock = 5
SYMMETRY Symmetry
CHECK_DEADLOCK FALSE
INVARIANTS
    RosterConsistent
    RequestsUnambiguous
    NoGhosts
PROPERTIES
    MutualConsent
    ImplementsRoster
