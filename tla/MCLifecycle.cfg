SPECIFICATION FairSpec
CONSTANTS
    k1 = k1
    k2 = k2
    i1 = i1
    i2 = i2
    a1 = a1
    a2 = a2
    c1 = c1
    c2 = c2
    c3 = c3
    Conns <- TwoConns
    Identities <- TwoIdentities
    Accounts <- TwoAccounts
    Characters <- ThreeCharacters
    MAX_CHARACTERS_PER_ACCOUNT = 2
    None = None
INVARIANTS
    OneSessionPerCharacter
    SessionWithinAccount
PROPERTIES
    GhostsFade
