SPECIFICATION Spec
CONSTANTS
    c1 = c1
    c2 = c2
    r1 = r1
    r2 = r2
    a1 = a1
    s1 = s1
    s2 = s2
    k1 = k1
    Conns <- TwoConns
    Requests <- TwoRequests
    Accounts <- OneAccount
    Cookies <- TwoCookies
    Keys <- OneKey
    MAX_SESSIONS_PER_ACCOUNT = 1
    MAX_API_KEYS_PER_ACCOUNT = 1
    Reaper = Reaper
    None = None
SYMMETRY Symmetry
INVARIANTS
    IInv
    RevokedKeysDie
    NoSocketLeaks
    SessionsCapped
