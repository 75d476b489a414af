CONSTANTS
    Tables = {login_attempts, init_token_attempts}
    Slots = {0}
    Certs = {cert1, cert2}
    address = address
    None = None
    Peers <- SomePeers
    Calls = {c1, c2}
    max_login_attempts = 2
    MAX_THROTTLE_ENTRIES = 1
SPECIFICATION ThrottleSpec
SYMMETRY Symmetry
INVARIANT ThrottleBounds
PROPERTY LockoutHolds
