SPECIFICATION AuthSpec
CONSTANTS
    Emails <- TwoSpellings
    Lower <- LowerCase
    Passwords = {p1, p2}
    Logins = {l1, l2}
    AuthCalls = {c1, c2}
    TTL = 1
    MaxClock = 2
    AuthFaults <- EveryAuthFault
    MaxAuthFaults = 1
SYMMETRY AuthSymmetry
CHECK_DEADLOCK FALSE
INVARIANTS SessionTypeOK RefusedWhenOver GrantedIfMatched HandledAsAdmin NotSeenAfterExpiry
