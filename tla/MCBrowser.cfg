SPECIFICATION MCSpec
CONSTANTS
    c1 = c1  c2 = c2  c3 = c3  c4 = c4
    u1 = u1  u2 = u2
    None = None
    Calls = {c1, c2, c3, c4}
    Users = {u1, u2}
    MaxOdd = 1
    MaxTrouble = 2
SYMMETRY Symmetry
INVARIANTS BrowserTypeOK SignedOut DeadTokensAreRefused LineIsSpent TwoDevicesNeedOverlap DeadCookieHasACause LoggedOutMeansOut
PROPERTIES WorkingCookieKept
