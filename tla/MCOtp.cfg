SPECIFICATION MCSpec
CONSTANTS
    c1 = c1  c2 = c2  c3 = c3
    phone = phone
    login = login  v1 = v1  v2 = v2
    None = None
    Calls = {c1, c2, c3}
    Targets = {phone}
    Purposes = {login}
    Values = {v1, v2}
    MaxAttempts = 1
    TTL = 1
    Cooldown = 1
    Day = 3
    DailyLimit = 2
    Horizon = 4
SYMMETRY Symmetry
INVARIANTS TypeOK AcceptedInGoodFaith LockedOut MissesCounted CooldownKept DailyLimitKept
