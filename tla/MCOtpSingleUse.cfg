SPECIFICATION Spec
CONSTANTS
    c1 = c1  c2 = c2  c3 = c3
    phone = phone
    login = login  v1 = v1
    None = None
    Calls = {c1, c2, c3}
    Targets = {phone}
    Purposes = {login}
    Values = {v1}
    MaxAttempts = 1
    TTL = 1
    Cooldown = 0
    Day = 0
    DailyLimit = 0
    Horizon = 2
SYMMETRY Symmetry
INVARIANTS SingleUse
