SPECIFICATION MCAccessSpec
CONSTANTS
    c1 = c1  c2 = c2  c3 = c3
    u1 = u1
    p1 = p1  p2 = p2
    s1 = s1  s2 = s2  s3 = s3
    None = None
    Calls = {c1, c2, c3}
    Users = {u1}
    Phones = {p1}
    Emails = {}
    Kinds = {"password", "code", "reset", "delete", "refresh", "logout", "logoutAll", "switch", "addRole", "disable", "enable"}
    Sent <- MCSentOne
SYMMETRY Symmetry
INVARIANTS ResetIsFinal RoleIsHeld LastSwitchWins DisabledStayOut DeletedStayOut
