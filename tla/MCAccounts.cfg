SPECIFICATION MCSpec
CONSTANTS
    c1 = c1  c2 = c2
    u1 = u1  u2 = u2
    p1 = p1  p2 = p2  e1 = e1
    s1 = s1  s2 = s2  s3 = s3
    None = None
    Calls = {c1, c2}
    Users = {u1, u2}
    Phones = {p1, p2}
    Emails = {e1}
    Kinds = {"register", "reset", "bind", "delete", "send"}
    Sent <- MCSent
SYMMETRY Symmetry
INVARIANTS TypeOK
PROPERTIES ChangesAreProven
