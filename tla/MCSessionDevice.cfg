SPECIFICATION Spec
CONSTANTS
    c1 = c1  c2 = c2  c3 = c3  c4 = c4
    u1 = u1
    None = None
    Calls = {c1, c2, c3}
    Users = {u1}
SYMMETRY Symmetry
INVARIANTS SingleDevice
