SPECIFICATION MCSpec
CONSTANTS
    c1 = c1  c2 = c2  c3 = c3  c4 = c4
    a1 = a1  a2 = a2  a3 = a3
    None = None
    Calls = {c1, c2, c3, c4}
    Accounts = {a1, a2, a3}
SYMMETRY Symmetry
INVARIANTS TypeOK SomeoneIsInCharge
PROPERTIES NeverLockedOut ImplementsRoster
