SPECIFICATION Spec
CONSTANTS
    c1 = c1  c2 = c2  c3 = c3
    o1 = o1
    k1 = k1
    None = None
    Calls = {c1, c2, c3}
    Owners = {o1}
    Keys = {k1}
    Credit = 1
    Debit = 1
    Amounts <- MCAmounts
    MaxBalance = 2
PROPERTIES RetryReturnsOriginal
