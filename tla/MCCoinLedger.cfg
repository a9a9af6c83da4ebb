SPECIFICATION FairSpec
CONSTANTS
    c1 = c1  c2 = c2  c3 = c3
    o1 = o1  o2 = o2
    k1 = k1
    None = None
    Calls = {c1, c2, c3}
    Owners = {o1, o2}
    Keys = {k1}
    Credit = 2
    Debit = 1
    Amounts <- MCAmounts
    MaxBalance = 3
INVARIANTS TypeOK BalanceChain BookedOncePerKey ReversalsNetToZero RepliesAreTrue
PROPERTIES ImplementsBook CallsReturn
