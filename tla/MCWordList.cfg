SPECIFICATION MCSpec
CONSTANTS
    c1 = c1  c2 = c2 c3 = c3
    w1 = w1  w2 = w2
    s1 = s1  s2 = s2
    r1 = r1
    None = None
    Calls = {c1, c2, c3}
    Words = {w1, w2}
    Senses = {s1, s2}
    Rels = {r1}
    MaxChanges = 1
SYMMETRY Symmetry
INVARIANTS TypeOK TargetsFit PublishedComplete
PROPERTIES NothingOverwritten ImplementsTrees
