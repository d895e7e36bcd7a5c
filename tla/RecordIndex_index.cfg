CONSTANTS
    Record = {r1, r2}
    Author = {a1, a2}
    Name = {n1, n2}
    Text = {t1, t2}
    Worker = {w1, w2}
    Blank = blank
    MaxOps = 2
SPECIFICATION Spec
INVARIANTS
    IndexOK
    EveryRecordFound
    IndexFollows
SYMMETRY Symmetry
