CONSTANTS
    Record = {r1, r2}
    Author = {a1}
    Name = {n1}
    Text = {t1}
    Worker = {w1}
    Blank = blank
    MaxOps = 1
SPECIFICATION Spec
INVARIANT RomanizedFormsFound
