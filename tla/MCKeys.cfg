SPECIFICATION Spec
CONSTANTS
    c1 = c1
    c2 = c2
    c3 = c3
    r1 = r1
    r2 = r2
    None = None
    Creates = {c1, c2, c3}
    Revokes = {r1, r2}
    NameOf <- TwoNames
    MaxEdits = 1
    MaxErrors = 1
INVARIANTS RevokedIsRejected CreatedIsAccepted Books
