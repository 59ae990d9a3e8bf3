SPECIFICATION Spec
CONSTANTS
    Conns = {k1, k2}
    Sessions = {s1, s2}
    Workers = {w1, w2}
    None = None
    Answers <- MCAnswers
    ChunkSizes = {1, 2}
    BlockSize = 2
    MaxRows = 3
SYMMETRY Symmetry
INVARIANTS StatementTypeOK CleanPool BlocksInOrder ScanOwnsConnection CountIsRowsInserted
