SPECIFICATION Spec
CONSTANTS
    Folders = {d1, d2}
    FileNames = {n1, n2}
    Md5s = {m1, m2, m3}
    Long = {m2}
    Thousand = {m3}
    Workers = {w1, w2}
    Missing = Missing
    Damaged = Damaged
    Nothing = Nothing
INVARIANTS TypeOK RowsHaveContent
SYMMETRY Twins
