SPECIFICATION Spec
CONSTANTS
    d1 = d1
    d2 = d2
    d3 = d3
    n1 = n1
    n2 = n2
    Names = {n1, n2}
    Dirs = {d1, d2, d3}
    None = None
    MaxDepth = 3
SYMMETRY Symmetry
INVARIANTS TypeOK ToolIsRight KeyIsRight
