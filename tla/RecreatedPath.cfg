\* A path whose file has gone is used again.
SPECIFICATION Spec
CONSTANTS
    Paths <- MCPaths
    Inodes <- MCInodes
    Rebind = TRUE
    Readers = {r1, r2}
    MaxChanges = 3
INVARIANTS KnownInodesResolve
SYMMETRY ReaderSymmetry
