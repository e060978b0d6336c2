\* Paths are used once; inode numbers are used again.
SPECIFICATION Spec
CONSTANTS
    Paths <- MCPaths
    Inodes <- MCInodes
    Rebind = FALSE
    Readers = {r1, r2}
    MaxChanges = 6
INVARIANTS TypeOK KnownInodesResolve
SYMMETRY ReaderSymmetry
