SPECIFICATION Spec
CONSTANTS
    short = short
    middle = middle
    long = long
    other = other
    dangling = dangling
    longName1 = longName1
    longName2 = longName2
    Hole = Hole
    Readers = {1}
    Directories <- LinkDirectories
    Broken = {dangling}
    EntrySize <- MCEntrySize
    RequestedSize = 5
    PerFile = 4
    SizeRange = 64
    MaxRewinds = 2
INVARIANT SameContent
