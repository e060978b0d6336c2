\* Two readers of one directory at a time, cut and repeated answers.
SPECIFICATION Spec
CONSTANTS
    short = short
    middle = middle
    long = long
    other = other
    dangling = dangling
    longName1 = longName1
    longName2 = longName2
    Hole = Hole
    Readers = {1, 2}
    Directories <- MCDirectories
    Broken = {dangling}
    EntrySize <- MCEntrySize
    RequestedSize = 5
    PerFile = 4
    SizeRange = 64
    MaxRewinds = 2
INVARIANTS TypeOK ListsInOrder AnswersAreEntries EndIsComplete
PROPERTIES ListingEnds
