---------------------------- MODULE MCDirStream ----------------------------
(* Instances of DirStream for TLC: entries of 2, 3 and 4 bytes, 4 for each *)
(* file in the layout, answers of 5 bytes, so that answers end in the      *)
(* middle of an entry and hold one or two.                                 *)
EXTENDS DirStream

CONSTANTS short, middle, long, other, dangling, longName1, longName2

MCEntrySize == [f \in {short, middle, long, other, dangling} |->
                   CASE f = middle -> 3 [] f = long -> 4 [] OTHER -> 2]
\* Entries longer than their share of the layout.
LongEntrySize == [f \in {longName1, longName2} |-> 5]

MCDirectories ==
    {<<short, middle, long, other>>, <<long, short, dangling, middle>>, <<other>>}
EmptyDirectories == {<<>>, <<other>>}
LongDirectories == {<<longName1, longName2>>}
LinkDirectories == {<<short, middle>>, <<short, dangling, middle>>}

\* The run of Listing.cfg is an instance of what is proved in DirStreamProofs.
ASSUME ListingIsSound == Directories = MCDirectories => SoundListing
=============================================================================
