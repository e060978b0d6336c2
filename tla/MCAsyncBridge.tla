--------------------------- MODULE MCAsyncBridge ---------------------------
(* Instances of AsyncBridge for TLC.                                       *)
EXTENDS AsyncBridge

\* Every registered operation but the two of the runs that fail.
AllOperations == RepliedOperations \ {"symlink", "multiforget"}

\* Two operations tell apart who is served in which order.
FewOperations == {"write", "create"}

\* Masks of setattr: as utimes and touch send them, and as chown and truncate do.
FewMasks == <<{}, {"ATIME", "ATIME_NOW", "MTIME"}, {"MODE", "UID", "GID", "SIZE"},
              {"MTIME", "MTIME_NOW"}>>
=============================================================================
