---------------------------- MODULE MCOpenFiles ----------------------------
(* Instances of OpenFiles for TLC: handles that fit, and handles that do   *)
(* not.                                                                    *)
EXTENDS OpenFiles

\* One file is for readers, the others for all.
Modes == {"rdonly", "wronly", "rdwr"}
ReadersFirst == [o \in Opens |-> IF o = 1 THEN {"rdonly"} ELSE Modes]

Fitting == {0, 1, 3}
Pointers == {1, 5}
=============================================================================
