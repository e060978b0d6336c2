----------------------------- MODULE MCLoopback -----------------------------
(***************************************************************************)
(* A folder with two directories and a file in each.                       *)
(***************************************************************************)
EXTENDS Loopback, TLC

MCPaths == {<<"d">>, <<"d", "f">>, <<"g">>, <<"g", "f">>}
MCInodes == {2, 3, 4}
ReaderSymmetry == Permutations(Readers)
=============================================================================
