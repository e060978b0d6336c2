-------------------------- MODULE MCMountLifecycle --------------------------
(* Instances of MountLifecycle for TLC.                                    *)
EXTENDS MountLifecycle

MCOptions == {<<"program">>, <<"program", "mountpoint">>}
NoOptions == {<<>>}
OneMount == {<<"program", "mountpoint">>}
=============================================================================
