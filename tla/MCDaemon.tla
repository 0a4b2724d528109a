------------------------------ MODULE MCDaemon ------------------------------
(* Two jobs for TLC.  Where both or neither were submitted with keep_awake *)
(* they are interchangeable.                                               *)
EXTENDS Daemon, TLC

CONSTANTS j1, j2

One == {j1}
Two == {j1, j2}
Interchangeable == Permutations(Two)
=============================================================================
