----------------------------- MODULE MCInstance -----------------------------
(* Three daemons and a client; any two of the daemons may start together.   *)
EXTENDS Instance, TLC

Symmetric == Permutations(Daemons)
=============================================================================
