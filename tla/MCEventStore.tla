---------------------------- MODULE MCEventStore ----------------------------
(* A plan of one diff node b, a template that fans out to a, and a Verify   *)
(* node; a and b answer with the same diff.                                 *)
EXTENDS EventStore

SomeFates ==
  {[n \in {"a", "b"} |-> IF n = "a" THEN f[1] ELSE f[2]] :
     f \in {<<"good", "good">>, <<"good", "failed">>, <<"bad", "good">>}}

SameAnswer == [n \in {"a", "b"} |-> "d"]
=============================================================================
