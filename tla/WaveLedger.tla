----------------------------- MODULE WaveLedger -----------------------------
(***************************************************************************)
(* What the wave loop promises about money, whatever it crashes on: a wave *)
(* is bought once, only after it is on record as formed, and only when     *)
(* every wave bought before it has been recorded and worked through.       *)
(* WaveLoop implements this specification (module WaveLoop_refines).       *)
(***************************************************************************)
EXTENDS Naturals

VARIABLES
  formed,     \* waves on record as about to be bought
  bought,     \* waves the provider was asked to run
  paid,       \* how many times it was asked
  recorded,   \* waves on record as bought
  completed   \* waves whose results are on record as processed

vars == <<formed, bought, paid, recorded, completed>>

Init ==
  /\ formed = {}
  /\ bought = {}
  /\ paid = 0
  /\ recorded = {}
  /\ completed = {}

\* Nothing that was bought is unknown to the record or still in flight.
Quiet == bought \subseteq recorded /\ recorded = completed

\* A wave may be formed again as long as it has not been bought.
Form ==
  /\ Quiet
  /\ \E w \in formed' : w \notin recorded /\ formed' = formed \cup {w}
  /\ UNCHANGED <<bought, paid, recorded, completed>>

Buy ==
  /\ Quiet
  /\ \E w \in formed \ bought : bought' = bought \cup {w}
  /\ paid' = paid + 1
  /\ UNCHANGED <<formed, recorded, completed>>

Record ==
  /\ recorded = completed
  /\ \E w \in bought \ recorded : recorded' = recorded \cup {w}
  /\ UNCHANGED <<formed, bought, paid, completed>>

Complete ==
  /\ \E w \in recorded \ completed : completed' = completed \cup {w}
  /\ UNCHANGED <<formed, bought, paid, recorded>>

Next == Form \/ Buy \/ Record \/ Complete

Spec == Init /\ [][Next]_vars
=============================================================================
