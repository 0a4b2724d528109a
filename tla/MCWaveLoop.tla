---------------------------- MODULE MCWaveLoop ----------------------------
(* The plans on which TLC checks WaveLoop.                                 *)
EXTENDS WaveLoop_refines

None == {}
NoSets == [n \in Node |-> {}]
OneGroup == [n \in Node |-> 1]
Self == [n \in Node |-> n]

Six == 1..6

\* An exploration feeds two edits that render the same prompt (2, 3) and one an
\* earlier job paid for (4); verify 5 waits for the three.  Edit 6 (the prompt
\* of 2 again) needs 2, 3 and, behind gate 7, the analysis 8 of another group.
Eight == 1..8
EightKind == <<"explore", "diff", "diff", "diff", "verify", "diff", "gate", "call">>
EightDeps == <<{}, {1}, {1}, {1}, {2, 3, 4}, {2, 3, 8}, {}, {7}>>
EightPrompt == <<1, 2, 2, 4, 5, 2, 7, 8>>
EightGroup == <<1, 1, 1, 1, 1, 1, 1, 2>>
EightCached == {4}

\* A remote analysis whose answer lists the bindings of template 2, which fans
\* out to edits 4 and 5; call 3 waits for all of them ("2.*"), verify 6 for one.
FanInitial == {1, 2, 3, 6}
FanKind == <<"call", "template", "call", "diff", "diff", "verify">>
FanDeps == <<{}, {1}, {}, {1}, {1}, {4}>>
FanStar == <<{}, {}, {2}, {}, {}, {}>>
FanChildren == <<{}, {4, 5}, {}, {}, {}, {}>>
FanList == {1}
FanCached == {4}

\* Two edits, independent or on one file.
Two == {1, 2}
TwoDiffs == <<"diff", "diff">>
TwoOverlap == <<{2}, {1}>>

\* One node on its own.
One == {1}
OneDiff == <<"diff">>
=============================================================================
