---------------------------- MODULE MCPlayMelody ----------------------------
(* Two callers, a melody of two notes with a rest in it and one of one.    *)
EXTENDS PlayMelody, TLC
CONSTANTS c1, c2, m1, m2
MCCallers == {c1, c2}
OneCaller == {c1}
OneTrack == {m1}
MCTracks == {m1, m2}
MCNotes == [t \in Tracks |-> IF t = m1 THEN <<1, 0>> ELSE <<1>>]
=============================================================================
