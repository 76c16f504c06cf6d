--------------------------- MODULE MCPlaySoundFile ---------------------------
(* Files of three blocks, of one short block, and of exactly two blocks.   *)
EXTENDS PlaySoundFile
CONSTANTS c1, c2, f1, f2, f3
OneCaller == {c1}
MCCallers == {c1, c2}
MCTracks == {f1, f2}
AllTracks == {f1, f2, f3}
LongTrack == {f1}
FullTrack == {f3}
MCSamples == [t \in Tracks |-> CASE t = f1 -> 10 [] t = f2 -> 3 [] t = f3 -> 8]
AllOptions == Option
NoStops == {"simple", "wait", "await"}
WithStops == {"simple", "wait", "stop"}
JustPlay == {"simple", "await"}
PlayAndStop == {"simple", "stop"}
=============================================================================
