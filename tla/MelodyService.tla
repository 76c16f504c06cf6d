---------------------------- MODULE MelodyService ----------------------------
(***************************************************************************)
(* What the melody player promises its callers: at most one track plays at *)
(* a time; a track starts because a call in progress asked for it, and at  *)
(* most once for each call; its notes are played in order, each once, to   *)
(* the last one unless the playing is cut.                                 *)
(***************************************************************************)
EXTENDS Naturals

CONSTANTS Callers, Tracks, NoTrack,
          Length        \* number of notes of each track

VARIABLES playing,      \* the track that plays
          played,       \* how many of its notes were played
          pending,      \* the track asked for by each call in progress
          cut           \* the current playing is to be cut

vars == <<playing, played, pending, cut>>

Init ==
    /\ playing = NoTrack
    /\ played = 0
    /\ pending = [c \in Callers |-> NoTrack]
    /\ cut \in BOOLEAN

Ask(c, t) ==
    /\ pending[c] = NoTrack
    /\ pending' = [pending EXCEPT ![c] = t]
    /\ UNCHANGED <<playing, played, cut>>

Begin(c) ==
    /\ pending[c] # NoTrack
    /\ playing = NoTrack
    /\ playing' = pending[c]
    /\ played' = 0
    /\ pending' = [pending EXCEPT ![c] = NoTrack]
    /\ UNCHANGED cut

Ignore(c) ==
    /\ pending[c] # NoTrack
    /\ pending' = [pending EXCEPT ![c] = NoTrack]
    /\ UNCHANGED <<playing, played, cut>>

Note ==
    /\ playing # NoTrack
    /\ played < Length[playing]
    /\ played' = played + 1
    /\ UNCHANGED <<playing, pending, cut>>

End ==
    /\ playing # NoTrack
    /\ cut \/ played = Length[playing]
    /\ playing' = NoTrack
    /\ played' = 0
    /\ UNCHANGED <<pending, cut>>

\* a stop takes effect between two notes; it also leaves its mark when
\* nothing plays
Cut ==
    /\ cut' = TRUE
    /\ UNCHANGED <<playing, played, pending>>

\* a call in progress clears the mark
Uncut(c) ==
    /\ pending[c] # NoTrack
    /\ cut' = FALSE
    /\ UNCHANGED <<playing, played, pending>>

Next ==
    \/ \E c \in Callers : (\E t \in Tracks : Ask(c, t)) \/ Begin(c) \/ Ignore(c)
                         \/ Uncut(c)
    \/ Note \/ End \/ Cut

Spec == Init /\ [][Next]_vars
=============================================================================
