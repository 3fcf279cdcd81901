---------------------------- MODULE MCThumbCache ----------------------------
(***************************************************************************)
(* Instances of ThumbCache for TLC.                                        *)
(***************************************************************************)
EXTENDS ThumbCache, TLC, SequencesExt

CONSTANTS a, b, c, wide, narrow, half, auto, forced

Three == {a, b, c}

\* Covers that decode, one of them late, and one that fails part way.
MixedCovers == [g \in Games |->
    IF g = a THEN "costly" ELSE IF g = b THEN "corrupt" ELSE "cheap"]
\* One the decoder refuses to open, between two that compete for one slot.
NoisyCovers == [g \in Games |->
    IF g = a THEN "costly" ELSE IF g = b THEN "broken" ELSE "cheap"]

Sorted == {SetToSeq(Games)}

\* Two settings that cut some covers differently and some alike.
TwoSettings == {auto, forced}
OneSetting == {auto}
Cut == [r \in Regions |-> [g \in Games |-> IF r = forced /\ g # a THEN narrow ELSE wide]]
=============================================================================
