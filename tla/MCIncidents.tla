----------------------------- MODULE MCIncidents ------------------------------
(* Small instances of Incidents for TLC.                                   *)
EXTENDS Incidents, TLC

CONSTANT open

TwoIds     == 1..2
FourIds    == 1..4

MCFilters  == {{}, {open}}
OpenOnly   == {{open}}
MCLimits   == {-1, 3}
MCOffsets  == {-1, 1}
MCStarts   == {1, 2}
MCEnds     == {1}

Symmetry   == Permutations(Teams)
===============================================================================
