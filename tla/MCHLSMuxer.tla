---------------------------- MODULE MCHLSMuxer ----------------------------
(* The HLS muxer for TLC: the option sets that lead to different rotation   *)
(* and eviction.                                                            *)
EXTENDS HLSMuxer

ByTime     == [keyframeSplit |-> FALSE, cap |-> 0, keep |-> 0, count |-> 1]
ByKeyframe == [keyframeSplit |-> TRUE,  cap |-> 0, keep |-> 2, count |-> 1]
Capped     == [keyframeSplit |-> TRUE,  cap |-> 3, keep |-> 3, count |-> 1]

AllOptions == {ByTime, ByKeyframe, Capped}
\* Requests name a part, or the segment only.
SomeParts == {-1, 1}
=============================================================================
