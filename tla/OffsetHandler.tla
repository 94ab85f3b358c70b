--------------------------- MODULE OffsetHandler ---------------------------
(***************************************************************************)
(* reader/offset_handler.go: rewrites the timestamps of one track so that  *)
(* they go on rising when the source reconnects or its clock wraps.  A     *)
(* handler keeps the packet before the one being read: `last' is that      *)
(* packet's timestamp after rewriting, or None.  The tracks of a source    *)
(* have a handler each.  Times are integers in an arbitrary unit, in which *)
(* ten milliseconds are Round and a minute is Wrap.                        *)
(***************************************************************************)
EXTENDS Integers

CONSTANTS Round, Wrap

ASSUME RoundAssumption == Round \in Nat \ {0}
ASSUME WrapAssumption == Wrap \in Nat

None == -1

NewHandler == [last |-> None, dur |-> 0, up |-> 0, down |-> 0]

\* Down to a multiple of the frame duration, then of ten milliseconds.
FloorTo(t, m) == IF m = 0 THEN t ELSE (t \div m) * m
OnGrid(t, dur) == FloorTo(FloorTo(t, dur), Round)

IsEmpty(h) == h.last = None

\* The timestamp applyToPkt gives a packet read with timestamp raw.
Rewritten(h, raw) == raw + h.up - h.down

\* CheckEmptyPacket: the first packet defines the origin.
CheckEmptyPacket(h, raw) == [h EXCEPT !.down = raw, !.last = h.up]

\* CheckTSWrap: a fall of more than a minute is a new origin.
CheckTSWrap(h, raw) ==
    IF h.last - Rewritten(h, raw) <= Wrap THEN h
    ELSE [h EXCEPT !.down = raw - h.dur, !.up = OnGrid(h.last, h.dur)]

\* Variant: the packet is dropped, and the offset stays where it was.
RecalcForGapKeepsOffset(h, elapsed) == [h EXCEPT !.last = None]

\* RecalcForGap: go on from the last packet and the time since it came in;
\* the packet itself is dropped.
RecalcForGap(h, elapsed) ==
    IF IsEmpty(h) THEN h
    ELSE [h EXCEPT !.up = OnGrid(h.last + elapsed, h.dur), !.last = None]
=============================================================================
