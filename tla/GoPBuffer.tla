------------------------------ MODULE GoPBuffer ------------------------------
(***************************************************************************)
(* The buffer of a WebRTC stream (writer/webrtc/buffer.go): the last       *)
(* packets of a source in groups of pictures, each a keyframe and what     *)
(* follows it, here one sequence, in which a group goes from a keyframe to *)
(* the next.  A packet is a record with a kind ("key", "delta", "audio")   *)
(* and a start time t, which rises; a video packet lasts one unit.  The    *)
(* durations kept in the code are the sums written here.                   *)
(***************************************************************************)
EXTENDS Integers, Sequences, FiniteSets, SequencesExt, FiniteSetsExt

CONSTANTS
    TargetDuration,  \* targetDuration
    HardCap          \* hardCapDuration, one second more

ASSUME DurationsAssumption ==
    TargetDuration \in Nat \ {0} /\ HardCap \in Nat /\ HardCap > TargetDuration

Video(p) == p.kind # "audio"
Key(p) == p.kind = "key"
Units(ps) == Cardinality({i \in 1 .. Len(ps) : Video(ps[i])})
From(ps, i) == SubSeq(ps, i, Len(ps))
Groups(ps) == {i \in 1 .. Len(ps) : Key(ps[i])}

\* AdjustSize, after a keyframe: the oldest group goes if the others are enough.
AdjustSize(ps) ==
    LET others == Groups(ps) \ {1}
    IN IF others = {} THEN ps
       ELSE IF Units(From(ps, Min(others))) < TargetDuration THEN ps
       ELSE From(ps, Min(others))

\* adjustHardCap: whole groups go while the rest fills the cap; of a group that
\* is alone, the packets behind its keyframe.
DropGroups(ps) ==
    LET enough(i) == \E j \in Groups(ps) : j > i /\ Units(From(ps, j)) >= HardCap
    IN From(ps, Min({i \in Groups(ps) : ~ enough(i)}))
ShiftGroup(ps) ==
    LET left(i) == <<Head(ps)>> \o From(ps, i)
    IN left(Min({i \in 2 .. Len(ps) + 1 : i > Len(ps) \/ Units(left(i)) <= HardCap}))
adjustHardCap(ps) ==
    LET left == DropGroups(ps)
    IN IF Cardinality(Groups(left)) = 1 THEN ShiftGroup(left) ELSE left

\* AddPacket; nothing is stored before the first keyframe.
Stores(ps, p) == Key(p) \/ ps # <<>>
AddPacket(ps, p) ==
    LET capped == adjustHardCap(Append(ps, p))
    IN IF Key(p) THEN AdjustSize(capped) ELSE capped

\* The elements at some indices, in their order.
Picked(ps, I) ==
    [k \in 1 .. Cardinality(I) |->
        ps[CHOOSE i \in I : Cardinality({j \in I : j <= i}) = k]]

\* GetBuffer: from the group that was running at ts, the video before ts (the
\* seed), and everything from ts on (the rest); all there is, if none was.
GetBuffer(ps, ts) ==
    LET running == {i \in Groups(ps) : ps[i].t <= ts}
        some == From(ps, Max(running))
    IN IF running = {} THEN [seed |-> <<>>, rest |-> ps]
       ELSE [seed |-> Picked(some, {i \in 1 .. Len(some) : some[i].t < ts /\ Video(some[i])}),
             rest |-> Picked(some, {i \in 1 .. Len(some) : some[i].t >= ts})]
=============================================================================
