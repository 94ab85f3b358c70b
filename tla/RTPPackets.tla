------------------------------ MODULE RTPPackets ------------------------------
(* format/rtp, the sending side: how h264_muxer.go and h265_muxer.go cut the   *)
(* NAL units of an access unit into RTP payloads, and what such a payload is.  *)
(* A NAL unit is a record of its kind and length; a run of its bytes is a      *)
(* piece [nal, from, to), so that what a receiver puts together can be told    *)
(* from what was sent without looking at bytes.                                *)
EXTENDS Integers, Sequences, SequencesExt

CONSTANT Mtu
\* Bytes of a NAL unit header, and of the header of a fragment before the payload.
HeaderSize == [h264 |-> 1, h265 |-> 2]
FragmentHeaderSize(codec) == HeaderSize[codec] + 1

Piece(nal, from, to) == [nal |-> nal, from |-> from, to |-> to]
Whole(nal) == <<Piece(nal, 0, nal.len)>>

\* Pieces that follow each other in one NAL unit are one piece.
Joined(pieces) ==
    LET Join(done, p) ==
          IF done # <<>> /\ Last(done).nal = p.nal /\ Last(done).to = p.from
          THEN Append(Front(done), Piece(p.nal, Last(done).from, p.to))
          ELSE Append(done, p)
    IN  FoldLeft(Join, <<>>, pieces)

Single(nal) == [k |-> "single", nals |-> <<nal>>]
Aggregate(nals) == [k |-> "stap", nals |-> nals]

\* A NAL unit larger than the MTU goes out in fragments of Mtu minus the fragment
\* header; the first and the last are marked.  The header of the NAL unit itself
\* is not sent: the receiver makes it from the fragment's.
Room(codec) == Mtu - FragmentHeaderSize(codec)
Fragment(codec, nal, from) ==
    LET to == from + Room(codec)
    IN  [k |-> "fu", nals |-> <<nal>>, from |-> from, to |-> IF to < nal.len THEN to ELSE nal.len,
         start |-> from = HeaderSize[codec], end |-> to >= nal.len]
Fragments(codec, nal) ==
    LET hdr   == HeaderSize[codec]
        count == (nal.len - hdr + Room(codec) - 1) \div Room(codec)
    IN  [i \in 1..count |-> Fragment(codec, nal, hdr + (i - 1) * Room(codec))]

\* WritePacket: the parameter sets before a keyframe, then the NAL units of the
\* access unit, each in one payload or in fragments.
WithSets(key, sets, nals) == IF key THEN sets \o nals ELSE nals
Payloads(codec, nal) == IF nal.len <= Mtu THEN <<Single(nal)>> ELSE Fragments(codec, nal)
WritePacket(codec, key, sets, nals) ==
    FoldLeft(LAMBDA done, nal : done \o Payloads(codec, nal), <<>>, WithSets(key, sets, nals))
===============================================================================
