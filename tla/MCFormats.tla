------------------------------- MODULE MCFormats -------------------------------
(* The formats for TLC, each in behaviours of its own: the live HLS playlist,  *)
(* the fragments it is made of, the packets put together from RTP payloads,    *)
(* the rings these packets are in, the MP4 file written and read back, the     *)
(* packets decoded and encoded.                                                *)
EXTENDS MCHLSMuxer, Coders

CONSTANTS Formats,
          Mtu, Codecs, WrapperFrames, MaxUnits, MaxFaults,   \* of RTPReceiver
          Layouts, MaxPackets, MaxDuration, Gaps, Foreign,   \* of MP4Muxer, MP4Demuxer
          Pairs, Second, TimeScale, PacketTimes, MaxInt16, MaxWritten,  \* of FragmentMuxer
          InitSize, Meg, Windows, Requests, Slots, MaxAllocs   \* of GrowingRing

VARIABLES format,
          kind, net, depack, held, out, expected, units, faults, over,
          layout, batched, mux, file, written, freed, stage, tables, place, taken, eof,
          params, strs, ready, accepted, fragments,
          caps, tails, inUse, maxCap, allocs, refused

RTP == INSTANCE RTPReceiver WITH closed <- over, d <- depack
MP4 == INSTANCE MP4Demuxer WITH at <- place, got <- taken
FMP4 == INSTANCE FragmentMuxer
Ring == INSTANCE GrowingRing

rtpVars == <<kind, net, depack, held, out, expected, units, faults, over>>
mp4Vars == <<layout, batched, mux, file, written, freed, stage, tables, place, taken, eof>>
fmp4Vars == <<params, strs, ready, accepted, fragments>>
ringVars == <<caps, tails, inUse, maxCap, allocs, refused>>
MCVars  == <<format, vars, rtpVars, mp4Vars, fmp4Vars, ringVars, coderVars>>

MCLayouts == {<<"h264", "aac">>, <<"h265">>, <<"mjpeg">>}
MCForeign == {<<1, 1, 3>>, <<2, 2, 1>>, <<3, 1, 1, 2>>, <<2, 3>>, <<5>>}
Stream(codec, index, width) == [codec |-> codec, index |-> index, width |-> width]
MCPairs == {<<Stream("h264", 0, 2), Stream("aac", 1, 0)>>, <<Stream("h265", 0, 3)>>,
            <<Stream("aac", 1, 0)>>, <<Stream("h264", 0, 2), Stream("pcm", 1, 0)>>}
\* Durations that are not whole ticks: rounded up, rounded down, halves.
MCTimeScale == [h264 |-> 3, h265 |-> 3, aac |-> 2]
\* A timestamp that falls, and a gap that is too long: durations 1 and 2.
MCGaps == {-1, 3}

\* What the other formats have still to choose does not matter.
MCInit ==
    /\ format \in Formats
    /\ Init /\ RTP!ReceiverInit /\ MP4!Init /\ FMP4!Init /\ Ring!Init /\ CoderInit
    /\ format # "hls" => opt = ByTime
    /\ format # "rtp" => kind = "audio"
    /\ format # "mp4" => layout = <<"mjpeg">> /\ ~batched
    /\ format # "fmp4" => params = <<Stream("aac", 1, 0)>>
    /\ format # "raw" => coder = "audio"

HLSStep   == format = "hls"  /\ Next /\ UNCHANGED <<rtpVars, mp4Vars, fmp4Vars, ringVars, coderVars>>
RTPStep   == format = "rtp"  /\ RTP!ReceiverNext /\ UNCHANGED <<vars, mp4Vars, fmp4Vars, ringVars, coderVars>>
MP4Step   == format = "mp4"  /\ MP4!Next /\ UNCHANGED <<vars, rtpVars, fmp4Vars, ringVars, coderVars>>
FMP4Step  == format = "fmp4" /\ FMP4!Next /\ UNCHANGED <<vars, rtpVars, mp4Vars, ringVars, coderVars>>
RingStep  == format = "ring" /\ Ring!Next /\ UNCHANGED <<vars, rtpVars, mp4Vars, fmp4Vars, coderVars>>
RawStep   == format = "raw"  /\ CoderNext /\ UNCHANGED <<vars, rtpVars, mp4Vars, fmp4Vars, ringVars>>

MCNext ==
    /\ \/ HLSStep \/ RTPStep \/ MP4Step \/ FMP4Step \/ RingStep \/ RawStep
    /\ UNCHANGED format

MCSpec == MCInit /\ [][MCNext]_MCVars

\* FramesIntact of RTPReceiver: the frames put together are the frames sent.
FramesIntact == RTP!FramesIntact

\* FileReadsBack of MP4Demuxer and FragmentsRead of FragmentMuxer: a file, and a
\* fragment, is read back as it was written.
FileReadsBack == MP4!FileReadsBack /\ FMP4!FragmentsRead

\* GrowsToBudget of GrowingRing: a ring grows as long as it may, and no longer.
\* With it, EvictedSlotsReleased of HLSMuxer, SlotsOwnedOnce of RTPReceiver,
\* PacketsReleasedOnce of MP4Muxer and CodersOwnOnce of Coders: every packet and
\* every slot has one owner until it is released, whatever fails on the way.
OwnedOnce ==
    /\ Ring!GrowsToBudget /\ EvictedSlotsReleased /\ RTP!SlotsOwnedOnce
    /\ MP4!PacketsReleasedOnce /\ CodersOwnOnce
===============================================================================
