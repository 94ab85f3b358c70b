---------------------------- MODULE FragmentMuxer ----------------------------
(* format/fmp4: the init segment, and fragments of styp, moof and mdat with   *)
(* the packets written since the fragment before.  What a player reads in a   *)
(* fragment is found with the defaults of the track header (tfhd) and the     *)
(* fields the flags of its run (trun) announce, as Unmarshal of mp4io does.   *)
EXTENDS Integers, Sequences, FiniteSets, SequencesExt, Functions

CONSTANTS Pairs,       \* the codec parameters given to Mux: one or two streams
          Second,      \* time.Second in units of duration
          TimeScale,   \* ticks of a second, by codec
          PacketTimes, \* of packets, in units
          MaxInt16,    \* maxInt16Value
          MaxWritten   \* bound: packets written

VARIABLES params,     \* the parameters, with what they are: codec, index, width
          strs,       \* the streams made of those that are supported
          ready,      \* Mux has returned nil
          accepted,   \* the packets accepted, by fragment, the last not made yet
          fragments   \* the fragments made

fragmentVars == <<params, strs, ready, accepted, fragments>>

(* ---------------------------- Times and streams ---------------------------- *)

Supported == {"h264", "h265", "aac"}

\* timeToTS: rounded, not cut.
Ticks(codec, tm) ==
    (tm \div Second) * TimeScale[codec]
    + ((tm % Second) * TimeScale[codec] + Second \div 2) \div Second

\* newStream, with no packets yet.
NewStr(par) == [codec |-> par.codec, index |-> par.index, packets |-> <<>>, first |-> 0,
                dur |-> 0, size |-> 0]

\* Mux and processMuxer stop at the first codec that is not supported.
Streams(pars) ==
    LET ok == {n \in 0..Len(pars) : \A i \in 1..n : pars[i].codec \in Supported}
        n  == CHOOSE n \in ok : \A o \in ok : o <= n
    IN  [i \in 1..n |-> NewStr(pars[i])]

Init == /\ params \in Pairs
        /\ strs = <<>> /\ ready = FALSE /\ accepted = <<<<>>>> /\ fragments = <<>>

\* Its caller gives up a muxer whose Mux failed.
Mux ==
    /\ ~ready /\ strs = <<>>
    /\ strs' = Streams(params)
    /\ ready' = (Len(Streams(params)) = Len(params))
    /\ UNCHANGED <<params, accepted, fragments>>

(* ------------------------------- WritePacket ------------------------------- *)

\* A packet goes to the stream at the place its stream index names; there is none
\* for the second media of a description whose first was left out.
Written(pkt) ==
    /\ accepted' = [accepted EXCEPT ![Len(accepted)] = Append(@, pkt)]
    /\ strs' = [strs EXCEPT ![pkt.index + 1] =
                  [@ EXCEPT !.first = IF strs[pkt.index + 1].packets = <<>> THEN pkt.ts ELSE @,
                            !.packets = Append(@, pkt),
                            !.dur = @ + pkt.dur,
                            !.size = @ + pkt.size]]

Count == FoldFunction(LAMBDA part, n : n + Len(part), 0, accepted)
WritePacket(pkt) ==
    /\ ready /\ Count < MaxWritten
    /\ IF pkt.index >= Len(strs) THEN UNCHANGED <<accepted, strs>> ELSE Written(pkt)
    /\ UNCHANGED <<params, ready, fragments>>

\* The packets of a stream follow each other without gaps.
Elapsed(index) ==
    LET mine == SelectSeq(FlattenSeq(accepted), LAMBDA p : p.index = index)
    IN  IF mine = <<>> THEN 0 ELSE Last(mine).ts + Last(mine).dur
WriteAny ==
    \E i \in DOMAIN params, key \in BOOLEAN, size \in 1..2, dur \in PacketTimes :
       /\ params[i].codec = "aac" => ~key /\ size = 1
       /\ WritePacket([id |-> Count + 1, index |-> params[i].index, key |-> key,
                       video |-> params[i].codec # "aac", size |-> size, dur |-> dur,
                       ts |-> Elapsed(params[i].index)])

(* ------------------------------ GetMP4Fragment ----------------------------- *)

Flags(pkt) == IF pkt.video /\ ~pkt.key THEN "non-sync" ELSE "sync"

\* processTrackHeader: what the first packet is, and the flags of the second, as
\* those of the rest.
Tfhd(s) ==
    LET ps == s.packets
    IN  IF ps = <<>> THEN [dur |-> 0, size |-> 0, flags |-> "none"]
        ELSE [dur |-> Ticks(s.codec, ps[1].dur), size |-> ps[1].size,
              flags |-> Flags(ps[IF Len(ps) > 1 THEN 2 ELSE 1])]

\* processPackets: the entries of the run, and which of their fields are needed.
Trun(s) ==
    LET ps      == s.packets
        default == Tfhd(s)
        entries == [i \in DOMAIN ps |-> [dur |-> Ticks(s.codec, ps[i].dur), size |-> ps[i].size,
                                         flags |-> Flags(ps[i])]]
        needs(field, from) == \E i \in from..Len(ps) : entries[i][field] # default[field]
    IN  [entries |-> entries,
         first   |-> IF ps = <<>> THEN "sync" ELSE Flags(ps[1]),
         fields  |-> {f \in {"size", "dur"} : needs(f, 1)}
                     \cup (IF needs("flags", 2) THEN {"flags"} ELSE {})
                     \cup (IF ps # <<>> /\ Flags(ps[1]) # default.flags THEN {"first"} ELSE {})]

Track(s) == [id |-> s.index + 1, time |-> Ticks(s.codec, s.first),
             tfhd |-> Tfhd(s), trun |-> Trun(s)]

\* Len of the moof, in words: its fields, and for each entry the fields it has.
MoofLen(tracks) ==
    LET words(t) == 19 + Cardinality(t.trun.fields \cap {"first"})
                    + Len(t.trun.entries) * Cardinality(t.trun.fields \ {"first"})
    IN  FoldFunction(LAMBDA t, n : n + words(t), 6, tracks)

\* processDataOffsets: where in the mdat the data of a stream begins, counted from
\* the moof.
Offset(moofLen, i) == moofLen + 2 + FoldFunction(LAMBDA s, n : n + s.size, 0, SubSeq(strs, 1, i - 1))

Bytes(pkt) == [i \in 1..pkt.size |-> [id |-> pkt.id, i |-> i]]
DataOf(s)  == FlattenSeq([i \in DOMAIN s.packets |-> Bytes(s.packets[i])])

GetMP4Fragment ==
    /\ ready
    /\ LET tracks == [i \in DOMAIN strs |-> Track(strs[i])]
           len    == MoofLen(tracks)
           data   == FlattenSeq([i \in DOMAIN strs |-> DataOf(strs[i])])
       IN  fragments' = Append(fragments,
             [seq |-> Len(fragments), moofLen |-> len, mdat |-> data, mdatLen |-> Len(data) + 2,
              tracks |-> [i \in DOMAIN tracks |-> [t |-> tracks[i], offset |-> Offset(len, i)]]])
    /\ strs' = Streams(params)
    /\ accepted' = Append(accepted, <<>>)
    /\ UNCHANGED <<params, ready>>

\* A caller asks for a fragment of something.
Cut == Last(accepted) # <<>> /\ GetMP4Fragment

Next == Mux \/ WriteAny \/ Cut
Spec == Init /\ [][Next]_fragmentVars

(* --------------------------------- GetInit --------------------------------- *)

\* What the init segment says of each stream (fillTrackAtom), and the tracks it
\* announces fragments for (mvex).
SafeInt16(v) == IF v <= MaxInt16 THEN v ELSE MaxInt16
InitTrack(i) ==
    [id |-> strs[i].index + 1, scale |-> TimeScale[strs[i].codec],
     dur |-> Ticks(strs[i].codec, strs[i].dur),
     handler |-> IF strs[i].codec = "aac" THEN "soun" ELSE "vide",
     width |-> IF strs[i].codec = "aac" THEN 0 ELSE SafeInt16(params[i].width)]
GetInit == [tracks |-> [i \in DOMAIN strs |-> InitTrack(i)],
            mvex |-> DOMAIN strs, next |-> Len(strs) + 1]

(* ------------------------------- Properties -------------------------------- *)

\* What Unmarshal makes of entry i of a run.
Entry(t, i) ==
    LET e == t.trun.entries[i]
    IN  [size  |-> IF "size" \in t.trun.fields THEN e.size ELSE t.tfhd.size,
         dur   |-> IF "dur" \in t.trun.fields THEN e.dur ELSE t.tfhd.dur,
         flags |-> IF "flags" \in t.trun.fields THEN e.flags
                   ELSE IF i = 1 /\ "first" \in t.trun.fields THEN t.trun.first
                   ELSE t.tfhd.flags]

\* The samples of a track, with the bytes that are at their place in the fragment.
SumOf(t, field, n) == FoldFunction(+, 0, [i \in 1..n |-> Entry(t, i)[field]])
SamplesRead(f, tr) ==
    [i \in DOMAIN tr.t.trun.entries |->
       LET from == tr.offset - f.moofLen - 2 + SumOf(tr.t, "size", i - 1)
       IN  [data |-> SubSeq(f.mdat, from + 1, from + Entry(tr.t, i).size),
            flags |-> Entry(tr.t, i).flags,
            at |-> tr.t.time + SumOf(tr.t, "dur", i - 1)]]

\* The packets of a track, and how far from the time of each, in half ticks, the
\* sum of rounded durations may be.
PacketsOf(f, tr) == SelectSeq(accepted[f.seq + 1], LAMBDA p : p.index + 1 = tr.t.id)
Near(codec, ticks, tm, halves) ==
    2 * (ticks * Second - tm * TimeScale[codec]) \in -(halves * Second)..(halves * Second)

\* The packets of a fragment are read as they were accepted, whatever is left to
\* the defaults: the same data, the same sync samples, each within a rounding of
\* its time for every packet before it in the fragment; what is before the
\* fragment leaves no error (muxer.go:314-391, stream.go:35-43).  A fragment is
\* looked at when it is the last; nothing changes it later.
FragmentReads(f) ==
    \A i \in DOMAIN f.tracks :
       LET tr == f.tracks[i]
           ps == PacketsOf(f, tr)
           read == SamplesRead(f, tr)
       IN  /\ Len(read) = Len(ps)
           /\ \A j \in DOMAIN ps :
                /\ read[j].data = Bytes(ps[j])
                /\ read[j].flags = Flags(ps[j])
                /\ Near(strs[i].codec, read[j].at, ps[j].ts, j)
           /\ ps # <<>> => tr.t.id = GetInit.tracks[i].id /\ tr.t.id \in GetInit.mvex
FragmentsRead ==
    fragments # <<>> => LET f == Last(fragments)
                        IN  FragmentReads(f) /\ f.mdatLen = Len(f.mdat) + 2

\* Known not to hold: a stream whose index is not its place has every packet
\* refused (muxer.go:276), as the audio of a description read without its video,
\* which keeps index 1 (rtsp/demuxer.go:139).
IndexesArePlaces == ready => \A i \in DOMAIN strs : strs[i].index = i - 1
===============================================================================
