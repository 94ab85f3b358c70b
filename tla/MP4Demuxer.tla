------------------------------ MODULE MP4Demuxer ------------------------------
(* format/mp4/demuxer.go and the reading side of stream.go, over a file that   *)
(* the muxer made or that came from elsewhere, with its samples in chunks.     *)
EXTENDS MP4Muxer, TLC

CONSTANT Foreign \* sequences of chunk lengths a file from elsewhere may have

VARIABLES tables, \* probe: the sample tables of every stream, <<>> before
          at,     \* per stream, where its reader is in the tables
          got,    \* the packets ReadPacket returned
          eof

vars == <<muxVars, tables, at, got, eof>>

NoPicture == [key |-> FALSE, ts |-> 0, data |-> <<>>]
Start == [sample |-> 1, chunk |-> 1, group |-> 1, inChunk |-> 0, offset |-> 0,
          stts |-> 1, inStts |-> 0, ctts |-> 1, inCtts |-> 0, sync |-> 1, dts |-> 0,
          picture |-> NoPicture]

Init == MuxInit /\ tables = <<>> /\ at = <<>> /\ got = <<>> /\ eof = FALSE

Write == MuxNext /\ UNCHANGED <<tables, at, got, eof>>

\* Demux of a file the muxer has completed: one chunk for each sample.
Demux ==
    /\ stage \in {"done", "holed"} /\ tables = <<>>
    /\ tables' = [s \in DOMAIN layout |->
                    [mux.streams[s] EXCEPT !.last = NoPacket]
                    @@ [stsc |-> <<[first |-> 1, per |-> 1]>>]]
    /\ at' = [s \in DOMAIN layout |-> Start]
    /\ UNCHANGED <<muxVars, got, eof>>

\* Demux of another file of one stream: chunks of some samples, of one or two
\* tokens each and with other bytes between the chunks; stsc has an entry where the number of
\* samples in a chunk changes.
SumTo(seq, n) == FoldLeft(+, 0, SubSeq(seq, 1, n))
DemuxForeign ==
    /\ stage = "open" /\ written = <<>> /\ tables = <<>> /\ Len(layout) = 1 /\ layout[1] = "mjpeg"
    /\ \E chunks \in Foreign :
         LET count    == SumTo(chunks, Len(chunks))
             size(i)  == 1 + (i % 2)
             packet(i) == [id |-> i, s |-> 1, ts |-> i - 1, key |-> i % 2 = 1, n |-> size(i)]
             sizes    == [i \in 1..count |-> size(i)]
             before(c) == SumTo(chunks, c - 1)
             changes  == SelectSeq([c \in DOMAIN chunks |-> c],
                                   LAMBDA c : c = 1 \/ chunks[c] # chunks[c - 1])
             chunk(c) == Append(FlattenSeq([i \in 1..chunks[c] |-> Data(packet(before(c) + i))]),
                                Tok("hole", 0, 0))
         IN  /\ written' = [i \in 1..count |-> packet(i)]
             /\ freed' = [i \in 1..count |-> 1]
             /\ file' = [tokens |-> FlattenSeq([c \in DOMAIN chunks |-> chunk(c)]),
                         mdat |-> 0, moov |-> TRUE]
             /\ tables' = <<[stco |-> [c \in DOMAIN chunks |-> SumTo(sizes, before(c)) + c - 1],
                             stsz |-> sizes,
                             stss |-> SelectSeq([i \in 1..count |-> i], LAMBDA i : i % 2 = 1),
                             stts |-> <<[count |-> count, dur |-> 1]>>,
                             ctts |-> <<>>,
                             stsc |-> [i \in DOMAIN changes |-> [first |-> changes[i],
                                                                 per |-> chunks[changes[i]]]]]>>
    /\ stage' = "done"
    /\ at' = <<Start>>
    /\ UNCHANGED <<layout, batched, mux, got, eof>>

(* ------------------------------- ReadPacket -------------------------------- *)

\* isSampleValid.
Valid(t, r) ==
    /\ r.chunk <= Len(t.stco) /\ r.group <= Len(t.stsc) /\ r.stts <= Len(t.stts)
    /\ t.ctts # <<>> => r.ctts <= Len(t.ctts)
    /\ t.stss # <<>> => r.sync <= Len(t.stss)
    /\ r.sample <= Len(t.stsz)

\* incSampleIndex: one sample on in every table.
NextGroup(t, r, chunk) == r.group < Len(t.stsc) /\ chunk = t.stsc[r.group + 1].first
Advanced(t, r) ==
    LET ends  == r.inChunk + 1 = t.stsc[r.group].per
        chunk == IF ends THEN r.chunk + 1 ELSE r.chunk
        sttsEnds == r.inStts + 1 = t.stts[r.stts].count
        cttsEnds == t.ctts # <<>> /\ r.inCtts + 1 = t.ctts[r.ctts].count
    IN  [r EXCEPT
           !.sample = @ + 1,
           !.chunk = chunk,
           !.inChunk = IF ends THEN 0 ELSE @ + 1,
           !.offset = IF ends THEN 0 ELSE @ + t.stsz[r.sample],
           !.group = IF NextGroup(t, r, chunk) THEN @ + 1 ELSE @,
           !.stts = IF sttsEnds THEN @ + 1 ELSE @,
           !.inStts = IF sttsEnds THEN 0 ELSE @ + 1,
           !.dts = @ + t.stts[r.stts].dur,
           !.ctts = IF cttsEnds THEN @ + 1 ELSE @,
           !.inCtts = IF cttsEnds \/ t.ctts = <<>> THEN 0 ELSE @ + 1,
           !.sync = IF @ < Len(t.stss) /\ r.sample + 1 = t.stss[@ + 1] THEN @ + 1 ELSE @]

Sample(t, r) == SubSeq(file.tokens, t.stco[r.chunk] + r.offset + 1,
                       t.stco[r.chunk] + r.offset + t.stsz[r.sample])
IsKey(t, r) == t.stss # <<>> /\ r.sample = t.stss[r.sync]

\* The NAL units of an H.265 sample, one after the other: a parameter set goes to
\* the picture that is being put together, or into a packet of its own if there is
\* none; the first slice of a picture ends the picture before it.  st holds that
\* picture and the packet to return.
Unit265(st, tok, key, ts) ==
    LET open == st.picture # NoPicture
    IN  CASE tok.k # "unit" /\ open -> [st EXCEPT !.picture.data = Append(@, tok)]
          [] tok.k # "unit" -> [st EXCEPT !.pkt = [key |-> FALSE, ts |-> ts, data |-> <<tok>>]]
          [] tok.i > 1 /\ open -> [st EXCEPT !.picture.data = Append(@, tok),
                                             !.picture.key = @ \/ key]
          [] OTHER -> [pkt |-> IF open THEN st.picture ELSE st.pkt,
                       picture |-> [key |-> key, ts |-> ts, data |-> <<tok>>]]

Sample265(r, tokens, key) ==
    LET st == FoldLeft(LAMBDA acc, tok : Unit265(acc, tok, key, r.dts),
                       [pkt |-> NoPicture, picture |-> r.picture], tokens)
    IN  IF st.pkt = NoPicture THEN [pkt |-> st.picture, picture |-> NoPicture] ELSE st

\* A packet of H.264 is the last slice of its sample; the parameter sets are left out.
Units(codec, tokens) ==
    IF codec = "h264" THEN <<Last(SelectSeq(tokens, LAMBDA tok : tok.k = "unit"))>> ELSE tokens

ReadSample(s) ==
    LET t      == tables[s]
        r      == at[s]
        tokens == Sample(t, r)
        st     == IF layout[s] = "h265" THEN Sample265(r, tokens, IsKey(t, r))
                  ELSE [pkt |-> [key |-> IsKey(t, r), ts |-> r.dts,
                                 data |-> Units(layout[s], tokens)],
                        picture |-> NoPicture]
    IN  /\ got' = Append(got, st.pkt @@ [s |-> s])
        /\ at' = [at EXCEPT ![s] = [Advanced(t, r) EXCEPT !.picture = st.picture]]

\* The stream that is behind, among those that have samples left; io.EOF when
\* none has any.  A file that lost bytes is not followed further.
WithSamples == {s \in DOMAIN tables : Valid(tables[s], at[s])}
Chosen(s) == \A x \in WithSamples \ {s} : at[s].dts < at[x].dts \/ (at[s].dts = at[x].dts /\ s < x)
ReadPacket ==
    /\ tables # <<>> /\ stage = "done"
    /\ IF WithSamples = {} THEN ~eof /\ eof' = TRUE /\ UNCHANGED <<got, at>>
       ELSE \E s \in WithSamples : Chosen(s) /\ ReadSample(s) /\ UNCHANGED eof
    /\ UNCHANGED <<muxVars, tables>>

Next == Write \/ Demux \/ DemuxForeign \/ ReadPacket
Spec == Init /\ [][Next]_vars

(* ------------------------------ Properties --------------------------------- *)

\* What was written to a stream, as it should be read: the same data and the
\* same keyframes, at the sum of the durations before it.
Written(s) == SelectSeq(written, LAMBDA p : p.s = s)
Expected(s) ==
    LET mine    == Written(s)
        time[i \in DOMAIN mine] ==
          IF i = 1 THEN 0 ELSE time[i - 1] + Clamped(mine[i].ts - mine[i - 1].ts)
    IN  [i \in DOMAIN mine |-> [data |-> Data(mine[i]), key |-> mine[i].key,
                                ts |-> time[i], s |-> s]]
Got(s) == SelectSeq(got, LAMBDA p : p.s = s)
Slices(packets) ==
    SelectSeq(FlattenSeq([i \in DOMAIN packets |-> packets[i].data]), LAMBDA tok : tok.k = "unit")

\* What ReadPacket returned of a stream.
ReadsBack(s) ==
    IF layout[s] = "h265"
    THEN LET mine == Expected(s)
         IN  /\ IsPrefix(Slices(Got(s)), Slices(mine))
             /\ eof => Len(Slices(Got(s))) >= Len(Slices(mine)) - Len(Last(mine).data)
    ELSE /\ IsPrefix(Got(s), Expected(s))
         /\ eof => Got(s) = Expected(s)

\* Packets are read in the order of their times (demuxer.go:72), where no picture is
\* put together from several samples.
TimesRise ==
    (\A s \in DOMAIN layout : layout[s] # "h265") =>
       \A i \in 1..Len(got) - 1 : got[i].ts <= got[i + 1].ts

\* A file is read back as it was written, through the pending packets, every
\* Flush, the tables and their cursors (stream.go:432-540, 237-318): no sample is
\* lost, mixed with another or marked wrongly; of H.265, whose packets are put
\* together again, the slices are the same and in order, up to the last picture.
FileReadsBack ==
    /\ stage = "done" /\ file.mdat # 0 => file.mdat = Len(file.tokens)
    /\ \A s \in DOMAIN tables : stage = "done" /\ Written(s) # <<>> => ReadsBack(s)
    /\ TimesRise

\* "Flush any still-buffered H.265 picture once samples are exhausted" (stream.go:309).
LastPictureRead ==
    eof => \A s \in DOMAIN layout :
              Written(s) # <<>> => Slices(Got(s)) = Slices(Expected(s))
===============================================================================
