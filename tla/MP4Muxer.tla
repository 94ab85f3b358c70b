------------------------------- MODULE MP4Muxer -------------------------------
(* format/mp4/muxer.go and the writing side of stream.go.  A packet that is    *)
(* written waits in its stream until the next one tells how long it lasts;     *)
(* then it is pending, with its place in the sample tables already taken; a    *)
(* Flush writes what is pending, and WriteTrailer the rest and the moov atom.  *)
(*                                                                             *)
(* The file is a sequence of tokens: one for the header (ftyp, free and the    *)
(* tag of mdat), one for each NAL unit or piece of audio.  A failing write of  *)
(* the io.WriteSeeker, which is external, writes nothing.                      *)
EXTENDS Integers, Sequences, FiniteSets, SequencesExt

CONSTANTS Layouts,     \* the codecs of the streams of a file, as sequences
          MaxPackets,  \* bound: packets written to a file
          MaxDuration, \* maxSampleDuration
          Gaps         \* the steps between timestamps that are written

VARIABLES layout,  \* Mux: the codecs
          batched, \* the option WithBatchedDump
          mux,     \* the muxer: pending, pos, flushed, and its streams
          file,    \* what is written: tokens, the size of mdat and the moov atom
          written, \* the packets written, numbered by place
          freed,   \* how often each of them was released
          stage    \* "open", "torn" after a failing Flush; "done", "holed" (done after
                   \* a failing Flush), "failed", "panicked"

muxVars == <<layout, batched, mux, file, written, freed, stage>>

NoPacket == [id |-> 0]
Tok(k, id, i) == [k |-> k, id |-> id, i |-> i]

\* A packet: n NAL units of video, or one unit of the others.
Data(pkt) == [i \in 1..pkt.n |-> Tok("unit", pkt.id, i)]

\* The parameter sets that go before a keyframe, those of the packet itself.
Extras(pkt) ==
    LET names == CASE ~pkt.key -> <<>>
                   [] layout[pkt.s] = "h264" -> <<"sps", "pps">>
                   [] layout[pkt.s] = "h265" -> <<"vps", "sps", "pps">>
                   [] OTHER -> <<>>
    IN  [i \in DOMAIN names |-> Tok(names[i], pkt.id, 0)]

\* newStream: empty sample tables.  stts and ctts are runs.
NewStream == [last |-> NoPacket, stco |-> <<>>, stsz |-> <<>>, stss |-> <<>>,
              stts |-> <<>>, ctts |-> <<>>]

MuxInit ==
    /\ layout \in Layouts /\ batched \in BOOLEAN
    /\ mux = [pending |-> <<>>, pos |-> 1, flushed |-> FALSE,
              streams |-> [s \in DOMAIN layout |-> NewStream]]
    /\ file = [tokens |-> <<>>, mdat |-> 0, moov |-> FALSE]
    /\ written = <<>> /\ freed = <<>> /\ stage = "open"

(* ------------------------------ WritePacket -------------------------------- *)

\* What one sample more does to a table of runs.
CountedAnywhere(runs, dur) ==
    IF \E i \in DOMAIN runs : runs[i].dur = dur
    THEN [i \in DOMAIN runs |-> IF runs[i].dur = dur THEN [runs[i] EXCEPT !.count = @ + 1] ELSE runs[i]]
    ELSE Append(runs, [count |-> 1, dur |-> dur])
Counted(runs, dur) ==
    IF runs # <<>> /\ Last(runs).dur = dur
    THEN [runs EXCEPT ![Len(runs)].count = @ + 1]
    ELSE Append(runs, [count |-> 1, dur |-> dur])

\* The duration of a sample is the gap to the next one, within bounds.
Clamped(gap) == IF gap <= 0 THEN 1 ELSE IF gap > MaxDuration THEN MaxDuration ELSE gap

\* writePacket: the packet that waited in the stream becomes pending.
WriteLast(m, next) ==
    LET s    == next.s
        last == m.streams[s].last
        size == Len(Extras(last)) + last.n
        dur  == Clamped(next.ts - last.ts)
    IN  IF last = NoPacket THEN [m EXCEPT !.streams[s].last = next]
        ELSE [m EXCEPT
                !.pending = Append(@, [pkt |-> last, live |-> TRUE]),
                !.pos = @ + size,
                !.streams[s] =
                  [last |-> next,
                   stco |-> Append(@.stco, m.pos),
                   stsz |-> Append(@.stsz, size),
                   stss |-> IF last.key THEN Append(@.stss, Len(@.stco) + 1) ELSE @.stss,
                   stts |-> Counted(@.stts, dur),
                   ctts |-> Counted(@.ctts, 0)]]

WritePacket(pkt) ==
    /\ stage \in {"open", "torn"} /\ Len(written) < MaxPackets
    /\ mux' = WriteLast(mux, pkt)
    /\ written' = Append(written, pkt)
    /\ freed' = Append(freed, 0)
    /\ UNCHANGED <<layout, batched, file, stage>>

(* ---------------------------------- Flush ---------------------------------- *)

Bytes(entries) == FlattenSeq([i \in DOMAIN entries |-> Extras(entries[i].pkt) \o Data(entries[i].pkt)])
Header == <<Tok("header", 0, 0)>>

\* releasePending and the loops of the flushes release what is not nil.
Release(entries) ==
    freed' = [id \in DOMAIN freed |->
                freed[id] + Cardinality({i \in DOMAIN entries :
                                           entries[i].live /\ entries[i].pkt.id = id})]
Lasts(streams) == [s \in DOMAIN streams |-> [pkt |-> streams[s].last, live |-> TRUE]]
Dropped(m) == [m EXCEPT !.pending = <<>>,
                        !.streams = [s \in DOMAIN @ |-> [@[s] EXCEPT !.last = NoPacket]]]

\* Writing the header, if it is not out, and all that is pending.
Whole(m) == (IF m.flushed THEN <<>> ELSE Header) \o Bytes(m.pending)
FlushedOut(m) == [m EXCEPT !.pending = <<>>, !.flushed = TRUE]

\* writePendingDirect stopped: entry i was written up to some of its bytes, those
\* before it were released and left as nil.  Or the header could not be written.
Left(entries, i) == [j \in DOMAIN entries |-> [entries[j] EXCEPT !.live = @ /\ j >= i]]
Torn(m, i) == [m EXCEPT !.flushed = TRUE, !.pending = Left(@, i)]
TornTokens(m, i, k) ==
    (IF m.flushed THEN <<>> ELSE Header) \o Bytes(SubSeq(m.pending, 1, i - 1))
    \o SubSeq(Bytes(<<m.pending[i]>>), 1, k)
HasNil(m) == \E i \in DOMAIN m.pending : ~m.pending[i].live

Flush ==
    /\ stage \in {"open", "torn"}
    /\ mux.pending # <<>> \/ ~mux.flushed
    /\ batched \/ ~HasNil(mux)
    /\ file' = [file EXCEPT !.tokens = @ \o Whole(mux)]
    /\ Release(mux.pending)
    /\ mux' = FlushedOut(mux)
    /\ UNCHANGED <<layout, batched, written, stage>>

\* A write fails (in a model, once).  In a batch all is released and counts as
\* flushed.
FlushFails ==
    /\ stage = "open"
    /\ mux.pending # <<>> \/ ~mux.flushed
    /\ stage' = "torn"
    /\ \/ batched /\ Release(mux.pending) /\ mux' = FlushedOut(mux) /\ UNCHANGED file
       \/ ~batched /\ ~mux.flushed /\ UNCHANGED <<mux, freed, file>>
       \/ /\ ~batched
          /\ \E i \in DOMAIN mux.pending :
               \E k \in 0..Len(Bytes(<<mux.pending[i]>>)) - 1 :
                 /\ Release(SubSeq(mux.pending, 1, i - 1))
                 /\ mux' = Torn(mux, i)
                 /\ file' = [file EXCEPT !.tokens = @ \o TornTokens(mux, i, k)]
    /\ UNCHANGED <<layout, batched, written>>

\* The first entry is a nil packet that an earlier Flush left.
FlushPanics ==
    /\ stage = "torn" /\ ~batched /\ HasNil(mux)
    /\ stage' = "panicked"
    /\ UNCHANGED <<layout, batched, mux, file, written, freed>>

(* ------------------------------ WriteTrailer ------------------------------- *)

\* The last packets become pending: each is its own successor.
TakeLast(m, s) ==
    IF m.streams[s].last = NoPacket THEN m
    ELSE [WriteLast(m, m.streams[s].last) EXCEPT !.streams[s].last = NoPacket]
Completed == FoldLeft(LAMBDA m, s : TakeLast(m, s), mux, [s \in DOMAIN layout |-> s])

PadTo(tokens, n) == tokens \o [i \in 1..(n - Len(tokens)) |-> Tok("hole", 0, 0)]

\* Everything in one go, or the rest, the size of mdat in the header and, from
\* where it should end, the moov atom.
WriteTrailer ==
    /\ stage \in {"open", "torn"} /\ ~HasNil(Completed)
    /\ LET m == Completed
       IN  /\ file' = [tokens |-> SubSeq(PadTo(file.tokens \o Whole(m), m.pos), 1, m.pos),
                       mdat |-> m.pos, moov |-> TRUE]
           /\ Release(m.pending \o Lasts(m.streams))
           /\ mux' = Dropped(FlushedOut(m))
    /\ stage' = IF stage = "torn" THEN "holed" ELSE "done"
    /\ UNCHANGED <<layout, batched, written>>

\* A write or a seek fails, or a nil is met: what is not released is, by the
\* deferred releasePending.
WriteTrailerFails ==
    /\ stage \in {"open", "torn"}
    /\ stage' = IF HasNil(Completed) THEN "panicked" ELSE "failed"
    /\ Release(Completed.pending \o Lasts(Completed.streams))
    /\ mux' = Dropped(Completed)
    /\ UNCHANGED <<layout, batched, file, written>>

\* ReleasePending, to discard the file.
ReleasePending ==
    /\ stage \in {"open", "torn"}
    /\ stage' = "failed"
    /\ Release(mux.pending \o Lasts(mux.streams))
    /\ mux' = Dropped(mux)
    /\ UNCHANGED <<layout, batched, file, written>>

\* Audio has one unit and no keyframes; a keyframe of H.265 may have two slices.
TimeOf(s) == LET mine == SelectSeq(written, LAMBDA p : p.s = s)
             IN  IF mine = <<>> THEN 0 ELSE Last(mine).ts
WriteAny ==
    \E s \in DOMAIN layout, gap \in Gaps, key \in BOOLEAN, n \in 1..2 :
       /\ n = 2 => layout[s] = "h265" /\ key
       /\ layout[s] = "aac" => ~key
       /\ layout[s] = "mjpeg" => key
       /\ WritePacket([id |-> Len(written) + 1, s |-> s, ts |-> TimeOf(s) + gap,
                       key |-> key, n |-> n])

MuxNext ==
    \/ WriteAny \/ Flush \/ FlushFails \/ FlushPanics
    \/ WriteTrailer \/ WriteTrailerFails \/ ReleasePending

MuxSpec == MuxInit /\ [][MuxNext]_muxVars

(* ------------------------------ Properties --------------------------------- *)

\* A packet the muxer was given waits in its stream or is pending, or was
\* released, once: whatever was flushed, or failed half way through, before, and
\* after WriteTrailer every one is, also on an error (muxer.go:402-417).
Holders(id) ==
    Cardinality({i \in DOMAIN mux.pending : mux.pending[i].live /\ mux.pending[i].pkt.id = id})
    + Cardinality({s \in DOMAIN mux.streams : mux.streams[s].last.id = id})
PacketsReleasedOnce ==
    /\ \A id \in DOMAIN written : freed[id] + Holders(id) = 1
    /\ stage \in {"done", "holed", "failed"} => \A id \in DOMAIN written : freed[id] = 1
===============================================================================
