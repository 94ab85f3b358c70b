------------------------------ MODULE Segmenter ------------------------------
(***************************************************************************)
(* writer/segmenter: sources recorded into MP4 files, always or around     *)
(* events.  One goroutine, under the fail-safe lifecycle manager, runs     *)
(* Step: it takes one message from its channels, works under streamsMu,    *)
(* and sends what it closed after it gave the mutex back.  An action is    *)
(* the stretch up to a call that can fail: opening, flushing or finishing  *)
(* a file.  A panic in Step is recovered by the manager, with the mutex    *)
(* still locked.                                                           *)
(*                                                                         *)
(* A packet is [url, id, kind, t, par]: id counts the packets of a source, *)
(* t is its media time, par the version of its video parameters.  A video  *)
(* packet lasts one unit, an audio packet none.  The byte limits of the    *)
(* pre-buffer are its packet limit, and the byte limit of the muxer is a   *)
(* choice: a flush may be due at any packet.                               *)
(* The MP4 muxer (format/mp4) is modelled by the packets it holds.         *)
(***************************************************************************)
EXTENDS Integers, Sequences, FiniteSets, SequencesExt, FiniteSetsExt

CONSTANTS
    Urls,          \* sources
    StartModes, Modes,   \* record modes: at the start, asked for later
    Target,        \* targetDuration
    PreBuffer,     \* preBufferDuration, the ring's maxDur
    RingPackets,   \* packets the ring may hold
    MaxEvent, MinEvent,  \* maxEventDuration, minEventSegmentDuration
    FlushEvery,    \* eventFlushInterval
    ShortFile,     \* files shorter than this are not kept at a codec change
    Batched,       \* batchedDump
    MaxPkts, MaxPars, MaxEvents, MaxFaults  \* bounds: packets, codec versions of a
                                            \* source, events, file errors

ASSUME ModesAssumption == StartModes \cup Modes \subseteq {"never", "event", "always"}
\* A pre-buffer lasts for a packet at least, and has room for two (the code:
\* 128, and 256 KB).
ASSUME PreBufferAssumption ==
    PreBuffer \in Nat \ {0} /\ RingPackets \in Nat \ {0, 1}

VARIABLES
    mode, recording,   \* recordMode, recordCurStatus
    idle,          \* postEventDuration has passed since lastEvent
    sources,       \* the urls added
    streams,       \* the streamState of each url, or NoStream
    mu,            \* streamsMu: "free", or "lost" by a panic
    pc, job,       \* where Step is, and what it works on
    buf,           \* bufferedPkts of startEventRecording
    infos,         \* files closed by this Step and not sent yet
    stopping,      \* stopCh is closed
    got, time, par,  \* of each source: packets sent, media time, codec version
    released,      \* packets given back
    cut,           \* packets the ring dropped from its middle
    closed, reported,   \* files finished, files sent to Files()
    failed,        \* what a file error cut short: "mode", "drain", "flush"
    events, faults \* bounds

files  == <<closed, failed>>
input  == <<got, time, par>>
vars   == <<mode, recording, idle, sources, streams, mu, pc, job, buf, infos, stopping,
            input, released, cut, files, reported, events, faults>>

NoFile == [ids |-> {}]
NoStream == [seen |-> FALSE]
NoJob == [kind |-> "none"]

\* The stream made for the first packet: no event is waiting.
NewStream == [seen |-> FALSE, saved |-> TRUE, ring |-> <<>>, file |-> NoFile, par |-> 0,
              audio |-> FALSE, session |-> 0, wall |-> FALSE, stop |-> -1]

Known == {u \in Urls : streams[u] # NoStream}
Active(u) == u \in Known /\ streams[u].file # NoFile
Video(p) == p.kind # "audio"
Key(p) == p.kind = "key"
Dur(p) == IF Video(p) THEN 1 ELSE 0
Names(ps) == {<<p.url, p.id>> : p \in ps}

Init ==
    /\ mode \in StartModes /\ recording = FALSE /\ idle = FALSE
    /\ sources = {} /\ streams = [u \in Urls |-> NoStream]
    /\ mu = "free" /\ pc = "idle" /\ job = NoJob /\ buf = <<>> /\ infos = {}
    /\ stopping = FALSE
    /\ got = [u \in Urls |-> 0] /\ time = got /\ par = [u \in Urls |-> 1]
    /\ released = {} /\ cut = {}
    /\ closed = {} /\ reported = {}
    /\ failed = {}
    /\ events = 0 /\ faults = 0

-----------------------------------------------------------------------------
(* The pre-buffer *)

Length(ring) == Cardinality({i \in 1 .. Len(ring) : Video(ring[i])})

\* enforceLimits: the oldest packet stays, those behind it go.
HardCap == 2 * PreBuffer
WithinLimits(ring) == Len(ring) <= RingPackets /\ Length(ring) <= HardCap
DropMiddle(ring, k) == <<Head(ring)>> \o SubSeq(ring, k + 2, Len(ring))
enforceLimits(ring) ==
    LET ks == {k \in 0 .. Len(ring) - 1 : k = Len(ring) - 1 \/ WithinLimits(DropMiddle(ring, k))}
    IN DropMiddle(ring, Min(ks))

\* trim: at keyframes only, until the rest is short enough.
trim(ring) ==
    LET starts == {1} \cup {i \in 1 .. Len(ring) : Key(ring[i])}
        From(i) == SubSeq(ring, i, Len(ring))
        short == {i \in starts : Length(From(i)) <= PreBuffer}
    IN From(IF short # {} THEN Min(short) ELSE Max(starts))

\* add, then trim at a keyframe.  trim ends in enforceLimits too.
Trimmed(ring, p) == IF Key(p) THEN trim(enforceLimits(Append(ring, p)))
                    ELSE enforceLimits(Append(ring, p))
Buffered(ring, p) == IF Key(p) THEN enforceLimits(Trimmed(ring, p)) ELSE Trimmed(ring, p)

\* findFirstKeyframe, findKeyframeAtOrAfter; an index is one more than in Go.
findFirstKeyframe(ps) ==
    LET ks == {i \in 1 .. Len(ps) : Key(ps[i])} IN IF ks = {} THEN 1 ELSE Min(ks)
findKeyframeAtOrAfter(ps, start, stop) ==
    LET ks == {i \in start .. Len(ps) : Key(ps[i]) /\ ps[i].t >= stop}
    IN IF ks = {} THEN start ELSE Min(ks)

-----------------------------------------------------------------------------
(* Files *)

\* held: packets the muxer owns; last: those it keeps to learn their duration;
\* damaged: a flush failed after it had given packets back.
NewFile(p, codec) ==
    [ids |-> {}, start |-> p, par |-> codec, dur |-> 0, flush |-> 0, held |-> {},
     last |-> {}, damaged |-> FALSE]
Written(f, p) ==
    [f EXCEPT !.ids = @ \cup {p.id}, !.dur = @ + Dur(p), !.held = @ \cup {p},
              !.last = {q \in @ : Video(q) # Video(p)} \cup {p}]
Flushed(f) == [f EXCEPT !.held = f.last, !.flush = f.dur]

SetStream(u, s) == streams' = [streams EXCEPT ![u] = s]
SetFile(u, f) == streams' = [streams EXCEPT ![u].file = f]
Free(ps) == released' = released \cup Names(ps)
Owned(u) == IF u \in Known
            THEN Range(streams[u].ring) \cup (IF Active(u) THEN streams[u].file.held ELSE {})
            ELSE {}

\* What closeSegment can come to: "none" (nothing, or a file too short, is
\* removed), "info", "error" (WriteTrailer failed), "panic" (it met a packet a
\* failed flush had given back).
CloseResults(f, least) ==
    IF f.ids = {} \/ f.dur < least THEN {"none"}
    ELSE IF f.damaged THEN {"panic"}
    ELSE {"info"} \cup {r \in {"error"} : faults < MaxFaults}

\* What closeSegment leaves behind.  In every case the muxer gives its packets
\* back and the stream has no file any more.
FileClosed(u, r) ==
    LET name == <<u, streams[u].file.start.id>> IN
    /\ closed' = IF r = "info" THEN closed \cup {name} ELSE closed
    /\ infos' = IF r = "info" THEN infos \cup {name} ELSE IF r = "panic" THEN {} ELSE infos
    /\ faults' = IF r = "error" THEN faults + 1 ELSE faults
NothingClosed == UNCHANGED <<closed, infos, faults>>

\* A panic under the mutex: the manager's recover does not unlock it.
Panic == pc' = "idle" /\ mu' = "lost"

\* A flush that fails: a batched dump has given all packets back before it
\* writes, a direct one gives each back after it is written.
FlushLoses(pending) ==
    IF Batched THEN {pending}
    ELSE {{}} \cup {{p} : p \in {q \in pending : \E r \in pending : q.id < r.id
                                         /\ \A o \in pending : q.id <= o.id}}

-----------------------------------------------------------------------------
(* Step: the messages other than packets *)

Ready == pc = "idle" /\ mu = "free"

addSource(u) ==
    /\ Ready /\ u \notin sources
    /\ sources' = sources \cup {u}
    /\ UNCHANGED <<mode, recording, idle, streams, mu, pc, job, buf, infos, stopping,
                   input, released, cut, files, reported, events, faults>>

\* A stream that goes: its file is finished, an error is ignored; a panic there
\* leaves the rest of it in place.
removeSource(u) ==
    /\ Ready /\ u \in sources
    /\ \E r \in IF Active(u) THEN CloseResults(streams[u].file, 0) ELSE {"none"} :
          /\ IF Active(u) THEN FileClosed(u, r) ELSE NothingClosed
          /\ IF r = "panic"
             THEN Panic /\ SetFile(u, NoFile) /\ Free(streams[u].file.held) /\ UNCHANGED sources
             ELSE /\ sources' = sources \ {u} /\ SetStream(u, NoStream) /\ Free(Owned(u))
                  /\ pc' = "send" /\ UNCHANGED mu
    /\ UNCHANGED <<mode, recording, idle, job, buf, stopping, input, cut, failed,
                   reported, events>>

\* An event clears eventSaved of idle streams and extends running sessions.
Event ==
    /\ Ready /\ events < MaxEvents
    /\ events' = events + 1
    /\ idle' = FALSE
    /\ streams' = [u \in Urls |->
          IF u \notin Known THEN NoStream
          ELSE IF Active(u) THEN [streams[u] EXCEPT !.session = 0, !.wall = FALSE]
          ELSE [streams[u] EXCEPT !.saved = FALSE]]
    /\ UNCHANGED <<mode, recording, sources, mu, pc, job, buf, infos, stopping, input,
                   released, cut, files, reported, faults>>

\* The clock: postEventDuration is over; a session reached maxEventDuration.
\* The time passes between two Steps, and while somebody may notice.
ClockIdle ==
    /\ pc = "idle" /\ mode = "event" /\ ~ idle
    /\ \E u \in Known : Active(u) \/ ~ streams[u].saved
    /\ idle' = TRUE
    /\ UNCHANGED <<mode, recording, sources, streams, mu, pc, job, buf, infos, stopping,
                   input, released, cut, files, reported, events, faults>>

ClockMax(u) ==
    /\ pc = "idle" /\ mode = "event" /\ Active(u) /\ ~ streams[u].wall
    /\ streams' = [streams EXCEPT ![u].wall = TRUE]
    /\ UNCHANGED <<mode, recording, idle, sources, mu, pc, job, buf, infos, stopping,
                   input, released, cut, files, reported, events, faults>>

\* A new record mode: every stream is closed first, in any order.
ChangeMode(m) ==
    /\ Ready /\ m # mode
    /\ job' = [kind |-> "mode", mode |-> m, todo |-> Known]
    /\ pc' = "mode"
    /\ UNCHANGED <<mode, recording, idle, sources, streams, mu, buf, infos, stopping,
                   input, released, cut, files, reported, events, faults>>

ModeClose(u) ==
    /\ pc = "mode" /\ u \in job.todo
    /\ IF Active(u)
       THEN \E r \in CloseResults(streams[u].file, 0) \cap {"none", "info"} : FileClosed(u, r)
       ELSE NothingClosed
    /\ Free(Owned(u))
    /\ streams' = [streams EXCEPT ![u].file = NoFile, ![u].ring = <<>>, ![u].seen = FALSE]
    /\ job' = [job EXCEPT !.todo = @ \ {u}]
    /\ UNCHANGED <<mode, recording, idle, sources, mu, pc, buf, stopping, input, cut,
                   failed, reported, events>>

\* An error ends Step: the mode stays, and the files closed before are forgotten.
ModeCloseFails(u) ==
    /\ pc = "mode" /\ u \in job.todo /\ Active(u)
    /\ \E r \in CloseResults(streams[u].file, 0) \cap {"error", "panic"} :
          /\ faults' = IF r = "error" THEN faults + 1 ELSE faults
          /\ IF r = "panic" THEN Panic ELSE pc' = "idle" /\ UNCHANGED mu
    /\ Free(streams[u].file.held) /\ SetFile(u, NoFile)
    /\ infos' = {} /\ failed' = failed \cup {"mode"} /\ job' = NoJob
    /\ UNCHANGED <<mode, recording, idle, sources, buf, stopping, input, cut, closed,
                   reported, events>>

ModeChanged ==
    /\ pc = "mode" /\ job.todo = {}
    /\ mode' = job.mode /\ recording' = FALSE
    /\ pc' = "send" /\ job' = NoJob
    /\ UNCHANGED <<idle, sources, streams, mu, buf, infos, stopping, input, released,
                   cut, files, reported, events, faults>>

-----------------------------------------------------------------------------
(* Step: a packet *)

Src  == job.pkt.url      \* the packet at hand, its source, stream and file
Pkt  == job.pkt
Strm == streams[Src]
File == Strm.file
rest == <<mode, idle, sources, stopping, input, reported, events>>

Finish(next) == pc' = next /\ job' = IF next \in {"idle", "send"} THEN NoJob ELSE job

\* Packets of an unknown source, and all in mode "never", are given back.
Receive(u, kind, newpar) ==
    LET version == IF newpar THEN par[u] + 1 ELSE par[u]
        p == [url |-> u, id |-> got[u] + 1, kind |-> kind, t |-> time[u], par |-> version] IN
    /\ Ready /\ MapThenSumSet(LAMBDA v : got[v], Urls) < MaxPkts
    /\ newpar => kind = "key" /\ par[u] < MaxPars
    /\ got' = [got EXCEPT ![u] = @ + 1]
    /\ time' = [time EXCEPT ![u] = @ + Dur(p)]
    /\ par' = [par EXCEPT ![u] = version]
    /\ IF mode = "never" \/ u \notin sources
       THEN Free({p}) /\ UNCHANGED <<streams, pc, job>>
       ELSE /\ pc' = "codec" /\ job' = [kind |-> "pkt", pkt |-> p]
            /\ streams' = [streams EXCEPT ![u] = IF u \in Known THEN @ ELSE NewStream]
            /\ UNCHANGED released
    /\ UNCHANGED <<mode, recording, idle, sources, mu, buf, infos, stopping, cut, files,
                   reported, events, faults>>

\* New codec parameters end the file, a short one is removed.
CodecParameters ==
    LET changed == IF Video(Pkt) THEN Strm.par # Pkt.par ELSE ~ Strm.audio
        newpar == IF Video(Pkt) THEN [Strm EXCEPT !.par = Pkt.par]
                                ELSE [Strm EXCEPT !.audio = TRUE] IN
    /\ pc = "codec"
    /\ IF changed /\ Active(Src)
       THEN \E r \in CloseResults(File, ShortFile) :
               /\ FileClosed(Src, r)
               /\ Free(File.held \cup IF r = "error" THEN {Pkt} ELSE {})
               /\ SetStream(Src, [newpar EXCEPT !.file = NoFile])
               /\ IF r = "panic" THEN Panic /\ job' = NoJob
                  ELSE Finish(IF r = "error" THEN "idle" ELSE "handle") /\ UNCHANGED mu
       ELSE /\ SetStream(Src, newpar) /\ Finish("handle")
            /\ UNCHANGED <<mu, released>> /\ NothingClosed
    /\ UNCHANGED <<rest, recording, buf, cut, failed>>

\* Nothing is used before the first keyframe.
BeforeKeyframe ==
    /\ pc = "handle" /\ ~ Strm.seen /\ ~ Key(Pkt)
    /\ Free({Pkt}) /\ infos' = {} /\ Finish("idle")
    /\ UNCHANGED <<rest, recording, streams, mu, buf, cut, closed, faults, failed>>

Admitted == pc = "handle" /\ (Strm.seen \/ Key(Pkt))

\* Where the packet goes: into the pre-buffer, or into a file, which may be
\* finished before, for good (EndSession) or for the next one (Rotate).
Idle == mode = "event" /\ ~ Active(Src)
maxReached == Strm.session >= MaxEvent \/ Strm.wall
SessionOver ==
    /\ mode = "event" /\ Active(Src)
    /\ File.dur >= MinEvent
    /\ IF idle THEN Key(Pkt) ELSE maxReached
Rotates ==
    /\ Active(Src) /\ Key(Pkt) /\ File.dur >= Target
    /\ mode = "event" => /\ ~ idle /\ ~ maxReached
                         /\ MaxEvent - Strm.session >= Target

\* Variant: the drained packets stay in the ring.
BufferKept ==
    LET ring == Buffered(Strm.ring, Pkt)
        dropped == Range(Append(Strm.ring, Pkt)) \ Range(ring)
        start == Key(Pkt) /\ ~ Strm.saved IN
    /\ Admitted /\ Idle
    /\ Free(dropped)
    /\ cut' = cut \cup Names({p \in dropped : \E q \in Range(ring) : q.id < p.id})
    /\ SetStream(Src, [Strm EXCEPT !.ring = ring, !.seen = TRUE])
    /\ buf' = IF start THEN ring ELSE <<>>
    /\ IF start THEN Finish("drainOpen") ELSE Finish("send")
    /\ UNCHANGED <<rest, recording, mu, closed, infos, faults, failed>>

\* Variant: the recording starts before the keyframe is in the ring.
BufferDrainedFirst ==
    LET ring == Buffered(Strm.ring, Pkt)
        dropped == Range(Append(Strm.ring, Pkt)) \ Range(ring)
        s == [Strm EXCEPT !.ring = ring, !.seen = TRUE]
        start == Key(Pkt) /\ ~ Strm.saved /\ Strm.ring # <<>> IN
    /\ Admitted /\ Idle
    /\ Free(IF start THEN {} ELSE dropped)
    /\ cut' = IF start THEN cut
              ELSE cut \cup Names({p \in dropped : \E q \in Range(ring) : q.id < p.id})
    /\ SetStream(Src, IF start THEN [s EXCEPT !.ring = <<Pkt>>] ELSE s)
    /\ buf' = IF start THEN Strm.ring ELSE <<>>
    /\ IF start THEN Finish("drainOpen") ELSE Finish("send")
    /\ UNCHANGED <<rest, recording, mu, closed, infos, faults, failed>>

\* Idle in event mode: into the pre-buffer; a waiting event takes it from there.
Buffer ==
    LET ring == Buffered(Strm.ring, Pkt)
        dropped == Range(Append(Strm.ring, Pkt)) \ Range(ring)
        s == [Strm EXCEPT !.ring = ring, !.seen = TRUE]
        start == Key(Pkt) /\ ~ Strm.saved IN
    /\ Admitted /\ Idle
    /\ Free(dropped)
    /\ cut' = cut \cup Names({p \in dropped : \E q \in Range(ring) : q.id < p.id})
    /\ SetStream(Src, IF start THEN [s EXCEPT !.ring = <<>>] ELSE s)
    /\ buf' = IF start THEN ring ELSE <<>>
    /\ IF start THEN Finish("drainOpen") ELSE Finish("send")
    /\ UNCHANGED <<rest, recording, mu, closed, infos, faults, failed>>

\* Variant: the status goes off with the first session that ends.
EndSessionAlone ==
    LET ring == Buffered(Strm.ring, Pkt)
        s == [Strm EXCEPT !.file = NoFile, !.seen = TRUE]
        stop(r) == IF Key(Pkt) THEN Pkt.t
                   ELSE IF r = "info" THEN File.start.t + File.dur ELSE Strm.stop IN
    /\ Admitted /\ SessionOver
    /\ \E r \in CloseResults(File, 0) :
          /\ FileClosed(Src, r)
          /\ IF r \in {"info", "none"}
             THEN /\ SetStream(Src, [s EXCEPT !.ring = ring, !.session = 0, !.wall = FALSE,
                                              !.stop = stop(r)])
                  /\ recording' = FALSE
                  /\ Free(File.held \cup (Range(Append(Strm.ring, Pkt)) \ Range(ring)))
             ELSE /\ SetStream(Src, s)
                  /\ Free(File.held \cup IF r = "error" THEN {Pkt} ELSE {})
                  /\ UNCHANGED recording
          /\ IF r = "panic" THEN Panic /\ job' = NoJob ELSE Finish("send") /\ UNCHANGED mu
    /\ UNCHANGED <<rest, buf, cut, failed>>

\* endEventSession: the packet that ends it seeds the pre-buffer.  Without
\* another file in the making the status goes off.
EndSession ==
    LET ring == Buffered(Strm.ring, Pkt)
        s == [Strm EXCEPT !.file = NoFile, !.seen = TRUE]
        stop(r) == IF Key(Pkt) THEN Pkt.t
                   ELSE IF r = "info" THEN File.start.t + File.dur ELSE Strm.stop IN
    /\ Admitted /\ SessionOver
    /\ \E r \in CloseResults(File, 0) :
          /\ FileClosed(Src, r)
          /\ IF r \in {"info", "none"}
             THEN /\ SetStream(Src, [s EXCEPT !.ring = ring, !.session = 0, !.wall = FALSE,
                                              !.stop = stop(r)])
                  /\ recording' = (recording /\ \E u \in Urls \ {Src} : Active(u))
                  /\ Free(File.held \cup (Range(Append(Strm.ring, Pkt)) \ Range(ring)))
             ELSE /\ SetStream(Src, s)
                  /\ Free(File.held \cup IF r = "error" THEN {Pkt} ELSE {})
                  /\ UNCHANGED recording
          /\ IF r = "panic" THEN Panic /\ job' = NoJob ELSE Finish("send") /\ UNCHANGED mu
    /\ UNCHANGED <<rest, buf, cut, failed>>

Rotate ==
    /\ Admitted /\ ~ SessionOver /\ Rotates
    /\ \E r \in CloseResults(File, 0) :
          /\ FileClosed(Src, r)
          /\ Free(File.held \cup IF r = "error" THEN {Pkt} ELSE {})
          /\ IF r = "panic" THEN Panic /\ job' = NoJob
             ELSE Finish(IF r = "error" THEN "send" ELSE "open") /\ UNCHANGED mu
    /\ SetStream(Src, [Strm EXCEPT !.file = NoFile, !.seen = TRUE])
    /\ UNCHANGED <<rest, recording, buf, cut, failed>>

Handle ==
    /\ Admitted /\ ~ Idle /\ ~ SessionOver /\ ~ Rotates
    /\ SetStream(Src, [Strm EXCEPT !.seen = TRUE])
    /\ IF Active(Src) THEN Finish("write") /\ UNCHANGED released
       ELSE IF Key(Pkt) THEN Finish("open") /\ UNCHANGED released
       ELSE Finish("send") /\ Free({Pkt})
    /\ UNCHANGED <<rest, recording, mu, buf, cut, closed, infos, faults, failed>>

\* openNewSegment.  Only the mode "always" touches the status here.
Open ==
    /\ pc = "open"
    /\ SetFile(Src, NewFile(Pkt, Strm.par))
    /\ recording' = (recording \/ mode = "always")
    /\ Finish("write")
    /\ UNCHANGED <<rest, released, mu, buf, cut, closed, infos, faults, failed>>

\* Variant: what was closed before is dropped with the error.
OpenFailsSilently ==
    /\ pc = "open" /\ faults < MaxFaults
    /\ faults' = faults + 1
    /\ Free({Pkt}) /\ infos' = {} /\ Finish("send")
    /\ UNCHANGED <<rest, recording, streams, mu, buf, cut, closed, failed>>

OpenFails ==
    /\ pc = "open" /\ faults < MaxFaults
    /\ faults' = faults + 1
    /\ Free({Pkt}) /\ Finish("send")
    /\ UNCHANGED <<rest, recording, streams, mu, buf, cut, closed, infos, failed>>

Write ==
    /\ pc = "write"
    /\ SetStream(Src, [Strm EXCEPT !.file = Written(@, Pkt),
                       !.session = IF mode = "event" THEN @ + Dur(Pkt) ELSE @])
    /\ Finish("flush")
    /\ UNCHANGED <<rest, recording, released, mu, buf, cut, closed, infos, faults, failed>>

-----------------------------------------------------------------------------
(* Flush, of a live file and of the file a pre-buffer goes into *)

\* Pending bytes make an event file due at any packet.
FlushMust == File.dur - File.flush >= IF mode = "always" THEN Target + 1 ELSE FlushEvery
FlushDue ==
    \/ pc \in {"flush", "drainFlush"} /\ (FlushMust \/ mode = "event")
    \/ pc = "drainEnd"

After == IF pc = "flush" THEN "send" ELSE IF buf = <<>> THEN "drainEnd" ELSE "drain"

NoFlush ==
    /\ pc \in {"flush", "drainFlush"} /\ ~ FlushMust
    /\ Finish(After)
    /\ UNCHANGED <<rest, recording, streams, released, mu, buf, cut, closed, infos, faults,
                   failed>>

Flush ==
    /\ FlushDue
    /\ ~ File.damaged
    /\ Free(File.held \ File.last)
    /\ SetStream(Src, [Strm EXCEPT !.file = Flushed(@),
                                   !.saved = IF pc = "drainEnd" THEN TRUE ELSE @])
    /\ Finish(IF pc = "drainEnd" THEN "send" ELSE After)
    /\ UNCHANGED <<rest, recording, mu, buf, cut, closed, infos, faults, failed>>

FlushFails ==
    /\ FlushDue
    /\ ~ File.damaged /\ faults < MaxFaults
    /\ faults' = faults + 1
    /\ \E lost \in FlushLoses(File.held \ File.last) :
          /\ Free(lost)
          /\ SetFile(Src, [File EXCEPT !.held = @ \ lost,
                                       !.damaged = ~ Batched /\ lost # {}])
    /\ failed' = failed \cup {"flush"} \cup (IF pc = "flush" THEN {} ELSE {"drain"})
    /\ buf' = <<>>
    /\ Finish("send")
    /\ UNCHANGED <<rest, recording, mu, cut, closed, infos>>

\* The next flush meets the packet given back, now nil.
FlushPanics ==
    /\ FlushDue
    /\ File.damaged
    /\ Panic /\ job' = NoJob /\ buf' = <<>> /\ infos' = {}
    /\ UNCHANGED <<rest, recording, streams, released, cut, closed, faults, failed>>

-----------------------------------------------------------------------------
(* startEventRecording: the pre-buffer becomes the first files of a session *)

drained == <<rest, cut, failed>>
Start == LET first == findFirstKeyframe(buf)
         IN IF Strm.stop < 0 THEN first ELSE findKeyframeAtOrAfter(buf, first, Strm.stop)

DrainOpen ==
    /\ pc = "drainOpen"
    /\ Free({buf[i] : i \in 1 .. Start - 1})
    /\ SetStream(Src, [Strm EXCEPT !.file = NewFile(buf[Start], Strm.par),
                                   !.session = 0, !.wall = FALSE])
    /\ buf' = SubSeq(buf, Start, Len(buf))
    /\ recording' = TRUE
    /\ Finish("drain")
    /\ UNCHANGED <<drained, mu, closed, infos, faults>>

DrainOpenFails ==
    /\ pc \in {"drainOpen", "drainNext"} /\ faults < MaxFaults
    /\ faults' = faults + 1
    /\ Free(Range(buf)) /\ buf' = <<>>
    /\ Finish("send")
    /\ UNCHANGED <<drained, recording, streams, mu, closed, infos>>

DrainRotates == Key(Head(buf)) /\ File.dur >= Target

DrainClose ==
    /\ pc = "drain" /\ DrainRotates
    /\ \E r \in CloseResults(File, 0) :
          /\ FileClosed(Src, r)
          /\ Free(File.held \cup IF r = "error" THEN Range(buf) ELSE {})
          /\ buf' = IF r \in {"none", "info"} THEN buf ELSE <<>>
          /\ IF r = "panic" THEN Panic /\ job' = NoJob
             ELSE Finish(IF r = "error" THEN "send" ELSE "drainNext") /\ UNCHANGED mu
    /\ SetFile(Src, NoFile)
    /\ UNCHANGED <<drained, recording>>

DrainNext ==
    /\ pc = "drainNext"
    /\ SetFile(Src, NewFile(Head(buf), Strm.par))
    /\ Finish("drain")
    /\ UNCHANGED <<drained, recording, released, mu, buf, closed, infos, faults>>

DrainWrite ==
    /\ pc = "drain" /\ ~ DrainRotates
    /\ SetStream(Src, [Strm EXCEPT !.file = Written(@, Head(buf)),
                                   !.session = @ + Dur(Head(buf))])
    /\ buf' = Tail(buf)
    /\ Finish("drainFlush")
    /\ UNCHANGED <<drained, recording, released, mu, closed, infos, faults>>

-----------------------------------------------------------------------------
(* The end of Step, and Release *)

\* sendFileInfo, after the mutex is free again: it waits for the consumer, but
\* not when the segmenter is being closed.
SendInfos ==
    /\ pc = "send"
    /\ \E sent \in IF stopping THEN SUBSET infos ELSE {infos} : reported' = reported \cup sent
    /\ infos' = {} /\ pc' = "idle"
    /\ UNCHANGED <<mode, recording, idle, sources, streams, mu, job, buf, stopping, input,
                   released, cut, files, events, faults>>

\* stopCh is closed.  Nothing tells when, so it happens where it is noticed: by a
\* Step that sends, which then need not, or by a Step that waits, the last one.
Stop ==
    /\ ~ stopping /\ pc = "send" /\ infos # {}
    /\ stopping' = TRUE
    /\ UNCHANGED <<mode, recording, idle, sources, streams, mu, pc, job, buf, infos, input,
                   released, cut, files, reported, events, faults>>

Release ==
    /\ Ready
    /\ stopping' = TRUE
    /\ pc' = "release" /\ job' = [kind |-> "release", todo |-> Known]
    /\ UNCHANGED <<mode, recording, idle, sources, streams, mu, buf, infos, input,
                   released, cut, files, reported, events, faults>>

\* No manager recovers a panic in Release.
ReleaseStream(u) ==
    /\ pc = "release" /\ u \in job.todo
    /\ job' = [job EXCEPT !.todo = @ \ {u}]
    /\ \E r \in IF Active(u) THEN CloseResults(streams[u].file, 0) ELSE {"none"} :
          /\ IF Active(u) THEN FileClosed(u, r) ELSE NothingClosed
          /\ IF r = "panic"
             THEN pc' = "crashed" /\ SetFile(u, NoFile) /\ Free(streams[u].file.held)
             ELSE /\ SetStream(u, [streams[u] EXCEPT !.file = NoFile, !.ring = <<>>])
                  /\ Free(Owned(u)) /\ UNCHANGED pc
    /\ UNCHANGED <<mode, recording, idle, sources, mu, buf, stopping, input, cut,
                   failed, reported, events>>

\* The infos are offered for five seconds; then the channels are closed.
Released ==
    /\ pc = "release" /\ job.todo = {}
    /\ \E sent \in SUBSET infos : reported' = reported \cup sent
    /\ infos' = {} /\ pc' = "closed" /\ job' = NoJob
    /\ UNCHANGED <<mode, recording, idle, sources, streams, mu, buf, stopping, input,
                   released, cut, files, events, faults>>

-----------------------------------------------------------------------------
Packet ==
    \/ \E u \in Urls, k \in {"key", "delta", "audio"}, new \in BOOLEAN : Receive(u, k, new)
    \/ CodecParameters \/ BeforeKeyframe \/ Buffer \/ EndSession \/ Rotate \/ Handle
    \/ Open \/ OpenFails \/ Write \/ NoFlush \/ Flush \/ FlushFails \/ FlushPanics

Drain == DrainOpen \/ DrainOpenFails \/ DrainClose \/ DrainNext \/ DrainWrite

Next ==
    \/ \E u \in Urls : addSource(u) \/ removeSource(u) \/ ClockMax(u)
                     \/ ModeClose(u) \/ ModeCloseFails(u) \/ ReleaseStream(u)
    \/ Event \/ ClockIdle \/ (\E m \in Modes : ChangeMode(m)) \/ ModeChanged
    \/ Packet \/ Drain \/ SendInfos \/ Stop \/ Release \/ Released

Spec == Init /\ [][Next]_vars

-----------------------------------------------------------------------------
(* Properties *)

InHand == IF job.kind = "pkt" /\ pc \in {"codec", "handle", "open", "write"} THEN {Pkt} ELSE {}
Places == {Range(streams[u].ring) : u \in Known} \cup {streams[u].file.held : u \in {v \in Urls : Active(v)}}
InPlace == UNION Places
Received == UNION {{u} \X (1 .. got[u]) : u \in Urls}

\* Every packet received has exactly one owner, or was given back: nothing is
\* given back while the ring, a muxer, the drain or Step still uses it, and
\* nothing is lost, unless a flush failed in the middle of a drain or a panic
\* took what Step had at hand.
PacketsOwnedOnce ==
    LET used == InHand \cup Range(buf) \cup InPlace IN
    /\ released \cap Names(used) = {}
    /\ \A P, Q \in Places \cup {Range(buf)} : P # Q => P \cap Q = {}
    /\ "drain" \in failed \/ mu = "lost" \/ pc = "crashed"
       \/ Received \subseteq released \cup Names(used)

\* A file can be decoded from its first packet on: it starts with a keyframe
\* and holds every packet of the source from there to its end, but for those
\* the full ring gave up, and those a failed drain forgot.
FilesHaveNoHoles ==
    \A v \in Urls : Active(v) /\ streams[v].file.ids # {} =>
        LET f == streams[v].file IN
        /\ Key(f.start) /\ f.start.id = Min(f.ids)
        /\ \A i \in Min(f.ids) .. Max(f.ids) :
              i \in f.ids \/ <<v, i>> \in cut \/ "drain" \in failed

\* While a stream is recorded the status says so, whatever the other streams do.
StatusCoversRecording ==
    pc \in {"idle", "send"} /\ mu = "free" =>
        ((\E v \in Urls : Active(v) /\ streams[v].file.ids # {}) => recording)

\* Files tells of every file that was finished, unless a mode change failed
\* halfway, a panic or the shutdown came between.
ClosedFilesReported ==
    mu = "free" /\ ~ stopping /\ "mode" \notin failed => closed = reported \cup infos

\* What the interface says of Files: a FileInfo for every closed segment.
EveryClosedFileReported == mu = "free" /\ ~ stopping => closed = reported \cup infos

\* What Step says of new codec parameters: the next segment is opened with
\* them, so a file has one set of video parameters.
OneCodecPerFile ==
    \A v \in Urls : Active(v) => \A p \in streams[v].file.held : p.par = streams[v].file.par

\* What Release says: no ring-buffer slots leak after shutdown.
NoSlotsLeakAfterShutdown ==
    pc = "closed" => Received \subseteq released
=============================================================================
