------------------------------ MODULE RTPReceiver ------------------------------
(* format/rtp, the receiving side: the depacketizers of H.264, H.265, MJPEG    *)
(* and audio.  Each takes one RTP payload per call of ReadPacket, keeps what   *)
(* does not make a packet yet, queues the packets it makes, and returns them   *)
(* one by one.  Packets live in slots of the ring, or on the heap when it is   *)
(* full; the state "d" of a depacketizer is one record.                        *)
EXTENDS RTPPackets, MJPEGFrames

CONSTANTS Codecs,    \* the depacketizers under test
          WrapperFrames, \* whether the keyframe in a fragmented wrapper is expected
          MaxUnits,  \* bound: access units or frames sent
          MaxFaults  \* bound: MJPEG fragments lost or out of order

VARIABLES kind,      \* which depacketizer this behaviour is about
          net,       \* RTP payloads on their way
          d,         \* the depacketizer
          held,      \* slots of packets the caller holds
          out,       \* what the caller was given, without the slots
          expected,  \* what it should be given, in order
          units,     \* access units or frames sent
          faults,
          closed

receiverVars == <<kind, net, d, held, out, expected, units, faults, closed>>

NoSlice == [data |-> <<>>]
Sets == {"vps", "sps", "pps"}
Version(v) == [s \in Sets |-> v]

ReceiverInit ==
    /\ kind \in Codecs
    /\ net = <<>> /\ held = <<>> /\ out = <<>> /\ expected = <<>>
    /\ units = 0 /\ faults = 0 /\ closed = FALSE
    /\ d = [queue |-> <<>>,        \* packets
            fu |-> <<>>,           \* BufferRTPPacket: pieces of a fragmented NAL unit
            started |-> FALSE,     \* fuStarted
            key |-> FALSE,         \* bufferHasKey
            slice |-> NoSlice,     \* slicedPacket and slicedHandle
            par |-> Version(1),    \* the parameter sets last received
            codec |-> Version(1),  \* the parameters given to packets
            frags |-> <<>>,        \* fragments of the MJPEG frame with timestamp ts
            ts |-> 0,
            head |-> <<>>,         \* frameHeaders of that frame
            restart |-> 0,         \* restartInterval
            cache |-> [q \in {} |-> NoTables],  \* cachedQTables
            refs |-> <<>>,         \* references of the slots allocated so far
            err |-> FALSE]

(* ---------------------------- Slots and packets ---------------------------- *)

\* A slot of the ring, or 0 for a packet on the heap; how = "heap" when the ring
\* is full or absent.
Alloc(st, how) == IF how = "heap" THEN st ELSE [st EXCEPT !.refs = Append(@, 1)]
SlotOf(st, how) == IF how = "heap" THEN 0 ELSE Len(st.refs) + 1
Free(st, slot) == IF slot = 0 THEN st ELSE [st EXCEPT !.refs[slot] = @ - 1]

Packet(st, data, key, slot) == [data |-> data, key |-> key, codec |-> st.codec, slot |-> slot]
Content(p) == [data |-> Joined(p.data), key |-> p.key, codec |-> p.codec]

AddPacket(st, data, key, how) ==
    [Alloc(st, how) EXCEPT !.queue = Append(@, Packet(st, data, key, SlotOf(st, how)))]

\* CodecUpdateSPS and the like: a set that is new replaces the one kept, and if
\* the sets can be parsed together packets get the new parameters from now on.
Parses(par) == \A s \in Sets : par[s] # 0
UpdateSet(st, s, v) ==
    IF st.par[s] = v THEN st
    ELSE LET new == [st EXCEPT !.par[s] = v]
         IN  IF Parses(new.par) THEN [new EXCEPT !.codec = new.par]
                                ELSE [new EXCEPT !.err = TRUE]

(* -------------------------------- H.264 ------------------------------------ *)

\* One NAL unit of a single or STAP-A payload; an error ends the payload.
Nal264(st, nal, how) ==
    CASE st.err -> st
      [] nal.k = "slice" -> AddPacket(st, Whole(nal), nal.key, how)
      [] nal.k \in Sets -> UpdateSet(st, nal.k, nal.ver)
      [] OTHER -> st

\* finalizeFUAPacket.  The content of a fragmented parameter set is split with a
\* start code of four bytes before it, which SplitNALUs takes for the length 1:
\* the first of the "nested" units is the NAL header alone, an SPS of one byte.
FinalizeFUA(st, how) ==
    LET nal  == Head(st.fu).nal
        done == [st EXCEPT !.started = FALSE]
        stub == UpdateSet(done, "sps", 0)
    IN  CASE nal.k # "sps" -> AddPacket(done, st.fu, nal.k = "slice" /\ nal.key, how)
          [] stub.err -> stub
          [] OTHER -> AddPacket(stub, st.fu, FALSE, how)

\* processLFUA: only a start fragment begins a NAL unit.
Fua(st, u, how) ==
    LET nal == Head(u.nals)
        fed == [st EXCEPT !.started = TRUE,
                          !.fu = (IF u.start THEN <<Piece(nal, 0, HeaderSize.h264)>> ELSE @)
                                 \o <<Piece(nal, u.from, u.to)>>]
    IN  CASE ~u.start /\ ~st.started -> st
          [] u.end -> FinalizeFUA(fed, how)
          [] OTHER -> fed

Read264(st, u, how) ==
    IF u.k = "fu" THEN Fua(st, u, how)
    ELSE FoldLeft(LAMBDA s, nal : Nal264(s, nal, how), st, u.nals)

(* -------------------------------- H.265 ------------------------------------ *)

\* addPacket: a NAL unit that begins a picture; the picture before it is complete.
AddSlice(st, data, key, how) ==
    LET next == Alloc(st, how)
    IN  [next EXCEPT !.queue = IF st.slice = NoSlice THEN @ ELSE Append(@, st.slice),
                     !.slice = Packet(st, data, key, SlotOf(st, how))]

\* appendToPacket: the slot of the picture grows in place ("extend"), or its bytes
\* move to a new slot or to the heap and the old slot is released.
GrownKept(st, how) ==
    [Alloc(st, how) EXCEPT !.slice.slot = SlotOf(st, how)]
Grown(st, how) ==
    IF st.slice.slot = 0 \/ how = "extend" THEN st
    ELSE Free([Alloc(st, how) EXCEPT !.slice.slot = SlotOf(st, how)], st.slice.slot)
AppendSlice(st, data, key, how) ==
    IF st.slice = NoSlice THEN st
    ELSE [Grown(st, how) EXCEPT !.slice.data = @ \o data, !.slice.key = @ \/ key]

\* The first bit after the NAL header tells whether a slice begins a picture.
Slice265(st, data, first, key, how) ==
    IF first THEN AddSlice(st, data, key, how) ELSE AppendSlice(st, data, key, how)

Nal265(st, nal, how) ==
    CASE nal.k = "slice" -> Slice265(st, Whole(nal), nal.first, nal.first /\ nal.key, how)
      [] nal.k \in Sets -> UpdateSet(st, nal.k, nal.ver)
      [] OTHER -> st

Fu265(st, u, how) ==
    LET nal  == Head(u.nals)
        body == Piece(nal, u.from, u.to)
        keyed == [st EXCEPT !.key = @ \/ nal.key]
        fed  == IF u.start THEN [keyed EXCEPT !.fu = <<Piece(nal, 0, HeaderSize.h265), body>>]
                           ELSE [keyed EXCEPT !.fu = Append(@, body)]
    IN  IF u.start \/ ~u.end THEN fed
        ELSE [Slice265(fed, fed.fu, Head(fed.fu).nal.first, fed.key, how) EXCEPT !.key = FALSE]

Read265(st, u, how) ==
    IF u.k = "fu" THEN Fu265(st, u, how)
    ELSE FoldLeft(LAMBDA s, nal : Nal265(s, nal, how), st, u.nals)

(* -------------------------------- MJPEG ------------------------------------ *)

\* assembleFrame: the headers, then the fragments in the order of their offsets; a
\* frame without its start is dropped, and so is one with a gap, after its slot was
\* allocated.  Only a frame that is put together resets the restart interval.
ByOffset(frags) == SortSeq(frags, LAMBDA a, b : a.from < b.from)
GapBeforeLastOnly(frags) ==
    Len(frags) > 1 /\ Last(frags).from # frags[Len(frags) - 1].to
Gap(frags) ==
    \E i \in DOMAIN frags : frags[i].from # (IF i = 1 THEN 0 ELSE frags[i - 1].to)
Assemble(st, how) ==
    LET frags == ByOffset(st.frags)
        none  == [st EXCEPT !.frags = <<>>]
    IN  CASE Head(frags).from # 0 -> none
          [] Gap(frags) -> Free(Alloc(none, how), SlotOf(none, how))
          [] OTHER -> [AddPacket(none, <<Piece(st.head, 0, 0)>> \o frags, TRUE, how)
                          EXCEPT !.restart = 0]

\* The tables of a frame: those its first fragment carries, or, when it says that
\* they are known, those that came with this quality before.
TablesOf(st, u, look) ==
    CASE u.from # 0 \/ look.q < 128 -> NoTables
      [] look.raw.units # <<>> -> look.raw
      [] look.q < 255 /\ look.q \in DOMAIN st.cache -> st.cache[look.q]
      [] OTHER -> look.raw
Cached(st, u, look) ==
    IF u.from = 0 /\ look.q \in 128..254 /\ look.raw.units # <<>>
    THEN [q \in DOMAIN st.cache \union {look.q} |-> IF q = look.q THEN look.raw ELSE st.cache[q]]
    ELSE st.cache

\* parseMJPEGPacket: the restart interval is in every fragment of its types.  A
\* fragment at offset 0 begins a frame, with the dimensions and the headers it
\* gives, and drops what is left of another; one with another timestamp than the
\* frame's drops the frame.
Parsed(st, u, look) ==
    [st EXCEPT !.restart = IF look.type \in 64..127 THEN look.restart ELSE @,
               !.cache = Cached(st, u, look)]
ReadMjpeg(st, u, how) ==
    LET nal    == Head(u.nals)
        look   == nal.look
        parsed == Parsed(st, u, look)
        begun  == IF u.from # 0 THEN parsed
                  ELSE [parsed EXCEPT
                          !.frags = <<>>, !.ts = nal.id, !.codec = <<8 * look.width, 8 * look.height>>,
                          !.head = Headers(look.type, look.width, look.height, look.q,
                                           parsed.restart, TablesOf(st, u, look))]
        fed    == [begun EXCEPT !.frags = Append(@, Piece(nal, u.from, u.to))]
    IN  CASE u.k = "bad" -> [st EXCEPT !.err = TRUE]
          [] begun.ts # nal.id -> [begun EXCEPT !.frags = <<>>]
          [] OTHER -> IF u.end THEN Assemble(fed, how) ELSE fed

(* -------------------------------- Audio ------------------------------------ *)

\* The access units of an AAC payload, or the one of Opus and PCM.  A payload
\* whose header does not fit is an error.
ReadAudio(st, u, how) ==
    IF u.k = "bad" THEN [st EXCEPT !.err = TRUE]
    ELSE FoldLeft(LAMBDA s, nal : AddPacket(s, Whole(nal), FALSE, how), st, u.nals)

(* ------------------------------- ReadPacket -------------------------------- *)

Read(u, how) ==
    CASE kind = "h264"  -> Read264(d, u, how)
      [] kind = "h265"  -> Read265(d, u, how)
      [] kind = "mjpeg" -> ReadMjpeg(d, u, how)
      [] kind = "audio" -> ReadAudio(d, u, how)

\* The first queued packet goes to the caller.
Deliver(st) ==
    IF st.queue = <<>> THEN d' = st /\ UNCHANGED <<held, out>>
    ELSE /\ d' = [st EXCEPT !.queue = Tail(@)]
         /\ out' = Append(out, Content(Head(st.queue)))
         /\ held' = IF Head(st.queue).slot = 0 THEN held ELSE Append(held, Head(st.queue).slot)

ReceiveQueued ==
    /\ ~closed /\ ~d.err /\ d.queue # <<>>
    /\ Deliver(d)
    /\ UNCHANGED <<kind, net, expected, units, faults, closed>>

\* A payload is read and taken apart; after an error nothing is returned, and the
\* caller closes the depacketizer.
ReceivePayload ==
    /\ ~closed /\ ~d.err /\ d.queue = <<>> /\ net # <<>>
    /\ net' = Tail(net)
    /\ \E how \in {"extend", "ring", "heap"} :
         LET st == Read(Head(net), how)
         IN  IF st.err THEN d' = st /\ UNCHANGED <<held, out>> ELSE Deliver(st)
    /\ UNCHANGED <<kind, expected, units, faults, closed>>

\* The caller releases a packet, in any order.
Release(i) ==
    /\ d' = Free(d, held[i])
    /\ held' = RemoveAt(held, i)
    /\ UNCHANGED <<kind, net, out, expected, units, faults, closed>>

\* Close: the queued packets and the picture that is being put together.
Emptied(st) ==
    [FoldLeft(LAMBDA s, p : Free(s, p.slot), st, st.queue) EXCEPT !.queue = <<>>]
CloseAll(st) ==
    LET rest == Emptied(st)
    IN  IF rest.slice = NoSlice THEN rest
        ELSE [Free(rest, rest.slice.slot) EXCEPT !.slice = NoSlice]
CloseReceiver ==
    /\ ~closed /\ closed' = TRUE
    /\ d' = CloseAll(d)
    /\ UNCHANGED <<kind, net, held, out, expected, units, faults>>

(* ---------------------- The sender and the network ------------------------- *)

Nal(k, len, key, first, ver) ==
    [k |-> k, id |-> units, len |-> len, key |-> key, first |-> first, ver |-> ver]
Params(v) == [i \in 1..3 |-> Nal(<<"vps", "sps", "pps">>[i], 4, FALSE, FALSE, v)]
Slices(lens, key) == [i \in DOMAIN lens |-> Nal("slice", lens[i], key, i = 1, i)]
InForce(v) == [Version(v) EXCEPT !.vps = IF kind = "h264" THEN 1 ELSE v]
Frame(data, key, v) == [data |-> Joined(data), key |-> key, codec |-> InForce(v)]
BadPayload == [k |-> "bad", nals |-> <<>>]
Data(nals) == FoldLeft(LAMBDA done, nal : done \o Whole(nal), <<>>, nals)

\* An access unit by the muxers of this package, of one or two slices that need
\* fragments or not; the parameter sets may be new at a keyframe, and a camera
\* may send them in an aggregate.
SendVideo(codec) ==
    \E key \in BOOLEAN, lens \in {<<3>>, <<9>>, <<9, 3>>, <<3, 9>>}, v \in 1..2, stap \in BOOLEAN :
       LET sets == IF codec = "h265" THEN Params(v) ELSE Tail(Params(v))
           nals == Slices(lens, key)
           old  == IF expected = <<>> THEN 1 ELSE Last(expected).codec.sps
       IN  /\ key \/ v = old
           /\ stap => key /\ codec = "h264"
           /\ net' = net \o (IF stap
                             THEN <<Aggregate(sets)>> \o WritePacket(codec, FALSE, <<>>, nals)
                             ELSE WritePacket(codec, key, sets, nals))
           /\ expected' = expected \o
                (IF codec = "h265" THEN <<Frame(Data(nals), key, v)>>
                 ELSE [i \in DOMAIN nals |-> Frame(Whole(nals[i]), key, v)])

\* A camera's wrapper: parameter sets and a keyframe in one fragmented unit.
SendWrapper ==
    LET nal == Nal("sps", 9, TRUE, TRUE, 1)
    IN  /\ net' = net \o Fragments("h264", nal)
        /\ expected' = IF WrapperFrames THEN Append(expected, Frame(Whole(nal), TRUE, 1))
                       ELSE expected

\* What an MJPEG camera puts before a frame: standard tables or its own, sent with
\* the frame or, once they were, left out; restart intervals or none.
Look(type, width, q, restart, raw) ==
    [type |-> type, width |-> width, height |-> 1, q |-> q, restart |-> restart, raw |-> raw]
Plain   == Look(1, 1, 50, 0, NoTables)
Restart == Look(65, 1, 30, 4, NoTables)
Tables  == Look(0, 1, 200, 0, RawTables({}, <<1, 2>>))
Known   == Look(0, 1, 200, 0, NoTables)
Wide    == Look(2, 2, 255, 0, RawTables({0}, <<3, 4, 5>>))

\* What a player has to know of such a frame.
Coded(look) ==
    [size |-> <<8 * look.width, 8>>,
     sampling |-> CASE look.type = 0 -> <<2, 1>> [] look.type = 2 -> <<1, 1>> [] OTHER -> <<2, 2>>,
     restart |-> look.restart, huffman |-> TRUE,
     tables |-> CASE look = Plain -> <<Luma, Chroma, Chroma>>
                  [] look = Restart -> <<<<27, 17, 201>>, <<28, 28, 164>>, <<28, 28, 164>>>>
                  [] look \in {Tables, Known} -> <<<<1>>, <<2>>, <<2>>>>
                  [] look = Wide -> <<<<3, 4>>, <<5>>, <<5>>>>]

SendMjpeg ==
    \/ \E look \in {Plain, Restart, Tables, Known, Wide}, n \in {1, 2, 4} :
       LET nal == [look |-> look] @@ Nal("jpeg", n, TRUE, TRUE, 1)
       IN  /\ look # Plain => n = 2
           /\ look = Known => \E i \in DOMAIN expected : Head(expected[i].data).nal = Coded(Tables)
           /\ net' = net \o [i \in 1..n |-> [k |-> "jpeg", nals |-> <<nal>>, from |-> i - 1,
                                             to |-> i, start |-> i = 1, end |-> i = n]]
           /\ expected' = Append(expected,
                 [data |-> <<Piece(Coded(look), 0, 0)>> \o Whole(nal), key |-> TRUE,
                  codec |-> <<8 * look.width, 8>>])
    \/ net' = Append(net, BadPayload) /\ UNCHANGED expected

SendAudio ==
    \/ \E n \in 1..3 :
         LET nals == [i \in 1..n |-> Nal("au", i, FALSE, TRUE, 1)]
         IN  /\ net' = Append(net, [k |-> "aus", nals |-> nals])
             /\ expected' = expected \o [i \in 1..n |-> Frame(Whole(nals[i]), FALSE, 1)]
    \/ net' = Append(net, BadPayload) /\ UNCHANGED expected

\* What is sent is read in this order, whenever it is sent: a stream without
\* faults may wait until all before it is read.
Send ==
    /\ units < MaxUnits /\ ~closed /\ ~d.err
    /\ kind = "mjpeg" \/ net = <<>>
    /\ units' = units + 1
    /\ CASE kind = "h264" -> SendVideo("h264") \/ SendWrapper
         [] kind = "h265" -> SendVideo("h265")
         [] kind = "mjpeg" -> SendMjpeg
         [] kind = "audio" -> SendAudio
    /\ UNCHANGED <<kind, d, held, out, faults, closed>>

\* MJPEG is put together by offset and timestamp, so it may stand fragments that
\* are lost or overtake each other.  (The other codecs rely on the TCP stream.)
Fault ==
    /\ kind = "mjpeg" /\ faults < MaxFaults /\ net # <<>>
    /\ faults' = faults + 1
    /\ \/ net' = Tail(net)
       \/ /\ Len(net) > 1
          /\ net' = <<net[2], net[1]>> \o SubSeq(net, 3, Len(net))
    /\ UNCHANGED <<kind, d, held, out, expected, units, closed>>

ReceiverNext ==
    \/ ReceiveQueued \/ ReceivePayload \/ CloseReceiver \/ Send \/ Fault
    \/ \E i \in DOMAIN held : Release(i)

ReceiverSpec == ReceiverInit /\ [][ReceiverNext]_receiverVars

(* ------------------------------ Properties --------------------------------- *)

Made == out \o [i \in DOMAIN d.queue |-> Content(d.queue[i])]

\* The frames made are the frames sent: the same bytes from the first to the
\* last, none of another frame, in order, marked as keyframes and with the
\* parameters in force just where they should be.  Once all has been read none is
\* missing but the H.265 picture that waits for the next one.
FramesWhole ==
    kind # "mjpeg" /\ ~closed =>
       /\ IsPrefix(Made, expected)
       /\ net = <<>> => expected = Made \o (IF d.slice = NoSlice THEN <<>> ELSE <<Content(d.slice)>>)

\* MJPEG frames are whole or not there, whatever is lost or out of order; when
\* nothing is, all are there and a player reads in the headers what the camera
\* coded the frame with.
Scan(frames)   == {Tail(frames[i].data) : i \in DOMAIN frames}
Played(frames) == [i \in DOMAIN frames |->
                     [frames[i] EXCEPT !.data[1].nal = Decoded(frames[i].data[1].nal)]]
MjpegFramesWhole ==
    kind = "mjpeg" =>
       /\ Scan(Made) \subseteq Scan(expected)
       /\ faults = 0 => IsPrefix(Played(Made), expected)
       /\ faults = 0 /\ net = <<>> /\ ~closed => Played(Made) = expected

\* The headers are right after a loss too.  Not so: the restart interval of a frame
\* that was dropped goes to the next one, and tables that were lost with the first
\* fragment that carried them are missing from all frames that rely on them.
HeadersAlwaysRight ==
    kind = "mjpeg" => ToSet(Played(Made)) \subseteq ToSet(expected)

FramesIntact == FramesWhole /\ MjpegFramesWhole

\* Every slot has one owner, the queue, the picture that is being put together or
\* the caller, until it is released, and it is released once (h264.go:220-227,
\* h265.go:25-128, mjpeg.go:233-256).
Owners(s) == Cardinality({i \in DOMAIN d.queue : d.queue[i].slot = s})
             + Cardinality({i \in DOMAIN held : held[i] = s})
             + (IF d.slice # NoSlice /\ d.slice.slot = s THEN 1 ELSE 0)
SlotsOwnedOnce == \A s \in DOMAIN d.refs : d.refs[s] = Owners(s)
===============================================================================
