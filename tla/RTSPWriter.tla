------------------------------ MODULE RTSPWriter ------------------------------
(* writer/rtsp/rtsp.go and format/rtsp/muxer.go over RTSPClient: the writer    *)
(* makes a muxer from the first video packet of its source (OPTIONS, ANNOUNCE, *)
(* SETUP, RECORD) and writes its packets until a write fails, the source is    *)
(* removed or replaced, or the writer stops.  The writer publishes video only, *)
(* so a session has one track.                                                 *)
EXTENDS RTSPClient, SDP

CONSTANTS Sources,     \* the sources packets come from
          Streams,     \* the codec parameters of a video packet, by its kind
          MaxPackets,  \* bound: packets handed to the writer
          MaxCommands, \* bound: sources added and removed
          ChanSize     \* room in the packet channel

ASSUME WriterAssumption ==
    /\ MaxPackets \in Nat /\ MaxCommands \in Nat /\ ChanSize \in Nat \ {0}

VARIABLES wpc,      \* "idle" in Step, "mux", "write", "stopped"
          srcURL,   \* the source that is published
          inpPktCh, \* the packet channel
          pkt,      \* the packet in hand
          muxer,    \* whether there is a muxer
          started,
          medias,   \* the media it has described
          given,    \* packets handed to the writer
          freed,    \* packets it released
          open,     \* connections dialled for the writer and not closed
          left,     \* those that a failed Mux left
          commands  \* sources added and removed so far

writerVars == <<wpc, srcURL, inpPktCh, pkt, muxer, started, medias, given, freed, open, left, commands>>

\* Video packets of some codecs, an audio packet, and nil.
Kinds == DOMAIN Streams \cup {"audio", "nil"}
Codec(p) == Streams[p.kind].codec
NoPacket == [src |-> "", kind |-> "nil"]
Packets(p) == IF p.kind = "nil" THEN 0 ELSE 1

WriterInit ==
    /\ wpc = "idle" /\ srcURL \in Sources /\ inpPktCh = <<>> /\ pkt = NoPacket
    /\ muxer = FALSE /\ started = FALSE /\ medias = <<>>
    /\ given = 0 /\ freed = 0 /\ open = 0 /\ left = 0 /\ commands = 0

\* Another goroutine puts a packet into the channel.
Give ==
    /\ wpc # "stopped" /\ given < MaxPackets /\ Len(inpPktCh) < ChanSize
    /\ \E src \in Sources, kind \in Kinds :
         /\ inpPktCh' = Append(inpPktCh, [src |-> src, kind |-> kind])
         /\ given' = given + Packets([kind |-> kind])
    /\ UNCHANGED <<clientVars, wpc, srcURL, pkt, muxer, started, medias, freed, open, left, commands>>

\* resetMuxer: the muxer is closed, with its client.
CloseMuxer ==
    /\ IF muxer THEN CloseClient ELSE UNCHANGED <<conn, seq, call, plan, asked, wire>>
    /\ open' = IF conn' # conn THEN open - 1 ELSE open
ResetMuxerStillStarted ==
    /\ CloseMuxer
    /\ muxer' = FALSE /\ medias' = <<>>
    /\ UNCHANGED <<auth, started>>
ResetMuxer ==
    /\ CloseMuxer
    /\ muxer' = FALSE /\ started' = FALSE /\ medias' = <<>>
    /\ UNCHANGED auth

StepAddSource(url) ==
    /\ wpc = "idle" /\ commands < MaxCommands
    /\ commands' = commands + 1
    /\ srcURL' = url
    /\ ResetMuxer
    /\ UNCHANGED <<wpc, inpPktCh, pkt, given, freed, left>>

\* srcURL stays: a packet of the source that comes later starts the muxer again.
StepRemoveSource(url) ==
    /\ wpc = "idle" /\ commands < MaxCommands
    /\ commands' = commands + 1
    /\ IF url = srcURL THEN ResetMuxer ELSE UNCHANGED <<clientVars, muxer, started, medias, open>>
    /\ UNCHANGED <<wpc, srcURL, inpPktCh, pkt, given, freed, left>>

Video(p) == p.kind \in DOMAIN Streams /\ p.src = srcURL

\* Nil, another source, audio: nothing is written.
StepDrop ==
    /\ wpc = "idle" /\ inpPktCh # <<>> /\ ~Video(Head(inpPktCh))
    /\ inpPktCh' = Tail(inpPktCh)
    /\ freed' = freed + Packets(Head(inpPktCh))
    /\ UNCHANGED <<clientVars, wpc, srcURL, pkt, muxer, started, medias, given, open, left, commands>>

StepWrite ==
    /\ wpc = "idle" /\ inpPktCh # <<>> /\ Video(Head(inpPktCh)) /\ started
    /\ inpPktCh' = Tail(inpPktCh) /\ pkt' = Head(inpPktCh)
    /\ wpc' = "write"
    /\ UNCHANGED <<clientVars, srcURL, muxer, started, medias, given, freed, open, left, commands>>

\* The codecs there is an RTP muxer for.
Packetized == {"h264", "h265"}

\* initMuxerFromVideoPacket: a new muxer with a client of its own.
StepMux ==
    /\ wpc = "idle" /\ inpPktCh # <<>> /\ Video(Head(inpPktCh)) /\ ~started
    /\ inpPktCh' = Tail(inpPktCh) /\ pkt' = Head(inpPktCh)
    /\ wpc' = "mux"
    /\ NewClient
    /\ EstablishFails \/ Establish
    /\ open' = IF conn' = "none" THEN open ELSE open + 1
    /\ UNCHANGED <<srcURL, muxer, started, medias, given, freed, left, commands>>

\* Mux goes on with the next request of its script.
MuxAsks(method, phases, next) ==
    /\ wpc = "mux" /\ call.method = method /\ call.phase \in phases
    /\ Continue(<<next>>)
    /\ UNCHANGED <<wpc, srcURL, inpPktCh, pkt, muxer, started, given, freed, open, left, commands>>
MuxAnnounce ==
    /\ MuxAsks("OPTIONS", {"ok"}, Ask("ANNOUNCE", 0))
    /\ Describable(Streams[pkt.kind])
    /\ medias' = CodecParamsToSDPMedias(<<Streams[pkt.kind]>>)
MuxSetup  == MuxAsks("ANNOUNCE", {"ok", "odd"}, Ask("SETUP", 0)) /\ UNCHANGED medias
MuxRecord ==
    /\ MuxAsks("SETUP", {"ok"}, Ask("RECORD", 0)) /\ UNCHANGED medias
    /\ Codec(pkt) \in Packetized

\* A request fails, the server does not offer ANNOUNCE and RECORD, the parameters
\* cannot be described, SETUP gives no channel, or the codec has no RTP muxer.
\* The muxer is forgotten, not closed: a connection it has stays as it is, until
\* the client of another muxer takes the place of its client.
MuxFails ==
    /\ wpc = "mux"
    /\ \/ call.phase = "failed"
       \/ call.method \in {"OPTIONS", "SETUP"} /\ call.phase = "odd"
       \/ call.method = "OPTIONS" /\ call.phase = "ok" /\ ~Describable(Streams[pkt.kind])
       \/ call.method = "SETUP" /\ call.phase = "ok" /\ Codec(pkt) \notin Packetized
    /\ wpc' = "idle" /\ pkt' = NoPacket /\ freed' = freed + 1
    /\ left' = left + (IF conn = "none" THEN 0 ELSE 1)
    /\ call' = NoCall /\ medias' = <<>>
    /\ UNCHANGED <<conn, seq, auth, plan, asked, wire, srcURL, inpPktCh, muxer, started,
                   given, open, commands>>

Muxed ==
    /\ wpc = "mux" /\ call.method = "RECORD" /\ call.phase \in {"ok", "odd"}
    /\ muxer' = TRUE /\ started' = TRUE /\ wpc' = "write" /\ call' = NoCall
    /\ UNCHANGED <<conn, seq, auth, plan, asked, wire, srcURL, inpPktCh, pkt, medias,
                   given, freed, open, left, commands>>

\* The packet is written and released; without a muxer it is only released.
\* A packet of another codec than the session's is refused, and ends the session.
Write ==
    /\ wpc = "write" /\ (muxer => Codec(pkt) = medias[1].type)
    /\ wpc' = "idle" /\ pkt' = NoPacket /\ freed' = freed + 1
    /\ UNCHANGED <<clientVars, srcURL, inpPktCh, muxer, started, medias, given, open, left, commands>>

WriteFails ==
    /\ wpc = "write" /\ muxer
    /\ wpc' = "idle" /\ pkt' = NoPacket /\ freed' = freed + 1
    /\ ResetMuxer
    /\ UNCHANGED <<srcURL, inpPktCh, given, left, commands>>

\* Release, after the stop channel was closed: the queue is drained and closed.
RealIn(q) == Cardinality({i \in DOMAIN q : q[i].kind # "nil"})
ReleaseWriter ==
    /\ wpc = "idle"
    /\ ResetMuxer
    /\ wpc' = "stopped"
    /\ inpPktCh' = <<>> /\ freed' = freed + RealIn(inpPktCh)
    /\ UNCHANGED <<srcURL, pkt, given, left, commands>>

WriterServe == ServeOldest /\ UNCHANGED writerVars
WriterCalls == wpc = "mux" /\ ClientStep /\ UNCHANGED writerVars

WriterNext ==
    \/ Give \/ StepDrop \/ StepWrite \/ StepMux \/ MuxAnnounce \/ MuxSetup \/ MuxRecord
    \/ MuxFails \/ Muxed \/ Write \/ WriteFails \/ ReleaseWriter \/ WriterServe \/ WriterCalls
    \/ \E url \in Sources : StepAddSource(url) \/ StepRemoveSource(url)

WriterSpec == ClientInit /\ WriterInit /\ [][WriterNext]_<<clientVars, writerVars>>

(* ------------------------------ Properties --------------------------------- *)

\* Every packet the writer was given is queued, in hand or released, once
\* (rtsp.go:86-121, 158-174).
WriterOwnsOnce == given = freed + RealIn(inpPktCh) + Packets(pkt)

\* Between two steps the connections that are open are the muxer's, which it will
\* close, and those that failed Muxes have left: none is lost when a source is
\* added or removed, when a write fails or when the writer stops.  There is a muxer
\* just when the writer takes itself for started (rtsp.go:95-117, 126-156).
MuxerOwnsConnection ==
    wpc \in {"idle", "write", "stopped"} =>
        /\ open = left + (IF muxer THEN 1 ELSE 0)
        /\ muxer => conn = "up"
        /\ muxer <=> started
        /\ call = NoCall

\* The description that is announced is read back by Parse as the streams are.
AnnouncedAsRead == RoundTrips("rtsp://dst", medias)

WriterSound == WriterOwnsOnce /\ MuxerOwnsConnection /\ AnnouncedAsRead

\* Known not to hold: a Mux that fails after the dial leaves its connection open,
\* as the muxer is forgotten and not closed (rtsp.go:139-142).
NoConnectionIsLeft == left = 0

\* Known not to hold: new parameters of the same codec are not announced, and the
\* keyframes are still preceded by the old sets (rtsp.go:93-110, h264_muxer.go:68-75).
WrittenAsAnnounced ==
    wpc = "write" /\ muxer /\ Codec(pkt) = medias[1].type => AllDescribed(medias)
                     = AllDescribed(CodecParamsToSDPMedias(<<Streams[pkt.kind]>>))
===============================================================================
