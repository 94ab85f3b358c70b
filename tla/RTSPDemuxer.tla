------------------------------ MODULE RTSPDemuxer ------------------------------
(* format/rtsp/demuxer.go over RTSPClient: Demux (OPTIONS, DESCRIBE, SETUP for *)
(* every medium, PLAY), ReadPacket, which takes frames and answers apart, and  *)
(* Close.  The depacketizers are external: a frame gives some packets, and     *)
(* then the end of the data or an error.                                       *)
EXTENDS RTSPClient, SDP

CONSTANTS Offers,    \* the media a server may describe, in any order
          Skipped,   \* the media the options NoVideo and NoAudio leave out
          MaxFrames, \* bound: frames the server sends
          MaxMade,   \* bound: packets the depacketizers make, and nils
          QuietLimit \* clock ticks in minPacketInterval

ASSUME DemuxAssumption == MaxFrames \in Nat /\ MaxMade \in Nat /\ QuietLimit \in Nat \ {0}

VARIABLES pc,       \* where Demux or ReadPacket is, "idle" between calls
          sdp,      \* the media read in the SDP, as sorted by findStreams
          tracks,   \* per medium set up, the server's: its channel, and frames sent
          chan,     \* videoIdx and audioIdx, those that are set
          depac,    \* videoDemuxer and audioDemuxer: the medium each was made for
          packets,  \* packets read and not returned yet, numbered, and nils (0)
          frame,    \* the header in hand
          quiet,    \* ticks since the last packet, lastPktRcv
          due,      \* the ticker has fired
          got,      \* the frames the depacketizers were given, each with its medium
          upset,    \* the server has sent something that is not a stream
          fate      \* how many packets were made, are returned or released, and nils

demuxVars == <<pc, sdp, tracks, chan, depac, packets, frame, quiet, due, got, upset, fate>>

Nil == 0
Real(pkts) == {i \in DOMAIN pkts : pkts[i] # Nil}

Reading == {"header", "payload", "depacketize", "ping"}
\* A medium is known by its place in the SDP.  Where its codec is not supported
\* no depacketizer is made for it.
Supported(m) == \/ m.av = "video" /\ m.type \in IsVideo
                \/ m.av = "audio" /\ m.type \in IsAudio
NoFrame == [ch |-> -1]
Payload(m, n) == [k |-> "payload", m |-> m, n |-> n]
Junk == [k |-> "junk"]

DemuxInit ==
    /\ pc = "new" /\ sdp = <<>> /\ tracks = <<>>
    /\ chan = [av \in {} |-> 0] /\ depac = [av \in {} |-> 0]
    /\ packets = <<>> /\ frame = NoFrame /\ quiet = 0 /\ due = FALSE
    /\ got = [av \in {"video", "audio"} |-> <<>>] /\ upset = FALSE
    /\ fate = [made |-> 0, gone |-> 0, nils |-> 0]

(* -------------------------------- Demux ------------------------------------ *)

Demux ==
    /\ pc = "new"
    /\ \/ EstablishFails /\ pc' = "failed"
       \/ Establish /\ pc' = "demux"
    /\ UNCHANGED <<seq, auth, plan, asked, wire, sdp, tracks, chan, depac, packets, frame, quiet, due,
                   got, upset, fate>>

DemuxFailed ==
    /\ pc = "demux"
    /\ \/ call.phase = "failed"
       \/ call.phase = "odd" /\ call.method \in {"DESCRIBE", "SETUP"}
    /\ pc' = "failed"
    /\ UNCHANGED <<clientVars, sdp, tracks, chan, depac, packets, frame, quiet, due, got, upset, fate>>

\* OPTIONS is answered: describe.
Describe ==
    /\ pc = "demux" /\ call.method = "OPTIONS" /\ call.phase \in {"ok", "odd"}
    /\ Continue(<<Ask("DESCRIBE", 0)>>)
    /\ UNCHANGED demuxVars

\* The body of the answer is read and parsed; the media are sorted, video first
\* (in their order otherwise, as sort.Slice leaves up to twelve), and those that
\* are not left out are set up on channels 0, 2, 4.  The server, which is external,
\* describes its media as Generate does, in its own order.
Lines(offer) == FlattenSeq([i \in DOMAIN offer |-> MarshalMedia(offer[i])])
Sorted(media) == FlattenSeq([p \in 1..3 |-> SelectSeq(media, LAMBDA m : AVPriority(m.av) = p - 1)])
Kept(media) == SelectSeq(Sorted(AllDescribed(media)), LAMBDA m : m.av \notin Skipped)
Setups(media) == [i \in DOMAIN media |-> Ask("SETUP", 2 * (i - 1))]

ReadSdp ==
    /\ pc = "demux" /\ call.method = "DESCRIBE" /\ call.phase = "ok"
    /\ wire # <<>> /\ Head(wire).k = "sdp"
    /\ wire' = Tail(wire)
    /\ \E offer \in Offers :
         /\ sdp' = Kept(Parse(Lines(offer)).medias)
         /\ LET next == Append(Setups(sdp'), Ask("PLAY", 0))
            IN  call' = Head(next) /\ plan' = Tail(next)
    /\ UNCHANGED <<conn, seq, auth, asked, pc, tracks, chan, depac, packets, frame, quiet, due,
                   got, upset, fate>>

\* Other bytes in the place of the body are parsed as an SDP without media, or
\* the body does not come in time.
ReadSdpFails ==
    /\ pc = "demux" /\ call.method = "DESCRIBE" /\ call.phase = "ok"
    /\ wire = <<>> \/ Head(wire).k # "sdp"
    /\ pc' = "failed"
    /\ UNCHANGED <<clientVars, sdp, tracks, chan, depac, packets, frame, quiet, due, got, upset, fate>>

\* A medium is set up: the channel the server chose for it is the one its kind of
\* medium is read from, whatever its codec; a depacketizer is made only for a codec
\* that is supported, in the place of an earlier one, or refuses its description.
With(f, x, y) == [z \in DOMAIN f \union {x} |-> IF z = x THEN y ELSE f[z]]
SetUp ==
    /\ pc = "demux" /\ call.method = "SETUP" /\ call.phase = "ok"
    /\ LET i == Len(sdp) - Len(plan) + 1
           m == sdp[i]
       IN  /\ tracks' = Append(tracks, [ch |-> call.ch, sent |-> 0])
           /\ chan' = With(chan, m.av, call.ch)
           /\ depac' = IF Supported(m) THEN With(depac, m.av, i) ELSE depac
           /\ \/ Continue(plan) /\ UNCHANGED pc
              \/ Supported(m) /\ pc' = "failed" /\ UNCHANGED clientVars
    /\ UNCHANGED <<sdp, packets, frame, quiet, due, got, upset, fate>>

\* The stream plays; Demux may have taken any time.
Playing ==
    /\ pc = "demux" /\ call.method = "PLAY" /\ call.phase \in {"ok", "odd"}
    /\ call' = NoCall /\ pc' = "idle"
    /\ quiet' \in 0..QuietLimit /\ due' \in BOOLEAN
    /\ UNCHANGED <<conn, seq, auth, plan, asked, wire, sdp, tracks, chan, depac, packets, frame,
                   got, upset, fate>>

(* ------------------------------ ReadPacket --------------------------------- *)

ExpiredNever == FALSE
Expired == quiet >= QuietLimit

\* The first packet of the queue goes to the caller.
PopPacket ==
    IF packets = <<>> THEN UNCHANGED <<packets, fate>>
    ELSE /\ packets' = Tail(packets)
         /\ fate' = [fate EXCEPT !.gone = IF Head(packets) = Nil THEN @ ELSE @ + 1]

\* A packet that is queued is returned before anything is read.
ReadQueued ==
    /\ pc = "idle" /\ packets # <<>>
    /\ PopPacket
    /\ UNCHANGED <<clientVars, pc, sdp, tracks, chan, depac, frame, quiet, due, got, upset>>

ReadPacket ==
    /\ pc = "idle" /\ packets = <<>>
    /\ pc' = IF Expired THEN "failed" ELSE "header"
    /\ UNCHANGED <<clientVars, sdp, tracks, chan, depac, packets, frame, quiet, due, got, upset, fate>>

\* A read of the connection fails: its deadline passes or the peer is gone.
ReadFails ==
    /\ pc \in {"header", "payload"}
    /\ pc' = "failed"
    /\ UNCHANGED <<clientVars, sdp, tracks, chan, depac, packets, frame, quiet, due, got, upset, fate>>

\* The loop over first bytes gives up when no packet has come for too long.
ReadExpired ==
    /\ pc = "header" /\ Expired
    /\ pc' = "failed"
    /\ UNCHANGED <<clientVars, sdp, tracks, chan, depac, packets, frame, quiet, due, got, upset, fate>>

\* Bytes that begin neither a frame nor an answer are skipped one by one.
SkipJunk ==
    /\ pc = "header" /\ ~Expired /\ wire # <<>> /\ Head(wire).k \in {"junk", "payload", "sdp"}
    /\ wire' = Tail(wire)
    /\ UNCHANGED <<conn, seq, auth, call, plan, asked, demuxVars>>

\* Skipped bytes may hold a '$' or an 'R': what follows is taken for a frame of
\* any length on any channel, or for an answer that is cut short.
MisreadJunk ==
    /\ pc = "header" /\ ~Expired /\ wire # <<>> /\ Head(wire).k \in {"junk", "payload", "sdp"}
    /\ \E n \in 1..Len(wire) : wire' = SubSeq(wire, n + 1, Len(wire))
    /\ pc' \in {"idle", "depacketize"}
    /\ UNCHANGED <<conn, seq, auth, call, plan, asked, sdp, tracks, chan, depac, packets, frame, quiet, due,
                   got, upset, fate>>

\* processRTSPPacket: the answer to a ping is read to its end.  One that is too
\* long, or whose Content-Length is no number, is an error.
ReadAnswer ==
    /\ pc = "header" /\ ~Expired /\ wire # <<>> /\ Head(wire).k = "answer"
    /\ wire' = Tail(wire)
    /\ pc' \in {"ping", "failed"}
    /\ UNCHANGED <<conn, seq, auth, call, plan, asked, sdp, tracks, chan, depac, packets, frame, quiet, due,
                   got, upset, fate>>

ReadHeaderOfKnown ==
    /\ pc = "header" /\ ~Expired /\ wire # <<>> /\ Head(wire).k = "header"
    /\ wire' = Tail(wire)
    /\ pc' = IF Head(wire).short \/ (\A av \in DOMAIN depac : Head(wire).ch \notin {chan[av], chan[av] + 1}) THEN "idle" ELSE "payload"
    /\ frame' = IF pc' = "idle" THEN NoFrame ELSE [ch |-> Head(wire).ch]
    /\ UNCHANGED <<conn, seq, auth, call, plan, asked, sdp, tracks, chan, depac, packets, quiet, due,
                   got, upset, fate>>

\* The header of a frame.  The payload of one that is too short for an RTP header
\* is left on the wire.
ReadHeader ==
    /\ pc = "header" /\ ~Expired /\ wire # <<>> /\ Head(wire).k = "header"
    /\ wire' = Tail(wire)
    /\ pc' = IF Head(wire).short THEN "idle" ELSE "payload"
    /\ frame' = IF pc' = "idle" THEN NoFrame ELSE [ch |-> Head(wire).ch]
    /\ UNCHANGED <<conn, seq, auth, call, plan, asked, sdp, tracks, chan, depac, packets, quiet, due,
                   got, upset, fate>>

\* The kind of medium whose pair of channels the frame is on, video first.
On(av) == av \in DOMAIN chan /\ frame.ch \in {chan[av], chan[av] + 1}
Target == IF On("video") THEN "video" ELSE IF On("audio") THEN "audio" ELSE "none"

\* The payload: a frame nobody depacketizes is read and dropped, and then the
\* ping is not looked at either.
ReadPayload ==
    /\ pc = "payload" /\ wire # <<>>
    /\ wire' = Tail(wire)
    /\ frame' = NoFrame
    /\ IF Target \notin DOMAIN depac
       THEN pc' = "idle" /\ UNCHANGED got
       ELSE /\ pc' = "depacketize"
            /\ got' = [got EXCEPT ![Target] =
                         Append(@, IF Head(wire).k = "payload" THEN Head(wire) ELSE Junk)]
    /\ UNCHANGED <<conn, seq, auth, call, plan, asked, sdp, tracks, chan, depac, packets,
                   quiet, due, upset, fate>>

\* The depacketizer gives up to two packets and then io.EOF, or an error, which
\* leaves the packets before it in the queue.  A payload that completes no packet
\* gives a nil one, which is queued and counts as received; RTCP gives nothing.
Depacketize ==
    /\ pc = "depacketize"
    /\ \/ \E k \in 0..2 :
            /\ fate.made + fate.nils + k <= MaxMade
            /\ packets' = packets \o [i \in 1..k |-> fate.made + i]
            /\ fate' = [fate EXCEPT !.made = @ + k]
            /\ pc' \in {"ping", "failed"}
       \/ /\ fate.made + fate.nils < MaxMade
          /\ packets' = Append(packets, Nil)
          /\ fate' = [fate EXCEPT !.nils = @ + 1]
          /\ pc' = "ping"
    /\ quiet' = IF packets' # packets THEN 0 ELSE quiet
    /\ UNCHANGED <<clientVars, sdp, tracks, chan, depac, frame, due, got, upset>>

\* The end of ReadPacket: a ping when the ticker has fired, then the first packet.
\* A failing ping is an error, and the packets stay in the queue.
Return ==
    /\ pc = "ping" /\ ~due
    /\ pc' = "idle"
    /\ PopPacket
    /\ UNCHANGED <<clientVars, sdp, tracks, chan, depac, frame, quiet, due, got, upset>>

Ping ==
    /\ pc = "ping" /\ due
    /\ due' = FALSE
    /\ Fire("OPTIONS")
    /\ pc' = IF asked' = asked THEN "failed" ELSE "ping"
    /\ UNCHANGED <<conn, auth, call, plan, wire, sdp, tracks, chan, depac, packets, frame, quiet,
                   got, upset, fate>>

\* Close, after an error or between two calls: the queued packets are released.
\* A nil among them panics before anything is closed, and so does the TEARDOWN of
\* a client whose TLS handshake failed, after that.
CloseQueueLost == packets' = <<>> /\ UNCHANGED fate
CloseQueue ==
    /\ packets' = <<>>
    /\ fate' = [fate EXCEPT !.gone = @ + Cardinality(Real(packets))]
Close ==
    /\ pc \in {"new", "idle", "failed"}
    /\ IF Contains(packets, Nil)
       THEN pc' = "panicked" /\ UNCHANGED <<packets, fate, conn, seq, call, plan, asked, wire>>
       ELSE /\ pc' = IF conn = "dialled" THEN "panicked" ELSE "closed"
            /\ CloseQueue
            /\ CloseClient
    /\ UNCHANGED <<auth, sdp, tracks, chan, depac, frame, quiet, due, got, upset>>

(* ------------------------- The server and the clock ------------------------ *)

Serve == ServeOldest /\ UNCHANGED demuxVars

\* A frame of a medium that was set up, once PLAY has reached the server; one
\* that overtakes the answer to PLAY, or one too short, upsets the stream.  Every
\* other frame is RTCP, on the second channel of its medium.
PlayAsked == pc \in {"idle"} \union Reading
             \/ (call.method = "PLAY" /\ call.phase = "wait")
SendFrame ==
    /\ PlayAsked /\ conn = "up"
    /\ FoldLeft(LAMBDA n, track : n + track.sent, 0, tracks) < MaxFrames
    /\ \E i \in DOMAIN tracks, short \in BOOLEAN :
         /\ tracks' = [tracks EXCEPT ![i].sent = @ + 1]
         /\ wire' = wire \o <<[k |-> "header", ch |-> tracks[i].ch + (tracks[i].sent % 2),
                               short |-> short],
                              Payload(i, tracks[i].sent + 1)>>
         /\ upset' = (upset \/ short \/ call.method = "PLAY")
    /\ UNCHANGED <<conn, seq, auth, call, plan, asked, pc, sdp, chan, depac, packets, frame,
                   quiet, due, got, fate>>

\* Bytes that are neither a frame nor an answer, as often as the client reads.
SendJunk ==
    /\ (pc = "header" \/ call.phase = "wait") /\ conn = "up" /\ wire = <<>>
    /\ wire' = <<Junk>>
    /\ upset' = TRUE
    /\ UNCHANGED <<conn, seq, auth, call, plan, asked, pc, sdp, tracks, chan, depac, packets, frame, quiet,
                   due, got, fate>>

\* Time passes while something is read; the ticker fires now and then.
Tick ==
    /\ pc \in {"idle"} \union Reading /\ quiet < QuietLimit
    /\ quiet' = quiet + 1
    /\ due' \in {due, TRUE}
    /\ UNCHANGED <<clientVars, pc, sdp, tracks, chan, depac, packets, frame, got, upset, fate>>

ReadStep ==
    \/ ReadFails \/ ReadExpired \/ SkipJunk \/ MisreadJunk \/ ReadAnswer
    \/ ReadHeader \/ ReadPayload \/ Depacketize \/ Return \/ Ping

DemuxCalls == ClientStep /\ UNCHANGED demuxVars

DemuxNext ==
    \/ Demux \/ DemuxFailed \/ Describe \/ ReadSdp \/ ReadSdpFails \/ SetUp \/ Playing
    \/ DemuxCalls \/ ReadQueued \/ ReadPacket \/ ReadStep \/ Close
    \/ Serve \/ SendFrame \/ SendJunk \/ Tick

DemuxSpec == ClientInit /\ DemuxInit /\ [][DemuxNext]_<<clientVars, demuxVars>>

(* ------------------------------ Properties --------------------------------- *)

\* The media set up are those the server described, each with its own attributes,
\* whatever else the description holds.
MediaDescribed ==
    sdp # <<>> => \E offer \in Offers :
                    sdp = Kept(SelectSeq(offer, LAMBDA m : m.av \in {"audio", "video"}))

\* While the server sends only a stream, a depacketizer is given every frame the
\* client has passed of the medium its kind is read from, the last one set up, in
\* order and no other: frames nobody depacketizes, answers to pings, frames of the
\* other kind and RTCP in between do not put ReadPacket out of step (demuxer.go:
\* 251-327).  Where the codec of that medium is supported, it is the depacketizer's.
LastOf(av) == Max({i \in DOMAIN tracks : sdp[i].av = av})
OnWire(m) == SelectSeq(wire, LAMBDA x : x.k = "payload" /\ x.m = m)
FramesInOrder ==
  /\ MediaDescribed
  /\ \/ upset \/ pc \in {"closed", "panicked"}
     \/ \A av \in DOMAIN depac :
          LET m == LastOf(av)
          IN  /\ got[av] \o OnWire(m) = [n \in 1..tracks[m].sent |-> Payload(m, n)]
              /\ Supported(sdp[m]) => depac[av] = m

\* Known not to hold: where a medium whose codec is not supported comes after one
\* of its kind whose codec is, the depacketizer is given that one's frames and none
\* of its own, as the channel is noted before the codec is looked at (demuxer.go:
\* 160-162, 188-190).
OwnFramesOnly ==
    upset \/ \A av \in DOMAIN depac : \A i \in DOMAIN got[av] : got[av][i].m = depac[av]

\* Every packet a depacketizer made is queued, or was returned, or was released
\* by Close, once; also when an error comes after it (demuxer.go:301-325, 390-396).
PacketsOwnedOnce ==
    /\ fate.made = fate.gone + Cardinality(Real(packets))
    /\ pc = "closed" => packets = <<>>

\* Close closes the connection (the comment of Close, client.go:464).  It does not
\* hold after a failing TLS handshake, nor with a nil packet in the queue.
CloseClosesConnection == pc = "panicked" => conn \in {"none", "closed"}

\* A call of ReadPacket comes back, whatever the server sends or does not send:
\* bytes that never make a packet do not keep it for longer than the limit.
ReadReturns == (pc \in Reading) ~> (pc \notin Reading)
===============================================================================
