-------------------------------- MODULE MCRTSP --------------------------------
(* The client under its two users: in one behaviour a demuxer plays a stream,  *)
(* in another the writer publishes one.                                        *)
EXTENDS RTSPDemuxer, RTSPWriter

CONSTANT Roles

VARIABLE role

MCVars == <<role, clientVars, demuxVars, writerVars>>

\* Codec parameters; one set cannot be described, one has no RTP muxer.
H264  == [NoPar EXCEPT !.codec = "h264", !.sps = "sps", !.pps = "pps", !.width = 4, !.height = 3]
H265  == [NoPar EXCEPT !.codec = "h265", !.vps = "vps", !.sps = "sps", !.pps = "pps", !.fps = 25]
MJPEG == [NoPar EXCEPT !.codec = "mjpeg", !.width = 4, !.height = 3]
AAC   == [NoPar EXCEPT !.codec = "aac", !.config = "config", !.rate = 44100, !.channels = 2]
PCMA  == [NoPar EXCEPT !.codec = "pcma", !.rate = 8000, !.channels = 1]
MCStreams == [h264 |-> H264, h265 |-> H265, bare |-> [H264 EXCEPT !.pps = ""], mjpeg |-> MJPEG]

\* Audio before video, a codec that is not known, alone or after one of its kind
\* that is, and media that are none.
Unknown == [NoMedia EXCEPT !.av = "audio", !.pt = 97, !.control = "unknown"]
Meta    == [NoMedia EXCEPT !.av = "application", !.type = "aac", !.pt = 98, !.control = "meta"]
Reversed(pars) == Reverse(CodecParamsToSDPMedias(pars))
MCOffers == {Reversed(<<H264, AAC>>), Reversed(<<AAC>>) \o <<Unknown>>, <<Meta, Unknown>>}
\* Of the texts in these, none has a number between slashes.
MCSlashed == [text \in {} |-> 0]

MCInit == role \in Roles /\ ClientInit /\ DemuxInit /\ WriterInit /\ srcURL = "a"

Demuxer(A) == role = "demuxer" /\ A /\ UNCHANGED <<role, writerVars>>
Writer(A)  == role = "writer" /\ A /\ UNCHANGED <<role, demuxVars>>

MCNext == Demuxer(DemuxNext) \/ Writer(WriterNext)

\* The fairness of the demuxer: its user reads on, and its timers fire.
MCSpec == MCInit /\ [][MCNext]_MCVars
          /\ WF_MCVars(Demuxer(ReadStep)) /\ WF_MCVars(Demuxer(Tick))

\* WriterSound of RTSPWriter, in the behaviours of the writer.
PublisherSound == role = "writer" => WriterSound
===============================================================================
