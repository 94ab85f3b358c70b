---------------------------------- MODULE SDP ----------------------------------
(* utils/sdp, which writes and reads descriptions of streams, and the part of   *)
(* format/rtsp/muxer.go that describes the streams it publishes.  A description *)
(* is a sequence of lines, a line a record of what is between its separators.   *)
EXTENDS Integers, Sequences, SequencesExt

\* Texts (a control path, a parameter set in base64) that have a number between
\* their first two slashes, with that number.
CONSTANT Slashed

IsVideo == {"h264", "h265", "mjpeg"}
G711    == {"pcmu", "pcma"}
IsAudio == {"aac", "opus", "pcm"} \cup G711

NoMedia == [av |-> "", type |-> "none", pt |-> 0, scale |-> 0, control |-> "", channels |-> 0,
            sets |-> <<>>, vps |-> "", sps |-> "", pps |-> "", config |-> "",
            sizeLength |-> 0, indexLength |-> 0, fps |-> 0, width |-> 0, height |-> 0]

(* ------------------------- The streams to publish -------------------------- *)

\* Codec parameters, of any codec.
NoPar == [codec |-> "none", vps |-> "", sps |-> "", pps |-> "", config |-> "",
          width |-> 0, height |-> 0, fps |-> 0, channels |-> 0, rate |-> 0]

\* What may be described, and what of it goes into the description.
Describable(p) ==
    CASE p.codec = "h264" -> "" \notin {p.sps, p.pps}
      [] p.codec = "h265" -> "" \notin {p.vps, p.sps, p.pps}
      [] p.codec = "aac"  -> p.config # ""
      [] OTHER -> p.codec \in IsVideo \cup IsAudio

VideoCodecToSDPMedia(p) ==
    LET m == [NoMedia EXCEPT !.av = "video", !.type = p.codec, !.pt = 96, !.scale = 90000,
                             !.width = p.width, !.height = p.height, !.fps = p.fps]
    IN  CASE p.codec = "h264" -> [m EXCEPT !.sets = <<p.sps, p.pps>>]
          [] p.codec = "h265" -> [m EXCEPT !.pt = 98, !.vps = p.vps, !.sps = p.sps, !.pps = p.pps]
          [] OTHER -> m

AudioCodecToSDPMedia(p) ==
    LET m == [NoMedia EXCEPT !.av = "audio", !.type = p.codec, !.pt = 96, !.scale = p.rate,
                             !.channels = p.channels]
    IN  CASE p.codec = "aac"  -> [m EXCEPT !.config = p.config, !.sizeLength = 13, !.indexLength = 3]
          [] p.codec = "opus" -> [m EXCEPT !.scale = 48000]
          [] p.codec = "pcmu" -> [m EXCEPT !.pt = 0]
          [] p.codec = "pcma" -> [m EXCEPT !.pt = 8]
          [] OTHER -> m

\* The media of a pair of streams, video first; pars has those that are not nil.
TrackID == <<"trackID=0", "trackID=1">>
CodecParamsToSDPMedias(pars) ==
    LET medias == [i \in DOMAIN pars |-> IF pars[i].codec \in IsVideo THEN VideoCodecToSDPMedia(pars[i])
                                                                  ELSE AudioCodecToSDPMedia(pars[i])]
    IN  [i \in DOMAIN pars |-> [medias[i] EXCEPT !.control = TrackID[i]]]

(* -------------------------------- Generate --------------------------------- *)

Or(v, default) == IF v = 0 THEN default ELSE v

DefaultAVType(type)      == IF type \in IsAudio THEN "audio" ELSE "video"
DefaultPayloadType(type) == CASE type = "pcmu" -> 0 [] type = "pcma" -> 8 [] OTHER -> 96
DefaultTimeScale(type)   == CASE type \in {"opus", "aac"} -> 48000
                              [] type \in {"pcm"} \cup G711 -> 8000
                              [] OTHER -> 90000
DefaultChannels(type)    == IF type \in {"opus", "aac", "pcm"} THEN 2 ELSE 1

Encoding == [aac |-> "MPEG4-GENERIC", opus |-> "OPUS", pcm |-> "L16", pcma |-> "PCMA",
             pcmu |-> "PCMU", h264 |-> "H264", h265 |-> "H265", mjpeg |-> "JPEG"]

\* The parameters of fmtp, between semicolons; none, no line.
FmtpLine(m) ==
    LET par(key, val) == [key |-> key, val |-> val]
        given == m.sps # "" \/ m.pps # "" \/ Len(m.sets) < 2
        sps   == IF given THEN m.sps ELSE m.sets[1]
        pps   == IF given THEN m.pps ELSE m.sets[2]
    IN  CASE m.type = "h264" /\ "" \notin {sps, pps} ->
                <<par("sprop-parameter-sets", <<sps, pps>>), par("packetization-mode", "1")>>
          [] m.type = "h265" /\ "" \notin {m.vps, m.sps, m.pps} ->
                <<par("sprop-vps", m.vps), par("sprop-sps", m.sps), par("sprop-pps", m.pps)>>
          [] m.type = "aac" /\ m.config # "" ->
                <<par("config", m.config), par("sizelength", Or(m.sizeLength, 13)),
                  par("indexlength", Or(m.indexLength, 3))>>
          [] OTHER -> <<>>

Attribute(key, val) == [k |-> "a", key |-> key, val |-> val]
When(cond, line) == IF cond THEN <<line>> ELSE <<>>

MarshalMedia(m) ==
    LET scale    == Or(m.scale, DefaultTimeScale(m.type))
        channels == Or(m.channels, DefaultChannels(m.type))
    IN  <<[k |-> "m", av |-> IF m.av = "" THEN DefaultAVType(m.type) ELSE m.av,
           pt |-> Or(m.pt, DefaultPayloadType(m.type))]>>
        \o When(m.type \in DOMAIN Encoding,
                Attribute("rtpmap", [enc |-> Encoding[m.type],
                                     nums |-> IF m.type \in IsAudio THEN <<scale, channels>>
                                                                  ELSE <<scale>>]))
        \o When(FmtpLine(m) # <<>>, Attribute("fmtp", FmtpLine(m)))
        \o When(m.fps > 0, Attribute("x-framerate", m.fps))
        \o When(m.width > 0 /\ m.height > 0, Attribute("x-dimensions", <<m.width, m.height>>))
        \o When(m.control # "", Attribute("control", m.control))

\* The lines of the session are not read back, but for the URI.
AVPriority(av) == CASE av = "video" -> 0 [] av = "audio" -> 1 [] OTHER -> 2
Generate(uri, medias) ==
    LET before(a, b) == \/ AVPriority(a.av) < AVPriority(b.av)
                        \/ AVPriority(a.av) = AVPriority(b.av) /\ a.pt < b.pt
        sorted == SortSeq(medias, before)
    IN  When(uri # "", [k |-> "u", val |-> uri]) \o <<Attribute("control", "*")>>
        \o FlattenSeq([i \in DOMAIN sorted |-> MarshalMedia(sorted[i])])

(* ---------------------------------- Parse ---------------------------------- *)

\* Only audio and video are media; their payload type may already be a codec.
ParseMediaDescription(line) ==
    [NoMedia EXCEPT !.av = line.av, !.pt = line.pt,
                    !.type = CASE line.pt = 0 -> "pcmu" [] line.pt = 8 -> "pcma" [] OTHER -> "none"]

CodecNamed == [n \in {Encoding[type] : type \in DOMAIN Encoding} \cup {"HEVC", "MJPEG"} |->
                 CASE n = "HEVC" -> "h265" [] n = "MJPEG" -> "mjpeg"
                   [] OTHER -> CHOOSE type \in DOMAIN Encoding : Encoding[type] = n]
ParseCodecType(m, enc, nums) ==
    LET type == IF enc \in DOMAIN CodecNamed THEN CodecNamed[enc] ELSE m.type
        known == enc \in DOMAIN CodecNamed
    IN  [m EXCEPT !.type = type,
                  !.channels = CASE known /\ type = "opus" /\ Len(nums) > 1 -> nums[2]
                                 [] known /\ type \in G711 -> 1
                                 [] OTHER -> @,
                  !.scale = IF nums # <<>> THEN nums[1] ELSE @]

ParseAttributeKeyValue(m, par) ==
    CASE par.key = "config"      -> [m EXCEPT !.config = par.val]
      [] par.key = "sizelength"  -> [m EXCEPT !.sizeLength = par.val]
      [] par.key = "indexlength" -> [m EXCEPT !.indexLength = par.val]
      [] par.key = "sprop-vps"   -> [m EXCEPT !.vps = par.val]
      [] par.key = "sprop-sps"   -> [m EXCEPT !.sps = par.val]
      [] par.key = "sprop-pps"   -> [m EXCEPT !.pps = par.val]
      [] par.key = "sprop-parameter-sets" -> [m EXCEPT !.sets = @ \o par.val]
      [] OTHER -> m

\* Any field with a slash is taken for a codec with its rate: also a control path,
\* or base64.
Texts(line) ==
    CASE line.key = "control" -> <<line.val>>
      [] line.key = "fmtp" -> FlattenSeq([i \in DOMAIN line.val |->
            CASE line.val[i].key = "sprop-parameter-sets" -> line.val[i].val
              [] line.val[i].key \in {"sprop-vps", "sprop-sps", "sprop-pps"} -> <<line.val[i].val>>
              [] OTHER -> <<>>])
      [] OTHER -> <<>>
SlashedIn(line) == SelectSeq(Texts(line), LAMBDA text : text \in DOMAIN Slashed)

\* Parameters count when there are at least two.
ParseAttribute(m, line) ==
    LET named ==
          CASE line.key = "control"      -> [m EXCEPT !.control = line.val]
            [] line.key = "x-framerate"  -> [m EXCEPT !.fps = line.val]
            [] line.key = "x-dimensions" -> [m EXCEPT !.width = line.val[1], !.height = line.val[2]]
            [] line.key = "rtpmap"       -> ParseCodecType(m, line.val.enc, line.val.nums)
            [] line.key = "fmtp" /\ Len(line.val) > 1 -> FoldLeft(ParseAttributeKeyValue, m, line.val)
            [] OTHER -> m
    IN  IF SlashedIn(line) = <<>> THEN named
        ELSE ParseCodecType(named, "", <<Slashed[SlashedIn(line)[1]]>>)

\* Attributes belong to the medium before them; those of other media, and of the
\* session, to none.
ParseLine(acc, line) ==
    CASE line.k = "m" /\ line.av \in {"audio", "video"} ->
            [acc EXCEPT !.medias = Append(@, ParseMediaDescription(line)), !.open = TRUE]
      [] line.k = "m" -> [acc EXCEPT !.open = FALSE]
      [] line.k = "u" -> [acc EXCEPT !.uri = line.val]
      [] line.k = "a" /\ acc.open ->
            [acc EXCEPT !.medias[Len(acc.medias)] = ParseAttribute(@, line)]
      [] OTHER -> acc
Parse(lines) == FoldLeft(ParseLine, [uri |-> "", medias |-> <<>>, open |-> FALSE], lines)

(* ------------------------------- Properties -------------------------------- *)

\* What a depacketizer needs of a medium.
Described(m) ==
    [av |-> m.av, type |-> m.type, pt |-> m.pt, scale |-> m.scale, control |-> m.control,
     fps |-> m.fps, size |-> <<m.width, m.height>>,
     codec |-> CASE m.type = "h264" -> <<SubSeq(m.sets, 1, 2)>>
                 [] m.type = "h265" -> <<m.vps, m.sps, m.pps>>
                 [] m.type = "aac"  -> <<m.config, m.sizeLength, m.indexLength>>
                 [] m.type \in {"opus"} \cup G711 -> <<m.channels>>
                 [] OTHER -> <<>>]
AllDescribed(medias) == [i \in DOMAIN medias |-> Described(medias[i])]

\* A description is "roundtrippable by Parse()" (generator.go:12): what is read of
\* the media is what they were described as, in the same order.
RoundTrips(uri, medias) ==
    LET back == Parse(Generate(uri, medias))
    IN  back.uri = uri /\ AllDescribed(back.medias) = AllDescribed(medias)

\* Known not to hold, for linear PCM: its channels are written and not read.
ChannelsRoundTrip(medias) ==
    \A i \in DOMAIN medias :
       medias[i].type # "aac" => Parse(Generate("", medias)).medias[i].channels = medias[i].channels
===============================================================================
