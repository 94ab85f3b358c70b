-------------------------------- MODULE Coders --------------------------------
(* decoder/video_decoder.go, decoder/audio_decoder.go, encoder/audio_encoder.go: *)
(* one goroutine, under the fail-safe manager, that takes packets from a channel, *)
(* lends each to an inner codec that may fail, and sends what that makes into     *)
(* another channel, whose consumer may stall.  The inner codecs, around C         *)
(* libraries, are what they are initialised with and what they are fed.           *)
(* Only this goroutine looks at its fields, so a Step is one action up to its     *)
(* send.                                                                          *)
EXTENDS Integers, Sequences, FiniteSets, SequencesExt

CONSTANTS Coders,       \* "video", "audio", "encoder"
          CodecPars,    \* codec parameters; those in Unsupported have no inner codec
          Unsupported,
          InSize, OutSize,  \* capacities of the channels
          SourceGaps,   \* time between packets of the encoder's source, which the
                        \* reader keeps rising
          PacketDur, FrameDur, \* duration of a packet and of an encoded frame
          MaxDrift,     \* maxEncoderTSDrift
          Stamps,       \* whether inner encoders give frames the source's time
          MaxSent, MaxRates  \* bounds: packets sent, changes of the frame rate

\* The frames of one packet end before the clock could be too far ahead of it; the
\* source counts samples too, so its packets are at least their duration apart.
ASSUME CodersAssumption ==
    /\ Coders \subseteq {"video", "audio", "encoder"} /\ Stamps \subseteq BOOLEAN
    /\ FrameDur \in Nat \ {0} /\ PacketDur \in Nat /\ MaxDrift \in Nat
    /\ PacketDur <= MaxDrift
    /\ \A g \in SourceGaps : g \in Nat /\ g >= PacketDur

VARIABLES coder, stamped,
          inp, outp,    \* the channels: numbers of packets, and of outputs
          at,           \* where the goroutine is
          told,      \* stopChan is closed
          hand,         \* the packet Step is about, 0 if none
          d,            \* the fields of the coder, and its inner codec
          batch,        \* outputs that are still to be sent
          sent,         \* packets sent by the user: par, key, ts, releases
          made,         \* outputs: packet, the inner codec that made it, ts, releases
          got,          \* the outputs the consumer has received
          rates,        \* changes of the frame rate
          early         \* history: the packets sent before Release

coderVars == <<coder, stamped, inp, outp, at, told, hand, d, batch, sent, made, got, rates, early>>

NoPar == "none"
NoInner == [par |-> NoPar, ok |-> FALSE, fed |-> <<>>]

\* An encoder is made with an inner encoder that is not initialised.
CoderInit ==
    /\ coder \in Coders /\ stamped \in Stamps
    /\ inp = <<>> /\ outp = <<>> /\ at = "select" /\ told = FALSE /\ hand = 0
    /\ d = [par |-> NoPar, inner |-> NoInner,
            open |-> IF coder = "encoder" THEN 1 ELSE 0,  \* inner codecs not closed yet
            running |-> FALSE, hasKey |-> FALSE,  \* of the video decoder
            on |-> TRUE,                          \* targetFPS # 0
            ts |-> 0, samples |-> 0]              \* of the encoder
    /\ batch = <<>> /\ sent = <<>> /\ made = <<>> /\ got = {} /\ rates = 0 /\ early = {}

(* ------------------------- Inner codecs of a coder ------------------------- *)

\* A codec that is fed remembers what; one that is closed forgets.
Made(s, ok) == [s EXCEPT !.inner = [par |-> s.par, ok |-> ok, fed |-> <<>>], !.open = @ + 1]
Closed(s)   == [s EXCEPT !.inner = NoInner, !.open = @ - 1]

StopDecoder(s) ==
    IF s.inner = NoInner THEN [s EXCEPT !.running = FALSE]
    ELSE [Closed(s) EXCEPT !.running = FALSE]

\* startDecoder; it has succeeded when the decoder runs.  Variant: the new decoder
\* takes the keyframe that the old one was fed for its own.
NoDecoder(s) == s.par \in Unsupported \union {NoPar}
StartDecoderKeyed(s, ok) ==
    IF NoDecoder(s) THEN s ELSE [Made(s, ok) EXCEPT !.running = ok]
StartDecoder(s, ok) ==
    IF NoDecoder(s) THEN s ELSE [Made(s, ok) EXCEPT !.running = ok, !.hasKey = @ /\ ~ok]

\* A start that fails is followed by a stop.
Started(s, ok) ==
    LET new == StartDecoder(s, ok) IN IF new.running THEN new ELSE StopDecoder(new)
Restarted(s, ok) == Started(StopDecoder(s), ok)

(* ---------------------------------- Step ----------------------------------- *)

GiveBack(i) == sent' = [sent EXCEPT ![i].releases = @ + 1]
Pkt == sent[Head(inp)]
Finished == at' = "select" /\ hand' = 0 /\ GiveBack(Head(inp)) /\ UNCHANGED <<batch, made>>

\* Outputs of the packet at hand, to be sent; it is released at the end of Step.
Offer(s, times) ==
    /\ made' = made \o [i \in DOMAIN times |->
                          [pkt |-> Head(inp), by |-> s.inner, ts |-> times[i], releases |-> 0]]
    /\ batch' = [i \in DOMAIN times |-> Len(made) + i]
    /\ at' = "send" /\ hand' = Head(inp) /\ UNCHANGED sent

\* processPacket, and the restart that Step adds when it fails.  Feed and Decode
\* take the packet; a frame that comes too soon for the rate is not asked for.
VideoPacket ==
    \E ok, again \in BOOLEAN, result \in {"error", "none", "frame"} :
       LET s   == IF Pkt.par = d.par THEN d ELSE Restarted([d EXCEPT !.par = Pkt.par], ok)
           fed == [s EXCEPT !.hasKey = TRUE, !.inner.fed = Append(@, Head(inp))]
       IN  CASE ~d.on -> d' = d /\ Finished
             [] d.on /\ ~s.running -> d' = Restarted(s, again) /\ Finished
             [] d.on /\ s.running /\ ~s.hasKey /\ ~Pkt.key -> d' = s /\ Finished
             [] OTHER -> CASE result = "error" -> d' = Restarted(fed, again) /\ Finished
                           [] result = "none"  -> d' = fed /\ Finished
                           [] result = "frame" -> d' = fed /\ Offer(fed, <<0>>)

\* New parameters are kept and then looked up; the inner decoder of the old ones is
\* not closed.  Without one the call panics, which the manager recovers.
AudioPacket ==
    \E ok \in BOOLEAN, result \in {"none", "frame"} :
       LET kept == [d EXCEPT !.par = Pkt.par]
           s    == IF Pkt.par = d.par \/ Pkt.par \in Unsupported THEN kept ELSE Made(kept, ok)
           fails == Pkt.par # d.par /\ (Pkt.par \in Unsupported \/ ~ok)
       IN  /\ d' = s
           /\ IF fails \/ s.inner = NoInner \/ result = "none" THEN Finished ELSE Offer(s, <<0>>)

\* The frames that the samples so far fill, on an even clock that is set to the
\* time of the source when they are too far apart.
Apart(a, b) == a - b > MaxDrift \/ b - a > MaxDrift
\* Variant: a plain count of frames.
ClockedNever(ts, src) == ts
Clocked(ts, src) == IF Apart(src, ts) THEN src ELSE ts
Times(n, ts, src) ==
    LET time[i \in 1..n] == Clocked(IF i = 1 THEN ts ELSE time[i - 1] + FrameDur, src) IN time

EncoderPacket ==
    \E ok, fails \in BOOLEAN :
       LET s     == IF Pkt.par = d.par THEN d
                    ELSE Made([Closed(d) EXCEPT !.par = Pkt.par, !.samples = 0], ok)
           full  == s.samples + PacketDur
           src   == IF stamped THEN Pkt.ts ELSE 0
           times == Times(full \div FrameDur, s.ts, src)
       IN  CASE Pkt.par \in Unsupported -> d' = d /\ Finished   \* no PCM packet
             [] Pkt.par \notin Unsupported /\ Pkt.par # d.par /\ ~ok -> d' = s /\ Finished
             [] OTHER ->
                  \/ fails /\ d' = s /\ Finished
                  \/ /\ ~fails
                     /\ d' = [s EXCEPT !.samples = full % FrameDur,
                                       !.ts = IF times = <<>> THEN @ ELSE Last(times) + FrameDur]
                     /\ IF times = <<>> THEN Finished ELSE Offer(s, times)

TakePacket ==
    /\ at = "select" /\ inp # <<>>
    /\ inp' = Tail(inp)
    /\ CASE coder = "video" -> VideoPacket
         [] coder = "audio" -> AudioPacket
         [] coder = "encoder" -> EncoderPacket
    /\ UNCHANGED <<coder, stamped, outp, told, got, rates, early>>

\* A new frame rate: zero stops the decoder and then gives back what waits.
TakeRate ==
    /\ coder = "video" /\ at = "select" /\ rates < MaxRates
    /\ rates' = rates + 1
    /\ \E ok \in BOOLEAN :
         IF d.on THEN d' = [StopDecoder(d) EXCEPT !.on = FALSE] /\ at' = "pause"
         ELSE d' = [Started(d, ok) EXCEPT !.on = TRUE] /\ at' = at
    /\ UNCHANGED <<coder, stamped, inp, outp, told, hand, batch, sent, made, got, early>>

PausePacket ==
    /\ at = "pause" /\ inp # <<>>
    /\ GiveBack(Head(inp)) /\ inp' = Tail(inp)
    /\ UNCHANGED <<coder, stamped, outp, at, told, hand, d, batch, made, got, rates, early>>
PauseOver ==
    /\ at = "pause" /\ inp = <<>> /\ ~told
    /\ at' = "select"
    /\ UNCHANGED <<coder, stamped, inp, outp, told, hand, d, batch, sent, made, got, rates, early>>

\* The selects see the stop channel: the loop ends.
SelectsStop ==
    /\ at \in {"select", "pause"} /\ told
    /\ at' = "release" /\ early' = DOMAIN sent
    /\ UNCHANGED <<coder, stamped, inp, outp, told, hand, d, batch, sent, made, got, rates>>

(* -------------------------------- Sending ---------------------------------- *)

SendOutput ==
    /\ at = "send" /\ Len(outp) < OutSize
    /\ outp' = Append(outp, Head(batch)) /\ batch' = Tail(batch)
    /\ IF Len(batch) > 1 THEN UNCHANGED <<at, hand, sent>>
       ELSE at' = "select" /\ hand' = 0 /\ GiveBack(hand)
    /\ UNCHANGED <<coder, stamped, inp, told, d, made, got, rates, early>>

\* Stopped with an output in hand: the audio decoder gives its slot back; to the
\* video decoder it is an error like another, so it restarts.
SendStopped ==
    /\ at = "send" /\ told
    /\ at' = "release" /\ early' = DOMAIN sent
    /\ hand' = 0 /\ batch' = <<>> /\ GiveBack(hand)
    /\ \E again \in BOOLEAN : d' = IF coder = "video" THEN Restarted(d, again) ELSE d
    /\ made' = IF coder = "audio" THEN [made EXCEPT ![Head(batch)].releases = @ + 1] ELSE made
    /\ UNCHANGED <<coder, stamped, inp, outp, told, got, rates>>

(* -------------------------------- Release ---------------------------------- *)

CloseInner ==
    /\ at = "release" /\ at' = "drain"
    /\ d' = CASE coder = "video" -> StopDecoder(d)
              [] coder = "audio" /\ d.inner = NoInner -> d
              [] OTHER -> Closed(d)
    /\ UNCHANGED <<coder, stamped, inp, outp, told, hand, batch, sent, made, got, rates, early>>

DrainInput ==
    /\ at = "drain"
    /\ IF inp = <<>> THEN at' = "empty" /\ UNCHANGED <<inp, sent>>
       ELSE inp' = Tail(inp) /\ GiveBack(Head(inp)) /\ UNCHANGED at
    /\ UNCHANGED <<coder, stamped, outp, told, hand, d, batch, made, got, rates, early>>

\* The input channel is closed; the encoder closes the other as it is.
CloseInput ==
    /\ at = "empty"
    /\ at' = IF coder = "encoder" THEN "closed" ELSE "drainout"
    /\ UNCHANGED <<coder, stamped, inp, outp, told, hand, d, batch, sent, made, got, rates, early>>

DrainOutput ==
    /\ at = "drainout"
    /\ IF outp = <<>> THEN at' = "closed" /\ UNCHANGED <<outp, made>>
       ELSE /\ outp' = Tail(outp) /\ UNCHANGED at
            /\ made' = [made EXCEPT ![Head(outp)].releases = @ + 1]
    /\ UNCHANGED <<coder, stamped, inp, told, hand, d, batch, sent, got, rates, early>>

(* --------------------------------- The user -------------------------------- *)

LastTime == IF sent = <<>> THEN 0 ELSE Last(sent).ts
Send ==
    /\ at \notin {"drainout", "closed"} /\ Len(sent) < MaxSent /\ Len(inp) < InSize
    /\ \E par \in CodecPars, key \in BOOLEAN, gap \in SourceGaps :
         /\ coder # "video" => ~key
         /\ coder # "encoder" => gap = PacketDur
         /\ sent' = Append(sent, [par |-> par, key |-> key, ts |-> LastTime + gap, releases |-> 0])
    /\ inp' = Append(inp, Len(sent) + 1)
    /\ UNCHANGED <<coder, stamped, outp, at, told, hand, d, batch, made, got, rates, early>>

Receive ==
    /\ outp # <<>>
    /\ got' = got \union {Head(outp)} /\ outp' = Tail(outp)
    /\ UNCHANGED <<coder, stamped, inp, at, told, hand, d, batch, sent, made, rates, early>>

CloseCoder ==
    /\ ~told /\ told' = TRUE
    /\ UNCHANGED <<coder, stamped, inp, outp, at, hand, d, batch, sent, made, got, rates, early>>

CoderStep ==
    \/ TakePacket \/ TakeRate \/ PausePacket \/ PauseOver \/ SelectsStop
    \/ SendOutput \/ SendStopped
    \/ CloseInner \/ DrainInput \/ CloseInput \/ DrainOutput
CoderNext == CoderStep \/ Send \/ Receive \/ CloseCoder
CoderSpec == CoderInit /\ [][CoderNext]_coderVars

(* ------------------------------- Properties -------------------------------- *)

\* A frame is decoded by an inner decoder that was made for the parameters of its
\* packet and was fed, without a gap, every packet from a keyframe to this one,
\* whatever failed, was paused or changed before (video_decoder.go:99-134, 203-236).
FramesDecodable ==
    coder = "video" =>
       \A i \in DOMAIN made :
          LET by  == made[i].by
              fed == by.fed
          IN  /\ by.ok /\ by.par = sent[made[i].pkt].par
              /\ sent[Head(fed)].key /\ Last(fed) = made[i].pkt
              /\ \A j \in 1..Len(fed) - 1 : fed[j + 1] = fed[j] + 1

\* Every packet taken is released once, by the end those sent before Release too;
\* the slot of decoded audio has one owner until it is released once; and of the
\* inner video decoders and encoders none but the current one is open
\* (video_decoder.go:245-272, audio_decoder.go:86-164, audio_encoder.go:54-122).
Has(seq, x) == IF Contains(seq, x) THEN 1 ELSE 0
PacketOwners(i) == Has(inp, i) + (IF hand = i THEN 1 ELSE 0)
OutputOwners(i) == Has(outp, i) + Has(batch, i) + (IF i \in got THEN 1 ELSE 0)
InnerInUse == CASE coder = "video" -> d.inner # NoInner
                [] coder = "encoder" -> at \in {"select", "send", "release"}
CodersOwnOnce ==
    /\ \A i \in DOMAIN sent : PacketOwners(i) + sent[i].releases = 1
    /\ at = "closed" => \A i \in early : sent[i].releases = 1
    /\ coder = "audio" => \A i \in DOMAIN made : OutputOwners(i) + made[i].releases = 1
    /\ coder # "audio" => d.open = (IF InnerInUse THEN 1 ELSE 0)

\* Encoded frames follow the clock of their source and each other: never further
\* from it than maxEncoderTSDrift, and with times that rise, over gaps, errors
\* and new parameters (audio_encoder.go:79-94).  With Stamps = {FALSE}, which is
\* what the Opus and the A-law encoder do (opus.go:114, alaw.go:101), it does not
\* hold: whenever the clock has run for maxEncoderTSDrift it falls back to zero.
EncodedFollowSource ==
    coder = "encoder" =>
       \A i \in DOMAIN made :
          /\ ~Apart(made[i].ts, sent[made[i].pkt].ts)
          /\ i > 1 => made[i - 1].ts < made[i].ts

\* What the comment at video_decoder.go:243-244 says, no frame leaks: not so, the
\* one that waits in a full channel when Close comes is neither sent nor released.
FramesReleased ==
    coder = "video" => \A i \in DOMAIN made : OutputOwners(i) + made[i].releases = 1

\* Audio is decoded by the decoder of its codec.  Not so: parameters without a
\* decoder, or whose Init failed, are kept, and the next packet with them goes to
\* the decoder that is there (audio_decoder.go:73-84, 91-95).
DecodedByItsCodec ==
    coder = "audio" => \A i \in DOMAIN made :
       made[i].by.par = sent[made[i].pkt].par /\ made[i].by.ok
===============================================================================
