------------------------------- MODULE HLSWriter -------------------------------
(* writer/hls/hls.go: one muxer for each source that sends video, and a master *)
(* playlist of them.  The goroutine that runs Step owns the maps by URL; what  *)
(* requests read, the variants and the muxers by uid, is rebuilt under mu.     *)
(* Requests take mu only to look a muxer up, and wait in the muxer without it. *)
(* A muxer (HLSMuxer) is abstracted to whether it is open and has a playlist   *)
(* that can be played.                                                         *)
EXTENDS Integers, Sequences, FiniteSets, SequencesExt

CONSTANTS Urls,      \* sources
          VideoPars, \* codec parameters [id, res, ok]; ok = FALSE: no muxer takes them
          Requests,  \* goroutines that serve requests
          ChanSize,  \* room in the input channel
          MaxSent,   \* bound: packets sent
          MaxRemoved \* bound: sources removed

ASSUME VideoParsAssumption == VideoPars \subseteq [id : Nat \ {0}, res : Nat, ok : BOOLEAN]

VARIABLES step,     \* where Step is: "idle", "lock", "write", or after it "drain", "closed"
          hand,     \* the packet in hand
          inpPktCh,
          muxers,   \* every muxer made so far
          bySrc,    \* url -> [video, audio, mux, uid]: codPars, muxerURLs and muxerUIDs
          sorted,   \* sortedURLs
          variants, \* the master playlist, each variant at the place its url has in
                    \* sortedURLs; by its uids, muxerIDs
          uids,     \* uids given out
          req,      \* the requests
          fate,     \* packets sent; those of them not released; sent before Close
          removed

writerVars == <<step, hand, inpPktCh, bySrc, sorted, variants, uids, fate, removed>>
hlsVars == <<writerVars, muxers, req>>

NoPacket == [id |-> 0]
None == [id |-> 0, res |-> 0, ok |-> TRUE]
NewSource == [video |-> None, audio |-> None, mux |-> 0, uid |-> 0]
NoReq == [pc |-> "idle", op |-> "none", uid |-> 0, mux |-> 0, seen |-> {}]

WriterInit ==
    /\ step = "idle" /\ hand = NoPacket /\ inpPktCh = <<>> /\ muxers = <<>>
    /\ bySrc = [u \in {} |-> NewSource] /\ sorted = <<>> /\ variants = <<>> /\ uids = 0
    /\ req = [r \in Requests |-> NoReq]
    /\ fate = [sent |-> 0, live |-> {}, early |-> {}] /\ removed = 0

Release(pkt) == fate' = [fate EXCEPT !.live = @ \ {pkt.id}]

(* ---------------------------------- Step ----------------------------------- *)

\* checkCodPar, with what it finds under the URL.  New parameters are noted even
\* if no muxer can be made of them.
Noted(src, pkt) == IF pkt.video THEN [src EXCEPT !.video = pkt.par]
                                ELSE [src EXCEPT !.audio = pkt.par]
Source(u) == IF u \in DOMAIN bySrc THEN bySrc[u] ELSE NewSource
Set(u, src) == [x \in DOMAIN bySrc \union {u} |-> IF x = u THEN src ELSE bySrc[x]]
AddUrl(u) == sorted' = IF u \in DOMAIN bySrc THEN sorted ELSE Append(sorted, u)

SameParameters ==
    /\ step = "check" /\ Noted(Source(hand.url), hand) = Source(hand.url)
    /\ step' = "write"
    /\ UNCHANGED <<hand, inpPktCh, muxers, bySrc, sorted, variants, uids, fate, removed, req>>

\* There is no video yet: the manifest is made anew, without this source.
AudioOnly(src) ==
    /\ src.video = None
    /\ bySrc' = Set(hand.url, src) /\ step' = "lock"
    /\ UNCHANGED <<hand, muxers, uids, fate>>

\* UpdateCodecParameters: the playlist may lose what could be played.  It gets a
\* new uid.
UpdateMuxer(src) ==
    /\ src.video # None /\ src.mux # 0
    /\ uids' = uids + 1
    /\ bySrc' = Set(hand.url, [src EXCEPT !.uid = uids'])
    /\ \E playable \in {FALSE, muxers[src.mux].playable} :
         muxers' = [muxers EXCEPT ![src.mux].playable = playable]
    /\ step' = "lock"
    /\ UNCHANGED <<hand, fate>>

NewMuxer(src) ==
    /\ src.video # None /\ src.mux = 0
    /\ IF src.video.ok /\ src.audio.ok
       THEN /\ uids' = uids + 1
            /\ muxers' = Append(muxers, [url |-> hand.url, open |-> TRUE, playable |-> FALSE])
            /\ bySrc' = Set(hand.url, [src EXCEPT !.mux = Len(muxers'), !.uid = uids'])
            /\ step' = "lock"
            /\ UNCHANGED <<hand, fate>>
       ELSE /\ bySrc' = Set(hand.url, src)
            /\ step' = "idle" /\ hand' = NoPacket /\ Release(hand)
            /\ UNCHANGED <<muxers, uids>>

NewParameters ==
    /\ step = "check" /\ Noted(Source(hand.url), hand) # Source(hand.url)
    /\ AddUrl(hand.url)
    /\ LET src == Noted(Source(hand.url), hand)
       IN  AudioOnly(src) \/ UpdateMuxer(src) \/ NewMuxer(src)
    /\ UNCHANGED <<inpPktCh, variants, removed, req>>

TakePacket ==
    /\ step = "idle" /\ inpPktCh # <<>>
    /\ hand' = Head(inpPktCh) /\ inpPktCh' = Tail(inpPktCh)
    /\ step' = "check"
    /\ UNCHANGED <<muxers, bySrc, sorted, variants, uids, fate, removed, req>>

CheckCodPar == SameParameters \/ NewParameters

\* mux.WritePacket keeps a clone; the packet is released, with or without a muxer.
WritePacket ==
    /\ step = "write"
    /\ LET m == Source(hand.url).mux
       IN  muxers' = IF m = 0 THEN muxers
                     ELSE [muxers EXCEPT ![m].playable = @ \/ hand.video]
    /\ step' = "idle" /\ hand' = NoPacket /\ Release(hand)
    /\ UNCHANGED <<inpPktCh, bySrc, sorted, variants, uids, removed, req>>

\* removeSrc: the muxer is closed before the manifest forgets it.
RemoveSrc(u) ==
    /\ step = "idle" /\ removed < MaxRemoved
    /\ removed' = removed + 1
    /\ muxers' = IF Source(u).mux = 0 THEN muxers
                 ELSE [muxers EXCEPT ![Source(u).mux].open = FALSE]
    /\ bySrc' = [x \in DOMAIN bySrc \ {u} |-> bySrc[x]]
    /\ \/ \E i \in DOMAIN sorted : sorted[i] = u /\ sorted' = RemoveAt(sorted, i)
       \/ ~ Contains(sorted, u) /\ UNCHANGED sorted
    /\ step' = "lock"
    /\ UNCHANGED <<hand, inpPktCh, variants, uids, fate, req>>

\* slices.SortFunc, which does not keep the order of urls of one resolution.
Pixels(u) == bySrc[u].video.res
ByResolution(urls) ==
    {s \in {[i \in DOMAIN urls |-> urls[p[i]]] : p \in Bijection(DOMAIN urls, DOMAIN urls)} :
       \A i, j \in DOMAIN s : i < j => Pixels(s[i]) <= Pixels(s[j])}
WithMuxer(urls) == [i \in {j \in DOMAIN urls : bySrc[urls[j]].mux # 0} |->
                       [mux |-> bySrc[urls[i]].mux, uid |-> bySrc[urls[i]].uid]]

\* Variant: the list is not emptied, only written over.
RecalcKept ==
    \E urls \in ByResolution(sorted) :
       /\ sorted' = urls
       /\ variants' = WithMuxer(urls) @@ variants

\* recalcManifest, once no request holds mu: by resolution, those that have a muxer.
Locked(r) == req[r].pc \in {"lookup", "count", "list"}
Recalc ==
    \E urls \in ByResolution(sorted) :
       /\ sorted' = urls
       /\ variants' = WithMuxer(urls)
RecalcManifest ==
    /\ step = "lock" /\ \A r \in Requests : ~Locked(r)
    /\ Recalc
    /\ step' = IF hand = NoPacket THEN "idle" ELSE "write"
    /\ UNCHANGED <<hand, inpPktCh, muxers, bySrc, uids, fate, removed, req>>

(* --------------------------------- Close ----------------------------------- *)

\* Close, and Release: every muxer is closed, then the channel is drained and
\* closed.  The maps and the variants stay.
CloseMuxers ==
    /\ step = "idle"
    /\ step' = "drain"
    /\ fate' = [fate EXCEPT !.early = 1..fate.sent]
    /\ muxers' = [m \in DOMAIN muxers |->
                    IF \E u \in DOMAIN bySrc : bySrc[u].mux = m
                    THEN [muxers[m] EXCEPT !.open = FALSE] ELSE muxers[m]]
    /\ UNCHANGED <<hand, inpPktCh, bySrc, sorted, variants, uids, removed, req>>

\* Variant: the packets are taken and forgotten.
DrainForgets ==
    /\ step = "drain"
    /\ IF inpPktCh = <<>> THEN step' = "empty" /\ UNCHANGED inpPktCh
       ELSE inpPktCh' = Tail(inpPktCh) /\ UNCHANGED step
    /\ UNCHANGED <<hand, muxers, bySrc, sorted, variants, uids, fate, removed, req>>

Drain ==
    /\ step = "drain"
    /\ IF inpPktCh = <<>> THEN step' = "empty" /\ UNCHANGED <<inpPktCh, fate>>
       ELSE inpPktCh' = Tail(inpPktCh) /\ Release(Head(inpPktCh)) /\ UNCHANGED step
    /\ UNCHANGED <<hand, muxers, bySrc, sorted, variants, uids, removed, req>>

CloseChannel ==
    /\ step = "empty"
    /\ step' = "closed"
    /\ UNCHANGED <<hand, inpPktCh, muxers, bySrc, sorted, variants, uids, fate, removed, req>>

Send ==
    /\ step # "closed" /\ fate.sent < MaxSent /\ Len(inpPktCh) < ChanSize
    /\ \E u \in Urls, par \in VideoPars, video \in BOOLEAN :
         inpPktCh' = Append(inpPktCh, [id |-> fate.sent + 1, url |-> u, par |-> par, video |-> video])
    /\ fate' = [fate EXCEPT !.sent = @ + 1, !.live = @ \union {fate.sent + 1}]
    /\ UNCHANGED <<step, hand, muxers, bySrc, sorted, variants, uids, removed, req>>

(* -------------------------------- Requests --------------------------------- *)

\* An RLock waits behind a writer that waits.
RLock(r) ==
    /\ req[r].pc = "idle" /\ step # "lock"
    /\ \/ \E uid \in 1..uids : req' = [req EXCEPT ![r] = [NoReq EXCEPT !.pc = "lookup", !.op = "get", !.uid = uid]]
       \/ req' = [req EXCEPT ![r] = [NoReq EXCEPT !.pc = "count", !.op = "master"]]
    /\ UNCHANGED <<writerVars, muxers>>

Found(uid) == {variants[i].mux : i \in {j \in DOMAIN variants : variants[j].uid = uid}}

\* Variant: the muxer is used with the lock held, up to the end of the request.
LookupHolding(r) ==
    /\ req[r].pc = "lookup"
    /\ \A m \in Found(req[r].uid) : muxers[m].playable \/ ~muxers[m].open
    /\ req' = [req EXCEPT ![r] = NoReq]
    /\ UNCHANGED <<writerVars, muxers>>

\* lookupMuxer: the lock is given back with the muxer in hand.
Lookup(r) ==
    /\ req[r].pc = "lookup"
    /\ IF Found(req[r].uid) = {} THEN req' = [req EXCEPT ![r] = NoReq]
       ELSE \E m \in Found(req[r].uid) : req' = [req EXCEPT ![r].pc = "wait", ![r].mux = m]
    /\ UNCHANGED <<writerVars, muxers>>

\* The muxer answers when it has what is asked for, or is closed.
Answer(r) ==
    /\ req[r].pc = "wait"
    /\ muxers[req[r].mux].playable \/ ~muxers[req[r].mux].open
    /\ req' = [req EXCEPT ![r] = NoReq]
    /\ UNCHANGED <<writerVars, muxers>>

\* GetMasterPlaylist: count the playable variants, then list those or, if there
\* are none, all.
Playable == {i \in DOMAIN variants : muxers[variants[i].mux].playable}
Count(r) ==
    /\ req[r].pc = "count"
    /\ req' = [req EXCEPT ![r].pc = "list", ![r].seen = Playable]
    /\ UNCHANGED <<writerVars, muxers>>
List(r) ==
    /\ req[r].pc = "list"
    /\ req' = [req EXCEPT ![r] = NoReq]
    /\ UNCHANGED <<writerVars, muxers>>

StepAction ==
    \/ TakePacket \/ CheckCodPar \/ WritePacket \/ RecalcManifest
    \/ CloseMuxers \/ Drain \/ CloseChannel
ReleaseLock == \E r \in Requests : Lookup(r) \/ Count(r) \/ List(r)

WriterNext ==
    \/ StepAction \/ Send \/ ReleaseLock
    \/ \E u \in Urls : RemoveSrc(u)
    \/ \E r \in Requests : RLock(r) \/ Answer(r)

\* The goroutine of Step runs on, and a request with the lock in hand does.
WriterSpec == WriterInit /\ [][WriterNext]_hlsVars /\ WF_hlsVars(RecalcManifest) /\ WF_hlsVars(ReleaseLock)

(* ------------------------------- Properties -------------------------------- *)

\* Between two steps the master playlist lists, by resolution, exactly the open
\* muxers, each once and under the last uid of its source (hls.go:231-276): what
\* a request finds under a uid is never the muxer of another source or of one that
\* is gone, though removal, new parameters and failing muxers come in any order.
Res(v) == bySrc[muxers[v.mux].url].video.res
MasterListsOpenMuxers ==
    step \in {"idle", "check"} =>
       /\ {variants[i].mux : i \in DOMAIN variants} = {m \in DOMAIN muxers : muxers[m].open}
       /\ \A i \in DOMAIN variants :
            LET v == variants[i]
            IN bySrc[muxers[v.mux].url].mux = v.mux /\ bySrc[muxers[v.mux].url].uid = v.uid
       /\ \A i, j \in DOMAIN variants :
            (i < j => Res(variants[i]) <= Res(variants[j]))
            /\ (variants[i].mux = variants[j].mux => i = j)

\* Every packet sent before Close is released by the end, and none while it is
\* in the channel or in hand.
PacketsReleased ==
    /\ {inpPktCh[i].id : i \in DOMAIN inpPktCh} \union ({hand.id} \ {0}) = fate.live
    /\ step = "closed" => fate.early \cap fate.live = {}

\* The manifest is rebuilt, however long requests wait for their segments: the
\* comment of lookupMuxer (hls.go:364-371) says what would wedge it.
ManifestIsRebuilt == (step = "lock") ~> (step # "lock")

\* "an empty master is not a valid playlist either" (hls.go:329-330); seen at the
\* end of a request for it.
MasterNeverEmpty ==
    \A r \in Requests : req[r].pc = "list" /\ req[r].seen # {} => Playable # {}
===============================================================================
