------------------------------ MODULE HLSMuxer ------------------------------
(***************************************************************************)
(* format/hls: one live HLS playlist.  A single writer goroutine (the Step *)
(* loop of writer/hls) calls WritePacket, UpdateCodecParameters and        *)
(* finally Close; HTTP goroutines call GetIndexM3u8, GetSegment and        *)
(* GetFragment at any time, also after Close: they looked the muxer up     *)
(* before.  Writer actions are the stretches between two effects a reader  *)
(* can see: a closed channel, a new segment, a new fragment, the stored    *)
(* manifest, the broadcast.                                                *)
(*                                                                         *)
(* The playlist text is abstracted to what it lists.  Time is counted in   *)
(* units; the stream has a video track, as writer/hls sees to.             *)
(***************************************************************************)
EXTENDS Integers, Sequences, FiniteSets, SequencesExt, FiniteSetsExt

CONSTANTS
    Options,      \* option sets: [keyframeSplit, cap, keep, count]
    SegDuration,  \* segmentDuration
    FragDuration, \* fragmentDuration
    MaxTS,        \* maxTS, where the timeline starts anew
    PktDurations, \* durations of video packets
    Readers,      \* HTTP goroutines
    Parts,        \* the parts they ask for; -1: the segment is enough
    MaxPkts, MaxUpdates   \* bounds: packets written, codec changes

ASSUME DurationsAssumption ==
    /\ SegDuration \in Nat \ {0} /\ FragDuration \in Nat \ {0}
    /\ \A d \in PktDurations : d \in 1 .. SegDuration
\* NewHLSMuxer raises a cap that is set to the target duration.
ASSUME OptionsAssumption ==
    \A o \in Options : /\ o.keyframeSplit \in BOOLEAN /\ o.keep \in Int /\ o.count \in Nat
                       /\ o.cap \in Nat /\ (o.cap # 0 => o.cap >= SegDuration)

VARIABLES
    opt,            \* the options; cap = 0: no cap, keep = 0: evict by count
    segs,           \* every segment made so far, segment id at position id+1
    segIDs,         \* the ids in the playlist
    mediaSequence, discontinuitySequence,
    initVersion, initCache,   \* codec version; versions an init is kept for
    gateOpen,       \* with keyframeSplit: a keyframe has opened the stream
    capSplitSeen,   \* a segment was cut between keyframes
    ts,             \* timestamp of the next packet, less tsOffset
    dirty,          \* manifestDirty
    manifest,       \* the published playlist, or NoManifest
    broadcasts,     \* how often indexCh was closed and replaced
    closed,         \* Release was called
    wpc, job,       \* the writer: where it is, what it is writing
    rpc, rq,        \* the readers: where they are, what they ask
    pkts, updates   \* bounds

config == <<initVersion, initCache, gateOpen, capSplitSeen, ts>>
counts == <<mediaSequence, discontinuitySequence>>
reqs   == <<rpc, rq>>
bounds == <<pkts, updates>>
vars   == <<opt, segs, segIDs, counts, config, dirty, manifest, broadcasts, closed,
            wpc, job, reqs, bounds>>

NoManifest == [seq |-> 0, disc |-> 0, independent |-> FALSE, list |-> <<>>]
NoJob == [video |-> FALSE, key |-> FALSE, dur |-> 0, disc |-> FALSE]
NoReq == [kind |-> "none", seg |-> 0, part |-> -1, at |-> 0, ch |-> 0]

NewFragment == [dur |-> 0, done |-> FALSE]
NewSegment(disc, init) ==
    [dur |-> 0, frags |-> <<NewFragment>>, parts |-> 0, ended |-> FALSE,
     done |-> FALSE, held |-> 0, keyed |-> TRUE, disc |-> disc, init |-> init]

Seg(i) == segs[i + 1]
Ids    == 0 .. Len(segs) - 1
Cur    == Last(segIDs)      \* getCurSegment, which panics when segIDs is empty
CurFrag(s) == Last(s.frags)
Listed == Range(segIDs)
Set(i, s) == [segs EXCEPT ![i + 1] = s]
Durations(S) == MapThenSumSet(LAMBDA i : Seg(i).dur, S)

Init ==
    /\ opt \in Options
    /\ segs = <<NewSegment(FALSE, 0)>> /\ segIDs = <<0>>
    /\ mediaSequence = 0 /\ discontinuitySequence = 0
    /\ initVersion = 0 /\ initCache = {0}
    /\ gateOpen = FALSE /\ capSplitSeen = FALSE
    /\ ts = 0
    /\ dirty = TRUE /\ manifest = NoManifest /\ broadcasts = 0
    /\ closed = FALSE
    /\ wpc = "idle" /\ job = NoJob
    /\ rpc = [r \in Readers |-> "idle"] /\ rq = [r \in Readers |-> NoReq]
    /\ pkts = 0 /\ updates = 0

-----------------------------------------------------------------------------
(* Segment operations *)

\* closeSeg: an empty last fragment is closed but not listed as a part.
closeSeg(s) ==
    LET f == CurFrag(s)
        counted == ~ f.done /\ f.dur > 0
    IN [s EXCEPT !.frags[Len(s.frags)].done = TRUE,
                 !.dur = IF counted THEN @ + f.dur ELSE @,
                 !.parts = IF counted THEN @ + 1 ELSE @,
                 !.ended = TRUE, !.done = TRUE]

\* UpdateCodecParameters closes it in its own way: what the open fragment
\* holds is not counted, and a segment without a full fragment gets no entry.
forceClose(s) ==
    [s EXCEPT !.frags[Len(s.frags)] = IF @.done THEN @ ELSE [dur |-> 0, done |-> TRUE],
              !.ended = s.dur > 0, !.done = TRUE]

-----------------------------------------------------------------------------
(* The writer: WritePacket *)

others == <<opt, closed, reqs, bounds>>

\* With keyframeSplit packets are dropped until a keyframe opens the gate.
Admitted(p) == opt.keyframeSplit /\ ~ gateOpen => p.key

\* The timeline starts anew, at a keyframe.
Wraps(p) == ts >= MaxTS /\ p.key

\* Variant: the packet to come is left out of the projection.
OverflowsLate(p, limit) ==
    LET s == Seg(Cur)
    IN s.dur + CurFrag(s).dur > 0 /\ s.dur + CurFrag(s).dur > limit

\* The cap would be exceeded, or there is no keyframeSplit and the target would.
Overflows(p, limit) ==
    LET s == Seg(Cur)
    IN s.dur + CurFrag(s).dur > 0 /\ s.dur + CurFrag(s).dur + p.dur > limit

AtKeyframe(p) == p.key /\ Seg(Cur).dur >= SegDuration
CapCut(p) == opt.keyframeSplit /\ ~ AtKeyframe(p) /\ opt.cap > 0 /\ Overflows(p, opt.cap)
Rotates(p) ==
    /\ p.video
    /\ IF opt.keyframeSplit THEN AtKeyframe(p) \/ CapCut(p) ELSE Overflows(p, SegDuration)

\* What WritePacket settles before it touches the segments: drop, new epoch,
\* rotation.  A new epoch leaves an empty segment, which never rotates.
WritePacket(p) ==
    /\ wpc = "idle" /\ ~ closed /\ pkts < MaxPkts
    /\ Admitted(p)
    /\ gateOpen' = TRUE
    /\ ts' = (IF Wraps(p) THEN 0 ELSE ts) + p.dur
    /\ capSplitSeen' = (capSplitSeen \/ (~ Wraps(p) /\ p.video /\ CapCut(p)))
    /\ job' = [p EXCEPT !.disc = Wraps(p)]
    /\ wpc' = IF Wraps(p) \/ Rotates(p) THEN "close" ELSE "append"
    /\ pkts' = pkts + 1
    /\ UNCHANGED <<opt, segs, segIDs, counts, initVersion, initCache, dirty, manifest,
                   broadcasts, closed, reqs, updates>>

CloseSegment ==
    /\ wpc = "close"
    /\ segs' = Set(Cur, closeSeg(Seg(Cur)))
    /\ wpc' = "add"
    /\ UNCHANGED <<others, segIDs, counts, config, dirty, manifest, broadcasts, job>>

AddSegment ==
    /\ wpc = "add"
    /\ segs' = Append(segs, NewSegment(job.disc, initVersion))
    /\ segIDs' = Append(segIDs, Cur + 1)
    /\ dirty' = TRUE
    /\ wpc' = "evict"
    /\ UNCHANGED <<others, counts, config, manifest, broadcasts, job>>

-----------------------------------------------------------------------------
(* Eviction, after every new segment *)

ClosedIds == Range(Front(segIDs))

\* Variant: the oldest segment is counted among those that stay.
EvictByDurationEarly ==
    /\ Len(segIDs) > 2
    /\ Durations(ClosedIds) >= opt.keep

\* evictByDuration: the closed segments that stay still make up opt.keep.
EvictByDuration ==
    /\ Len(segIDs) > 2
    /\ Durations(ClosedIds) - Seg(Head(segIDs)).dur >= opt.keep

\* evictByCount: more than opt.count segments, longer than count target
\* durations and than three.
MaxPlaylist == (IF opt.count > 3 THEN opt.count ELSE 3) * SegDuration
EvictByCount ==
    /\ Len(segIDs) > opt.count
    /\ Durations(Listed) > MaxPlaylist

MustEvict == IF opt.keep > 0 THEN EvictByDuration ELSE EvictByCount

\* Variant: the discontinuity of an evicted segment is forgotten.
EvictOldestUncounted ==
    /\ wpc = "evict" /\ MustEvict
    /\ segs' = Set(Head(segIDs), [Seg(Head(segIDs)) EXCEPT !.held = 0])
    /\ segIDs' = Tail(segIDs)
    /\ mediaSequence' = mediaSequence + 1
    /\ UNCHANGED <<others, discontinuitySequence, config, dirty, manifest, broadcasts, wpc, job>>

EvictOldest ==
    /\ wpc = "evict" /\ MustEvict
    /\ segs' = Set(Head(segIDs), [Seg(Head(segIDs)) EXCEPT !.held = 0])
    /\ segIDs' = Tail(segIDs)
    /\ discontinuitySequence' = discontinuitySequence + (IF Seg(Head(segIDs)).disc THEN 1 ELSE 0)
    /\ mediaSequence' = mediaSequence + 1
    /\ UNCHANGED <<others, config, dirty, manifest, broadcasts, wpc, job>>

\* Variant: only the version in use is kept.
EvictionOverCurrentOnly ==
    /\ wpc = "evict" /\ ~ MustEvict
    /\ initCache' = {initVersion}
    /\ wpc' = IF job = NoJob THEN "store" ELSE "append"
    /\ UNCHANGED <<others, segs, segIDs, counts, initVersion, gateOpen, capSplitSeen, ts,
                   dirty, manifest, broadcasts, job>>

\* cleanupInitCache, then back to WritePacket or UpdateCodecParameters.
EvictionOver ==
    /\ wpc = "evict" /\ ~ MustEvict
    /\ initCache' = initCache \cap {Seg(i).init : i \in Listed}
    /\ wpc' = IF job = NoJob THEN "store" ELSE "append"
    /\ UNCHANGED <<others, segs, segIDs, counts, initVersion, gateOpen, capSplitSeen, ts,
                   dirty, manifest, broadcasts, job>>

-----------------------------------------------------------------------------
(* The writer: the packet goes into the current fragment *)

Publishes == IF job.video /\ dirty THEN "store" ELSE "idle"

\* The fragment keeps the slot; a video packet may fill it.
AppendPacket ==
    LET s == Seg(Cur)
        dur == CurFrag(s).dur + job.dur
        full == job.video /\ dur >= FragDuration
    IN
    /\ wpc = "append"
    /\ segs' = Set(Cur, [s EXCEPT !.frags[Len(s.frags)] = [dur |-> dur, done |-> full],
                                  !.held = @ + 1,
                                  !.keyed = IF s.held = 0 THEN job.key ELSE @])
    /\ wpc' = IF full THEN "fragment" ELSE Publishes
    /\ job' = IF wpc' = "idle" THEN NoJob ELSE job
    /\ UNCHANGED <<others, segIDs, counts, config, dirty, manifest, broadcasts>>

NextFragment ==
    LET s == Seg(Cur) IN
    /\ wpc = "fragment"
    /\ segs' = Set(Cur, [s EXCEPT !.dur = @ + CurFrag(s).dur, !.parts = @ + 1,
                                  !.frags = Append(@, NewFragment)])
    /\ dirty' = TRUE
    /\ wpc' = "store"
    /\ UNCHANGED <<others, segIDs, counts, config, manifest, broadcasts, job>>

Entry(i) == [id |-> i, parts |-> Seg(i).parts, ended |-> Seg(i).ended, dur |-> Seg(i).dur,
             disc |-> Seg(i).disc, init |-> Seg(i).init]

\* updateIndexM3u8 and manifest.Store.
StoreManifest ==
    /\ wpc = "store"
    /\ manifest' = [seq |-> mediaSequence, disc |-> discontinuitySequence,
                    independent |-> opt.keyframeSplit /\ ~ capSplitSeen,
                    list |-> [k \in 1 .. Len(segIDs) |-> Entry(segIDs[k])]]
    /\ dirty' = IF job = NoJob THEN dirty ELSE FALSE
    /\ wpc' = "broadcast"
    /\ UNCHANGED <<others, segs, segIDs, counts, config, broadcasts, job>>

broadcastIndex ==
    /\ wpc = "broadcast"
    /\ broadcasts' = broadcasts + 1
    /\ wpc' = "idle" /\ job' = NoJob
    /\ UNCHANGED <<others, segs, segIDs, counts, config, dirty, manifest>>

-----------------------------------------------------------------------------
(* The writer: UpdateCodecParameters and Release *)

UpdateCodecParameters ==
    /\ wpc = "idle" /\ ~ closed /\ updates < MaxUpdates
    /\ updates' = updates + 1
    /\ segs' = Set(Cur, forceClose(Seg(Cur)))
    /\ wpc' = "update"
    /\ UNCHANGED <<opt, segIDs, counts, config, dirty, manifest, broadcasts, closed, job,
                   reqs, pkts>>

\* Variant: the gate stays open, and the new segment may begin anywhere.
UpdateSegmentGateOpen ==
    /\ wpc = "update"
    /\ initVersion' = initVersion + 1 /\ initCache' = initCache \cup {initVersion + 1}
    /\ segs' = Append(segs, NewSegment(TRUE, initVersion + 1))
    /\ segIDs' = Append(segIDs, Cur + 1)
    /\ wpc' = "evict"
    /\ UNCHANGED <<others, counts, gateOpen, capSplitSeen, ts, dirty, manifest, broadcasts, job>>

\* A new init version, and a segment after a discontinuity, behind a closed gate.
UpdateSegment ==
    /\ wpc = "update"
    /\ initVersion' = initVersion + 1 /\ initCache' = initCache \cup {initVersion + 1}
    /\ segs' = Append(segs, NewSegment(TRUE, initVersion + 1))
    /\ segIDs' = Append(segIDs, Cur + 1)
    /\ gateOpen' = FALSE
    /\ wpc' = "evict"
    /\ UNCHANGED <<others, counts, capSplitSeen, ts, dirty, manifest, broadcasts, job>>

Release ==
    /\ wpc = "idle" /\ ~ closed
    /\ closed' = TRUE
    /\ segs' = [k \in 1 .. Len(segs) |->
                   IF k - 1 \in Listed THEN [segs[k] EXCEPT !.held = 0] ELSE segs[k]]
    /\ segIDs' = <<>>
    /\ UNCHANGED <<opt, counts, config, dirty, manifest, broadcasts, wpc, job, reqs, bounds>>

-----------------------------------------------------------------------------
(* The readers *)

writer == <<opt, segs, segIDs, counts, config, dirty, manifest, broadcasts, closed,
            wpc, job, bounds>>

Answer(r) == rpc' = [rpc EXCEPT ![r] = "idle"] /\ rq' = [rq EXCEPT ![r] = NoReq]
Await(r, where) == rpc' = [rpc EXCEPT ![r] = where] /\ UNCHANGED rq

\* GetIndexM3u8(needSeg, needPart) captures the broadcast channel first.
GetIndexM3u8(r, seg, part) ==
    /\ rpc[r] = "idle"
    /\ rpc' = [rpc EXCEPT ![r] = "current"]
    /\ rq' = [rq EXCEPT ![r] = [NoReq EXCEPT !.kind = "index", !.seg = seg, !.part = part,
                                             !.ch = broadcasts]]
    /\ UNCHANGED writer

\* getCurSegment, and what it says of the segment wanted.
LookAtCurrent(r) ==
    /\ rpc[r] = "current"
    /\ IF segIDs = <<>> THEN Await(r, "panicked")
       ELSE \/ Cur > rq[r].seg /\ Await(r, "channel")
            \/ Cur = rq[r].seg /\ Await(r, IF rq[r].part < 0 THEN "channel" ELSE "part")
            \/ /\ Cur < rq[r].seg
               /\ rpc' = [rpc EXCEPT ![r] = "segment"]
               /\ rq' = [rq EXCEPT ![r].at = Cur]
    /\ UNCHANGED writer

AwaitSegment(r) ==
    /\ rpc[r] = "segment" /\ Seg(rq[r].at).done
    /\ IF rq[r].kind = "index" THEN Await(r, "current") ELSE Answer(r)
    /\ UNCHANGED writer

\* waitFragment: the part has been begun, or the segment is finished.
AwaitPart(r) ==
    /\ rpc[r] = "part"
    /\ Len(Seg(rq[r].seg).frags) > rq[r].part \/ Seg(rq[r].seg).done
    /\ Await(r, IF rq[r].kind = "index" THEN "channel" ELSE "fragment")
    /\ UNCHANGED writer

\* The captured channel is closed: the manifest is loaded and returned.
AwaitBroadcast(r) ==
    /\ rpc[r] = "channel" /\ broadcasts > rq[r].ch
    /\ Answer(r)
    /\ UNCHANGED writer

\* GetSegment: bytes of a finished segment, unless its slots are released.
GetSegment(r, i) ==
    /\ rpc[r] = "idle" /\ i \in Listed
    /\ rpc' = [rpc EXCEPT ![r] = "segment"]
    /\ rq' = [rq EXCEPT ![r] = [NoReq EXCEPT !.kind = "bytes", !.seg = i, !.at = i]]
    /\ UNCHANGED writer

GetFragment(r, i, part) ==
    /\ rpc[r] = "idle" /\ i \in Listed /\ part >= 0
    /\ rpc' = [rpc EXCEPT ![r] = "part"]
    /\ rq' = [rq EXCEPT ![r] = [NoReq EXCEPT !.kind = "bytes", !.seg = i, !.part = part]]
    /\ UNCHANGED writer

\* segment.getFragment: there is no such fragment, or it is finished.
AwaitFragment(r) ==
    LET fs == Seg(rq[r].seg).frags IN
    /\ rpc[r] = "fragment"
    /\ Len(fs) > rq[r].part => fs[rq[r].part + 1].done
    /\ Answer(r)
    /\ UNCHANGED writer

\* Variant: the timeout bounds only the wait for the manifest.
IndexTimeoutAtChannel(r) ==
    /\ rq[r].kind = "index" /\ rpc[r] = "channel"
    /\ Answer(r)
    /\ UNCHANGED writer

\* Every wait of GetIndexM3u8 ends with blockingTimeout.
IndexTimeout(r) ==
    /\ rq[r].kind = "index" /\ rpc[r] \in {"current", "segment", "part", "channel"}
    /\ Answer(r)
    /\ UNCHANGED writer

\* So does the wait of getFragment; the others end when the client goes away.
BytesTimeout(r) ==
    /\ rq[r].kind = "bytes" /\ rpc[r] \in {"segment", "part", "fragment"}
    /\ Answer(r)
    /\ UNCHANGED writer

-----------------------------------------------------------------------------
Packets ==
    [video : {TRUE}, key : BOOLEAN, dur : PktDurations, disc : {FALSE}]
    \cup [video : {FALSE}, key : {FALSE}, dur : {0}, disc : {FALSE}]

Write ==
    \/ \E p \in Packets : WritePacket(p)
    \/ CloseSegment \/ AddSegment \/ AppendPacket \/ NextFragment
    \/ StoreManifest \/ broadcastIndex

Evict == EvictOldest \/ EvictionOver

Update == UpdateCodecParameters \/ UpdateSegment

Read(r) ==
    \/ LookAtCurrent(r) \/ AwaitSegment(r) \/ AwaitPart(r) \/ AwaitBroadcast(r)
    \/ AwaitFragment(r)

\* Clients ask for the segment being written or the next one: a request for
\* an older segment does what these do after a rotation.
Newest == {Len(segs) - 1, Len(segs)}
Ask(r) ==
    \/ \E i \in Newest, n \in Parts : GetIndexM3u8(r, i, n)
    \/ \E i \in Newest \cap Listed : GetSegment(r, i)
    \/ \E i \in Newest \cap Listed, n \in Parts : GetFragment(r, i, n)

Next ==
    \/ Write \/ Evict \/ Update \/ Release
    \/ \E r \in Readers : Ask(r) \/ Read(r) \/ IndexTimeout(r) \/ BytesTimeout(r)

Spec == Init /\ [][Next]_vars

\* The timers of the readers fire; packets may stop for good, and a client of
\* GetSegment need not go away.
FairSpec == Spec /\ \A r \in Readers : WF_vars(IndexTimeout(r))

-----------------------------------------------------------------------------
(* Properties *)

\* A playlist changes as RFC 8216 wants it: segments leave only at its front,
\* each one counted by the media sequence, discontinuities by theirs, and the
\* entry of a finished segment that stays does not change.
ShrinksAtFront ==
    LET gone == manifest'.seq - manifest.seq
        old == manifest.list
        new == manifest'.list
        entered == {i \in manifest.seq .. manifest'.seq - 1 : Seg(i).disc}
    IN /\ gone >= 0
       /\ \A k \in 1 .. Len(new) : new[k].id = manifest'.seq + k - 1
       /\ manifest'.disc - manifest.disc = Cardinality(entered)
       /\ \A k \in 1 .. Len(old) : k > gone =>
             /\ new[k - gone].id = old[k].id
             /\ old[k].ended => new[k - gone] = old[k]
PlaylistOnlyShrinksAtFront == [][manifest' # manifest => ShrinksAtFront]_vars

\* The playlist says EXT-X-INDEPENDENT-SEGMENTS only if every segment it lists
\* begins with a keyframe, whatever cuts, wraps and codec changes made it.
IndependentTagHonest ==
    manifest.independent =>
        \A k \in 1 .. Len(manifest.list) : Seg(manifest.list[k].id).keyed

\* A finished segment is not longer than the advertised target duration, when
\* segments are cut by time or a cap is set.
SegmentsWithinTarget ==
    ~ opt.keyframeSplit \/ opt.cap > 0 =>
        \A i \in Listed :
            Seg(i).ended => Seg(i).dur <= IF opt.cap > 0 THEN opt.cap ELSE SegDuration

\* Once eviction is over, the closed segments of the playlist are as long as the
\* options ask, and without their first they would not be.  Where segments are
\* counted, there are as many as the option asks; they are no longer than the limit
\* if there are more, and with the segment evicted last they would be longer: the
\* playlist is at most one segment short of the limit.
EvictionKeepsPlaylist ==
    wpc # "evict" /\ ~ closed =>
        IF opt.keep > 0
        THEN /\ mediaSequence > 0 => Durations(ClosedIds) >= opt.keep
             /\ Len(segIDs) > 2 => Durations(ClosedIds) - Seg(Head(segIDs)).dur < opt.keep
        ELSE /\ Len(segIDs) >= IF opt.count < Len(segs) THEN opt.count ELSE Len(segs)
             /\ Len(segIDs) > opt.count => Durations(ClosedIds) <= MaxPlaylist
             /\ mediaSequence > 0 =>
                   Durations(ClosedIds) + Seg(mediaSequence - 1).dur > MaxPlaylist

\* Known not to hold, where segments are counted: the playlist does not fall below
\* three target durations (muxer.go:357), as the total is looked at before a segment
\* is evicted and not after it (muxer.go:362-373).
PlaylistKeepsThreeTargets ==
    wpc # "evict" /\ ~ closed /\ opt.keep <= 0 /\ mediaSequence > 0 =>
        Durations(Listed) >= 3 * SegDuration

\* The init version of every listed segment can be fetched.
ListedInitKnown == \A k \in 1 .. Len(manifest.list) :
    manifest.list[k].id \in Listed => manifest.list[k].init \in initCache

\* Slots are held exactly by segments in the playlist: an evicted segment and
\* a closed muxer keep none, and no packet is written to a released segment.
EvictedSlotsReleased == \A i \in Ids \ Listed : Seg(i).held = 0

\* GetIndexM3u8 ends even when no packet comes any more.
IndexReturns ==
    \A r \in Readers : rq[r].kind = "index" ~> (rpc[r] \in {"idle", "panicked"})

\* What writer/hls says of the muxers it hands to readers: a concurrent close
\* is safe.  getCurSegment indexes the empty list.
CloseIsSafeForReaders == \A r \in Readers : rpc[r] # "panicked"

\* What waitForSegmentOrPart says it waits for: when GetIndexM3u8 answers, the
\* segment, and the part if one was named, is in the playlist.
ListsPart(list, seg, part) ==
    \E k \in 1 .. Len(list) :
        \/ list[k].id > seg
        \/ list[k].id = seg /\ (part < 0 \/ list[k].parts > part \/ list[k].ended)
IndexHasRequested ==
    \A r \in Readers :
        rpc[r] = "channel" /\ broadcasts > rq[r].ch =>
            ListsPart(manifest.list, rq[r].seg, rq[r].part)
=============================================================================
