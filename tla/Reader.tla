------------------------------- MODULE Reader -------------------------------
(***************************************************************************)
(* reader/reader.go: packets of many RTSP demuxers fanned into one channel.*)
(* Step adds and removes URLs; every URL added runs repackPackets in a     *)
(* goroutine of its own, which stays one packet behind per track, and      *)
(* reconnects after a read error.  Release, which Close calls once the     *)
(* Step loop is over (module Lifecycle), stops the goroutines and drains   *)
(* the channel, but does not wait for them.                                *)
(*                                                                         *)
(* A packet holds a slot of a ring buffer until it is released; packets    *)
(* are numbered in the order they are read.                                *)
(***************************************************************************)
EXTENDS OffsetHandler, Sequences, FiniteSets

CONSTANTS
    Urls,        \* the sources
    Tracks,      \* the tracks of a source: video, audio
    ChanSize,    \* the capacity of the output channel
    RawTimes,    \* timestamps as demuxed
    Durations,   \* durations an audio packet is demuxed with
    Elapsed,     \* time from a packet to the end of the reconnection after it
    MaxAdds, MaxPkts   \* bounds: URLs added, packets read

ASSUME TracksAssumption == Tracks \subseteq {"video", "audio"}
ASSUME TimesAssumption ==
    RawTimes \subseteq Int /\ Durations \subseteq Nat /\ Elapsed \subseteq Nat
\* The sleep before a reconnection is at least a second: longer than an audio
\* packet lasts.
ASSUME ElapsedAssumption ==
    \A e \in Elapsed : e > Round /\ \A d \in Durations : e > d + Round

VARIABLES
    phase,      \* the component: running, stopping, draining, closed
    dmxStoppers,\* URL -> the goroutine whose stop channel it holds
    src,        \* the goroutines started so far and their URLs
    stop,       \* goroutines whose stop channel is closed
    pc, cur,    \* where a goroutine is; the packet it wants to send after
    oh, held,   \* its offset handler for each track, and lastPacket itself
    packets,    \* the output channel
    pkts,       \* every packet read: goroutine, track, timestamp, releases
    taken,      \* packets the consumer received
    late        \* history: packets a goroutine sent after it was told to stop

gvars == <<pc, cur, oh, held>>
vars  == <<phase, dmxStoppers, src, stop, pc, cur, oh, held,
           packets, pkts, taken, late>>

Running == DOMAIN src   \* 1 .. number of goroutines started
Ids     == DOMAIN pkts
NoPkt   == 0

Without(f, u) == [v \in DOMAIN f \ {u} |-> f[v]]

Goto(g, l) == pc' = [pc EXCEPT ![g] = l]
HeldBy(g) == {held[g][k] : k \in Tracks} \ {NoPkt}

\* pkt.Release() for each packet of a set.
Released(ps, S) == [i \in DOMAIN ps |->
    IF i \in S THEN [ps[i] EXCEPT !.releases = @ + 1] ELSE ps[i]]
ReleaseAll(S) == pkts' = Released(pkts, S)

Init ==
    /\ phase = "running"
    /\ dmxStoppers = [u \in {} |-> 0]
    /\ src = <<>> /\ stop = {}
    /\ pc = <<>> /\ cur = <<>> /\ oh = <<>> /\ held = <<>>
    /\ packets = <<>> /\ pkts = <<>> /\ taken = {}
    /\ late = <<>>

-----------------------------------------------------------------------------
(* The user of the reader *)

\* The consumer takes a packet and is its owner from now on.
Receive ==
    /\ packets # <<>>
    /\ taken' = taken \cup {Head(packets)}
    /\ packets' = Tail(packets)
    /\ UNCHANGED <<phase, dmxStoppers, src, stop, gvars, pkts, late>>

CloseReader ==
    /\ phase = "running"
    /\ phase' = "stopping"
    /\ UNCHANGED <<dmxStoppers, src, stop, gvars, packets, pkts, taken, late>>

-----------------------------------------------------------------------------
(* Step: one branch of its select each.  It may serve its channels for a     *)
(* while after stopChan is closed: the select picks any ready branch.  The   *)
(* URLs come from the user in any order; one that url.Parse refuses, and the *)
(* removal of one that is not there, change nothing.                         *)

\* The new stopper replaces that of an earlier goroutine with the same URL.
StepAdd(u) ==
    /\ phase \in {"running", "stopping"} /\ Len(src) < MaxAdds
    /\ src' = Append(src, u)
    /\ dmxStoppers' = [v \in DOMAIN dmxStoppers \cup {u} |->
                          IF v = u THEN Len(src) + 1 ELSE dmxStoppers[v]]
    /\ pc' = Append(pc, "loop") /\ cur' = Append(cur, NoPkt)
    /\ oh' = Append(oh, [k \in Tracks |-> NewHandler])
    /\ held' = Append(held, [k \in Tracks |-> NoPkt])
    /\ late' = Append(late, 0)
    /\ UNCHANGED <<phase, stop, packets, pkts, taken>>

StepRemove(u) ==
    /\ phase \in {"running", "stopping"} /\ u \in DOMAIN dmxStoppers
    /\ stop' = stop \cup {dmxStoppers[u]}
    /\ dmxStoppers' = Without(dmxStoppers, u)
    /\ UNCHANGED <<phase, src, gvars, packets, pkts, taken, late>>

\* Step sees stopChan; the manager goes on to Release, which closes every stop
\* channel in the table.
ReleaseBegin ==
    /\ phase = "stopping"
    /\ phase' = "draining"
    /\ stop' = stop \cup {dmxStoppers[u] : u \in DOMAIN dmxStoppers}
    /\ dmxStoppers' = [u \in {} |-> 0]
    /\ UNCHANGED <<src, gvars, packets, pkts, taken, late>>

ReleaseDrain ==
    /\ phase = "draining" /\ packets # <<>>
    /\ ReleaseAll({Head(packets)})
    /\ packets' = Tail(packets)
    /\ UNCHANGED <<phase, dmxStoppers, src, stop, gvars, taken, late>>

ReleaseEnd ==
    /\ phase = "draining" /\ packets = <<>>
    /\ phase' = "closed"
    /\ UNCHANGED <<dmxStoppers, src, stop, gvars, packets, pkts, taken, late>>

-----------------------------------------------------------------------------
(* repackPackets, one goroutine per URL added *)

others == <<phase, dmxStoppers, src, stop, taken>>

\* Variant: the loop reads on, and only the send looks at the stop channel.
LoopUnchecked(g) ==
    /\ pc[g] = "loop"
    /\ Goto(g, "read")
    /\ UNCHANGED <<others, cur, oh, held, packets, pkts, late>>

\* The check at the top of the loop.
Loop(g) ==
    /\ pc[g] = "loop"
    /\ IF g \in stop
       THEN /\ ReleaseAll(HeldBy(g))
            /\ held' = [held EXCEPT ![g] = [k \in Tracks |-> NoPkt]]
            /\ oh' = [oh EXCEPT ![g] = [k \in Tracks |-> [@[k] EXCEPT !.last = None]]]
            /\ Goto(g, "ended")
       ELSE Goto(g, "read") /\ UNCHANGED <<pkts, oh, held>>
    /\ UNCHANGED <<others, cur, packets, late>>

\* ReadPacket returns a packet that is neither nil nor of an unknown kind (both
\* are skipped at once): the handler keeps it, refuses it, or has it follow the
\* packet it kept, which is to be sent now.
ReadPacket(g, k, raw, d) ==
    LET h0 == oh[g][k]
        h  == CheckTSWrap(h0, raw)
        id == Len(pkts) + 1
        Arrives(ts, dur, n) == pkts' = Append(pkts,
            [g |-> g, k |-> k, ts |-> ts, dur |-> dur, releases |-> n])
    IN
    /\ pc[g] = "read" /\ Len(pkts) < MaxPkts
    /\ \/ /\ IsEmpty(h0)
          /\ oh' = [oh EXCEPT ![g][k] = CheckEmptyPacket(h0, raw)]
          /\ held' = [held EXCEPT ![g][k] = id]
          /\ Arrives(h0.up, d, 0)
          /\ Goto(g, "loop") /\ UNCHANGED cur
       \/ /\ ~ IsEmpty(h0) /\ Rewritten(h, raw) <= h.last
          /\ oh' = [oh EXCEPT ![g][k] = h]
          /\ Arrives(Rewritten(h, raw), d, 1)
          /\ Goto(g, "loop") /\ UNCHANGED <<held, cur>>
       \/ /\ ~ IsEmpty(h0) /\ Rewritten(h, raw) > h.last
          /\ oh' = [oh EXCEPT ![g][k] = [h EXCEPT !.dur =
                       IF k = "video" THEN Rewritten(h, raw) - h.last
                                      ELSE pkts[held[g][k]].dur]]
          /\ Arrives(Rewritten(h, raw), d, 0)
          /\ cur' = [cur EXCEPT ![g] = id]
          /\ Goto(g, "send") /\ UNCHANGED held
    /\ UNCHANGED <<others, packets, late>>

\* The select's send: the kept packet goes out, the new one is kept.
Send(g) ==
    LET k == pkts[cur[g]].k IN
    /\ pc[g] = "send" /\ Len(packets) < ChanSize
    /\ packets' = Append(packets, held[g][k])
    /\ held' = [held EXCEPT ![g][k] = cur[g]]
    /\ oh' = [oh EXCEPT ![g][k].last = pkts[cur[g]].ts]
    /\ cur' = [cur EXCEPT ![g] = NoPkt]
    /\ late' = IF g \in stop THEN [late EXCEPT ![g] = @ + 1] ELSE late
    /\ Goto(g, "loop")
    /\ UNCHANGED <<others, pkts>>

\* Variant: only the packet that was just read is given back.
SendStoppedForgetsKept(g) ==
    /\ pc[g] = "send" /\ g \in stop
    /\ ReleaseAll({cur[g]})
    /\ cur' = [cur EXCEPT ![g] = NoPkt]
    /\ held' = [held EXCEPT ![g] = [k \in Tracks |-> NoPkt]]
    /\ oh' = [oh EXCEPT ![g] = [k \in Tracks |-> [@[k] EXCEPT !.last = None]]]
    /\ Goto(g, "ended")
    /\ UNCHANGED <<others, packets, late>>

\* Variant: the stop channel is looked at only when the send could proceed.
SendStoppedAfterRoom(g) ==
    /\ pc[g] = "send" /\ g \in stop /\ Len(packets) < ChanSize
    /\ ReleaseAll(HeldBy(g) \cup {cur[g]})
    /\ cur' = [cur EXCEPT ![g] = NoPkt]
    /\ held' = [held EXCEPT ![g] = [k \in Tracks |-> NoPkt]]
    /\ oh' = [oh EXCEPT ![g] = [k \in Tracks |-> [@[k] EXCEPT !.last = None]]]
    /\ Goto(g, "ended")
    /\ UNCHANGED <<others, packets, late>>

\* The select's stop branch.
SendStopped(g) ==
    /\ pc[g] = "send" /\ g \in stop
    /\ ReleaseAll(HeldBy(g) \cup {cur[g]})
    /\ cur' = [cur EXCEPT ![g] = NoPkt]
    /\ held' = [held EXCEPT ![g] = [k \in Tracks |-> NoPkt]]
    /\ oh' = [oh EXCEPT ![g] = [k \in Tracks |-> [@[k] EXCEPT !.last = None]]]
    /\ Goto(g, "ended")
    /\ UNCHANGED <<others, packets, late>>

\* handleReadError: the demuxer is closed, and the sleep begins.
ReadFails(g) ==
    /\ pc[g] = "read"
    /\ Goto(g, "backoff")
    /\ UNCHANGED <<others, cur, oh, held, packets, pkts, late>>

\* The sleep ends early or the new demuxer does not start.
Retry(g) ==
    /\ pc[g] = "backoff"
    /\ Goto(g, "loop")
    /\ UNCHANGED <<others, cur, oh, held, packets, pkts, late>>

Reconnected(g, elapsed) ==
    /\ pc[g] = "backoff"
    /\ oh' = [oh EXCEPT ![g] = [k \in Tracks |-> RecalcForGap(@[k], elapsed)]]
    /\ held' = [held EXCEPT ![g] = [k \in Tracks |-> NoPkt]]
    /\ ReleaseAll(HeldBy(g))
    /\ Goto(g, "loop")
    /\ UNCHANGED <<others, cur, packets, late>>

\* The demuxer panics: the deferred recover ends the goroutine, which keeps
\* what it held.
DemuxerPanics(g) ==
    /\ pc[g] = "read"
    /\ Goto(g, "panicked")
    /\ UNCHANGED <<others, cur, oh, held, packets, pkts, late>>

-----------------------------------------------------------------------------
Step ==
    \/ \E u \in Urls : StepAdd(u) \/ StepRemove(u)
    \/ ReleaseBegin \/ ReleaseDrain \/ ReleaseEnd

Repack(g) ==
    \/ Loop(g) \/ Send(g) \/ SendStopped(g)
    \/ \E k \in Tracks, raw \in RawTimes, d \in Durations : ReadPacket(g, k, raw, d)
    \/ ReadFails(g) \/ Retry(g)
    \/ \E e \in Elapsed : Reconnected(g, e)
    \/ DemuxerPanics(g)

Next ==
    \/ Receive \/ CloseReader
    \/ Step
    \/ \E g \in Running : Repack(g)

Spec == Init /\ [][Next]_vars

\* Goroutines run (ReadPacket returns or times out, sleeps end), and Step does
\* not overlook the closed stopChan forever; the consumer may stop reading.
FairSpec ==
    /\ Spec /\ WF_vars(Step) /\ SF_vars(ReleaseBegin)
    /\ \A g \in 1 .. MaxAdds : WF_vars(g \in Running /\ Repack(g))

-----------------------------------------------------------------------------
(* Properties *)

Holders(p) ==
    Cardinality({g \in Running : cur[g] = p})
    + Cardinality({x \in Running \X Tracks : held[x[1]][x[2]] = p})
    + Cardinality({i \in 1 .. Len(packets) : packets[i] = p})
    + (IF p \in taken THEN 1 ELSE 0)

\* A packet has one owner - a goroutine, the channel or the consumer - until
\* it is released, and is released once: neither a slot of the ring is lost
\* nor one in use given back, whatever stops, fails or reconnects meanwhile.
OneOwnerUntilReleased ==
    \A p \in Ids : Holders(p) + pkts[p].releases = 1

\* A goroutine that was told to stop sends at most one more packet; and every stop
\* channel in the table belongs to a goroutine that was not told to stop yet, so
\* none is closed twice, which would panic.
StopsAreSound ==
    /\ \A g \in Running : late[g] <= 1
    /\ \A u \in DOMAIN dmxStoppers :
          dmxStoppers[u] \notin stop /\ src[dmxStoppers[u]] = u

\* For each track of a goroutine, the timestamps of the packets in the channel,
\* of those the consumer got, and of the one kept to be sent next rise
\* strictly, across clock wraps and reconnections.
Outgoing ==
    taken \cup {packets[i] : i \in 1 .. Len(packets)} \cup UNION {HeldBy(g) : g \in Running}
SameTrack(p, q) == pkts[p].g = pkts[q].g /\ pkts[p].k = pkts[q].k
TimestampsRise ==
    \A p, q \in Outgoing : p < q /\ SameTrack(p, q) => pkts[p].ts < pkts[q].ts

\* The goroutines that were told to stop, by RemoveURL or by Release, end, even
\* when nobody takes packets from a full channel any more.
StoppedSourcesEnd ==
    stop # {} ~> \A g \in stop : pc[g] \in {"ended", "panicked"}

\* What the comment on Release says: it drains the channel so that slots are
\* released and not leaked.  A goroutine that is in the select may still
\* choose to send when the drain is over.
NothingLeftInChannel ==
    phase = "closed" /\ (\A g \in Running : pc[g] = "ended") => packets = <<>>
=============================================================================
