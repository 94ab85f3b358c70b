-------------------------------- MODULE WebRTC --------------------------------
(***************************************************************************)
(* writer/webrtc: the streams of several sources, sent to the peers that   *)
(* chose them.  One goroutine, under the fail-safe manager, runs Step: it  *)
(* takes one message of any of its channels, packets and sources from the  *)
(* program, peers that connect, close or choose another stream from the    *)
(* callbacks of the connections.  Go's select takes the channels in no     *)
(* order.  A packet takes several actions, a stretch of Step each; nobody  *)
(* else looks at streams, so the callbacks come between two messages.      *)
(* Where a send of a clone may find the channel of the peer full, wait or  *)
(* give up, the clone counts as offered.                                   *)
(*                                                                         *)
(* A packet is [url, id, kind, t, vid]: id counts the packets of a source, *)
(* vid its video packets.  A source has one parameter set at a time,       *)
(* [type, res, v]: codec type, resolution, and v for the pointer the code  *)
(* compares.  Packets below minPktSz and audio parameters are left out.    *)
(***************************************************************************)
EXTENDS GoPBuffer, TLC

CONSTANTS
    Urls, Peers,
    Types, Sizes,    \* codec types, resolutions
    Lookback,        \* lookback of canAddTrackToPeer
    Eager,           \* do peers choose a stream before they are told of any?
    MaxPkts, MaxPars, MaxChanges, MaxRemoved  \* bounds: packets, parameter sets, requests,
                                              \* removed sources

VARIABLES
    sources,     \* the urls added
    sorted,      \* sortedURLs
    streams,     \* the stream of each url, or NoStream
    pending,     \* pendingPeers
    peer,        \* of each peer: where its connection is, its first stream and codec type
    done,        \* peers whose done channel is closed
    connects, closes, changes,  \* connectPeersChan, closePeersChan, changePeersChan
    told,        \* peers that were sent the streams there are now
    clones,      \* peers with clones in vChan or aChan, unless they took them already
    feed,        \* the video packets a Step offered last to each peer, after the one before
    got, vid, par,   \* of each source: packets, video packets, parameters
    released,    \* packets given back
    cut,         \* video packets the hard cap took from the middle of a group
    pc, job,     \* where Step is, and the packet it works on
    removals     \* bound

input == <<got, vid, par>>
queues == <<connects, closes, changes>>
vars == <<sources, sorted, streams, pending, peer, done, queues, told, clones, feed, input,
          released, cut, pc, job, removals>>

NoStream == [buf |-> <<>>]
\* tracks is split in the peers that were seeded and those that were not.
NewStream(p) == [seeded |-> {}, unseeded |-> {}, toAdd |-> {}, buf |-> <<>>, par |-> p]
NoJob == [url |-> "none"]
NoPeer == [state |-> "new", asked |-> 0]
Nothing == [url |-> "none", vid |-> 0, key |-> FALSE]

Known == {u \in Urls : streams[u] # NoStream}
Tracks(u) == streams[u].seeded \cup streams[u].unseeded
Ids(ps) == {<<p.url, p.id>> : p \in Range(ps)}
Buffered(u) == IF u \in Known THEN Ids(streams[u].buf) ELSE {}

Init ==
    /\ sources = {} /\ sorted = <<>> /\ streams = [u \in Urls |-> NoStream]
    /\ pending = {} /\ peer = [p \in Peers |-> NoPeer] /\ done = {}
    /\ connects = {} /\ closes = {} /\ changes = <<>>
    /\ told = {} /\ clones = {} /\ feed = [p \in Peers |-> <<Nothing>>]
    /\ got = [u \in Urls |-> 0] /\ vid = got
    /\ par \in [Urls -> [type : Types, res : Sizes, v : {1}]]
    /\ released = {} /\ cut = {} /\ pc = "idle" /\ job = NoJob /\ removals = 0

Ready == pc = "idle"

\* sortURLsByResolution: one pass from the end, which stops at the first pair in
\* order.
sortURLsByResolution(urls, res) ==
    LET n == Len(urls)
        k == Max({0} \cup {i \in 1 .. n - 1 : res[urls[i]] <= res[urls[n]]})
    IN SubSeq(urls, 1, k) \o <<urls[n]>> \o SubSeq(urls, k + 1, n - 1)
Resolutions(strs) == [u \in {v \in Urls : strs[v] # NoStream} |-> strs[u].par.res]

\* removePeer for each of a set: a peer closed before is left where it is.  The
\* channels of the others are drained.
Without(s, gone) == [s EXCEPT !.seeded = @ \ gone, !.unseeded = @ \ gone, !.toAdd = @ \ gone]
WithoutPeers(strs, ps) ==
    [u \in Urls |-> IF strs[u] = NoStream THEN NoStream ELSE Without(strs[u], ps \ done)]
\* Variant: the channels are left as they are.
removePeersUndrained(ps) ==
    /\ done' = done \cup ps
    /\ pending' = pending \ (ps \ done)
    /\ UNCHANGED clones

removePeers(ps) ==
    /\ done' = done \cup ps
    /\ pending' = pending \ (ps \ done)
    /\ clones' = clones \ (ps \ done)

\* sendAvailableStreams: every peer of a stream, and those that wait.
Listing(strs, urls) ==
    [i \in DOMAIN urls |-> [url |-> urls[i], res |-> strs[urls[i]].par.res,
                            type |-> strs[urls[i]].par.type]]
sendAvailableStreams ==
    told' = pending' \cup UNION {streams'[u].seeded \cup streams'[u].unseeded : u \in Known'}
            \cup (IF Listing(streams', sorted') = Listing(streams, sorted) THEN told ELSE {})
sendAvailableStreamsToPeer(p) == told' = told \cup {p}

-----------------------------------------------------------------------------
(* Peers: their connections, and the messages Step takes from them *)

\* A peer asks for a stream that exists; its connection is made for the codec
\* type of that moment, or fails.  Other requests are answered with an error.
Asked(p, u) == Ready /\ peer[p] = NoPeer /\ u \in Known
addConnection(p, u, type) ==
    /\ \E state \in {"negotiating", "failed"} :
          peer' = [peer EXCEPT ![p] = [state |-> state, target |-> u, type |-> type,
                                       lost |-> FALSE, late |-> FALSE, asked |-> 0]]
    /\ UNCHANGED <<told, sources, sorted, streams, pending, done, queues, clones, feed, input,
                   released, cut, pc, job, removals>>
Connect(p, u) == Asked(p, u) /\ addConnection(p, u, streams[u].par.type)

\* The data channel opens; the connection fails or goes.  Callbacks of the
\* connection, in any order.
ChannelOpens(p) ==
    /\ Ready /\ peer[p].state = "negotiating" /\ p \notin done
    /\ peer' = [peer EXCEPT ![p].state = "open"]
    /\ connects' = connects \cup {p}
    /\ UNCHANGED <<told, sources, sorted, streams, pending, done, closes, changes, clones, feed,
                   input, released, cut, pc, job, removals>>

ConnectionLost(p) ==
    /\ Ready /\ peer[p] # NoPeer /\ ~ peer[p].lost
    /\ peer' = [peer EXCEPT ![p].lost = TRUE]
    /\ closes' = closes \cup {p}
    /\ UNCHANGED <<told, sources, sorted, streams, pending, done, connects, changes, clones, feed,
                   input, released, cut, pc, job, removals>>

\* A client message: the peer wants another stream.  It knows of them from the
\* message that follows Insert.
ChooseStream(p, u) ==
    /\ Ready /\ peer[p].state = "open" /\ ~ peer[p].lost
    /\ Eager \/ p \notin connects
    /\ peer[p].asked < MaxChanges
    /\ peer' = [peer EXCEPT ![p].asked = @ + 1]
    /\ changes' = Append(changes, [peer |-> p, url |-> u])
    /\ UNCHANGED <<told, sources, sorted, streams, pending, done, connects, closes, clones, feed,
                   input, released, cut, pc, job, removals>>

\* Insert: onto the stream it asked for; without it the peer is removed.
Insert(p) ==
    LET u == peer[p].target IN
    /\ Ready /\ p \in connects
    /\ connects' = connects \ {p}
    /\ IF u \in Known
       THEN /\ streams' = [streams EXCEPT ![u].unseeded = @ \cup {p}, ![u].seeded = @ \ {p}]
            /\ sendAvailableStreamsToPeer(p)
            /\ UNCHANGED <<done, pending, clones>>
       ELSE removePeers({p}) /\ streams' = WithoutPeers(streams, {p}) /\ UNCHANGED told
    /\ peer' = [peer EXCEPT ![p].late = p \in done]
    /\ UNCHANGED <<sources, sorted, closes, changes, feed, input, released, cut, pc, job,
                   removals>>

\* Move, for a client; an unknown stream is answered with an error.
Move ==
    /\ Ready /\ changes # <<>>
    /\ changes' = Tail(changes)
    /\ LET c == Head(changes) IN
       streams' = IF c.url \in Known THEN [streams EXCEPT ![c.url].toAdd = @ \cup {c.peer}]
                  ELSE streams
    /\ UNCHANGED <<told, sources, sorted, pending, peer, done, connects, closes, clones, feed,
                   input, released, cut, pc, job, removals>>

ClosePeer(p) ==
    /\ Ready /\ p \in closes
    /\ closes' = closes \ {p}
    /\ removePeers({p}) /\ streams' = WithoutPeers(streams, {p})
    /\ UNCHANGED <<told, sources, sorted, peer, connects, changes, feed, input, released, cut, pc,
                   job, removals>>

-----------------------------------------------------------------------------
(* Sources *)

addSource(u) ==
    /\ Ready /\ u \notin sources
    /\ sources' = sources \cup {u}
    /\ UNCHANGED <<told, sorted, streams, pending, peer, done, queues, clones, feed, input,
                   released, cut, pc, job, removals>>

\* Variant: the peers on their way to the stream are forgotten.
RemoveStreamOnly(u) ==
    LET i == CHOOSE j \in 1 .. Len(sorted) : sorted[j] = u
        changeURL == IF i > 1 THEN sorted[i - 1] ELSE sorted[i + 1]
        left == [streams EXCEPT ![u] = NoStream]
    IN /\ sorted' = RemoveAt(sorted, i)
       /\ IF Len(sorted) > 1
          THEN streams' = [left EXCEPT ![changeURL].toAdd = @ \cup Tracks(u)] /\ UNCHANGED pending
          ELSE streams' = left /\ pending' = pending \cup Tracks(u)
       /\ released' = released \cup Buffered(u)

\* Remove: the peers of the stream are to move to its neighbour, or wait in
\* pendingPeers when it was the last.
RemoveStream(u) ==
    LET i == CHOOSE j \in 1 .. Len(sorted) : sorted[j] = u
        changeURL == IF i > 1 THEN sorted[i - 1] ELSE sorted[i + 1]
        moved == Tracks(u) \cup streams[u].toAdd
        left == [streams EXCEPT ![u] = NoStream]
    IN /\ sorted' = RemoveAt(sorted, i)
       /\ IF Len(sorted) > 1
          THEN streams' = [left EXCEPT ![changeURL].toAdd = @ \cup moved] /\ UNCHANGED pending
          ELSE streams' = left /\ pending' = pending \cup moved
       /\ released' = released \cup Buffered(u)

removeSource(u) ==
    /\ Ready /\ u \in sources /\ removals < MaxRemoved
    /\ removals' = removals + 1
    /\ sources' = sources \ {u}
    /\ IF u \in Known THEN RemoveStream(u) ELSE UNCHANGED <<sorted, streams, pending, released>>
    /\ sendAvailableStreams
    /\ UNCHANGED <<peer, done, queues, clones, feed, input, cut, pc, job>>

-----------------------------------------------------------------------------
(* Packets *)

Unchanged == [strs |-> streams, sorted |-> sorted, pending |-> pending, gone |-> {},
              freed |-> {}, listed |-> FALSE]
Resort(strs, urls) == sortURLsByResolution(urls, Resolutions(strs))

\* Add, with the first video packet: the waiting peers go to the new stream.
Add(u, p) ==
    LET strs == [streams EXCEPT ![u] = [NewStream(p) EXCEPT !.seeded = pending]]
    IN [Unchanged EXCEPT !.strs = strs, !.sorted = Resort(strs, Append(sorted, u)),
                         !.pending = {}, !.listed = TRUE]

\* Variant: the buffer is emptied, and its packets are not given back.
UpdateForgetsBuffer(u, p) ==
    LET old == streams[u]
        kept == [old EXCEPT !.par = p, !.buf = <<>>]
        s == IF p.type # old.par.type THEN NewStream(p) ELSE kept
        strs == [streams EXCEPT ![u] = s]
    IN [Unchanged EXCEPT !.strs = strs, !.sorted = Resort(strs, sorted), !.listed = TRUE,
            !.gone = IF p.type # old.par.type THEN Tracks(u) \cup old.toAdd ELSE {}]

\* Update: another codec type ends every peer of the stream; either way the
\* packets of the old parameters go.
Update(u, p) ==
    LET old == streams[u]
        kept == [old EXCEPT !.par = p, !.buf = <<>>]
        s == IF p.type # old.par.type THEN NewStream(p) ELSE kept
        strs == [streams EXCEPT ![u] = s]
    IN [Unchanged EXCEPT !.strs = strs, !.sorted = Resort(strs, sorted), !.listed = TRUE,
            !.gone = IF p.type # old.par.type THEN Tracks(u) \cup old.toAdd ELSE {},
            !.freed = Buffered(u)]

checkCodecParameters(u, video, p) ==
    IF u \notin sources \/ ~ video THEN Unchanged
    ELSE IF u \notin Known THEN Add(u, p)
    ELSE IF streams[u].par = p THEN Unchanged
    ELSE Update(u, p)

\* Variant: the last seeds are sent whatever they are.
canAddTrackToPeerAtOnce(buf, pkt, ts) ==
    LET b == GetBuffer(buf, ts)
        seeds == From(b.seed, Max({1, Len(b.seed) - Lookback + 1}))
    IN IF b.rest = <<>> THEN [ok |-> Key(pkt), buf |-> <<>>]
       ELSE [ok |-> TRUE, buf |-> seeds \o b.rest]

\* canAddTrackToPeer: the packets a peer that joins gets, and whether it may.
canAddTrackToPeer(buf, pkt, ts) ==
    LET b == GetBuffer(buf, ts)
        seeds == {i \in 1 .. Len(b.seed) : i > Len(b.seed) - Lookback /\ Key(b.seed[i])}
        rests == {i \in 1 .. Len(b.rest) : Key(b.rest[i])
                                           /\ Units(SubSeq(b.rest, 1, i - 1)) < Lookback}
    IN IF b.rest = <<>> THEN [ok |-> Key(pkt), buf |-> <<>>]
       ELSE IF seeds # {} THEN [ok |-> TRUE, buf |-> From(b.seed, Min(seeds)) \o b.rest]
       ELSE IF rests # {} THEN [ok |-> TRUE, buf |-> From(b.rest, Min(rests))]
       ELSE [ok |-> FALSE, buf |-> <<>>]

\* A sequence of packets is offered to a peer: feed and clones after that.
Offered(q, ps) ==
    LET videos == Picked(ps, {i \in 1 .. Len(ps) : Video(ps[i])})
        shown == [i \in 1 .. Len(videos) |->
                     [url |-> videos[i].url, vid |-> videos[i].vid, key |-> Key(videos[i])]]
    IN IF shown = <<>> THEN feed[q] ELSE <<Last(feed[q])>> \o shown

Pkt == job.pkt
Strm == streams[job.url]

\* A packet of a source, which comes with new parameters at a keyframe.
Packet(u, kind, p) ==
    LET pkt == [url |-> u, id |-> got[u] + 1, kind |-> kind, t |-> 2 * (got[u] + 1),
                vid |-> vid[u] + IF kind = "audio" THEN 0 ELSE 1]
    IN /\ got' = [got EXCEPT ![u] = pkt.id] /\ vid' = [vid EXCEPT ![u] = pkt.vid]
       /\ par' = [par EXCEPT ![u] = p]
       /\ \E c \in {checkCodecParameters(u, kind # "audio", p)} :
             /\ streams' = WithoutPeers(c.strs, c.gone) /\ sorted' = c.sorted
             /\ pending' = c.pending \ (c.gone \ done) /\ done' = done \cup c.gone
             /\ clones' = clones \ (c.gone \ done)
             /\ released' = released \cup c.freed
             /\ IF c.listed THEN sendAvailableStreams ELSE UNCHANGED told
       /\ pc' = "store" /\ job' = [url |-> u, pkt |-> pkt, todo |-> {}]

Receive(u) ==
    /\ Ready /\ MapThenSumSet(LAMBDA v : got[v], Urls) < MaxPkts
    /\ u \in sources \/ removals > 0
    /\ \/ \E kind \in {"key", "delta", "audio"} : Packet(u, kind, par[u])
       \/ /\ par[u].v < MaxPars
          /\ \E type \in Types, res \in Sizes :
                Packet(u, "key", [type |-> type, res |-> res, v |-> par[u].v + 1])
    /\ UNCHANGED <<sources, peer, queues, feed, cut, removals>>

\* writePacket: not for an unknown stream, and not before a keyframe.
Drop ==
    /\ pc = "store" /\ (Strm = NoStream \/ ~ Stores(Strm.buf, Pkt))
    /\ released' = released \cup Ids(<<Pkt>>)
    /\ pc' = "idle" /\ job' = NoJob
    /\ UNCHANGED <<told, sources, sorted, streams, pending, peer, done, queues, clones, feed,
                   input, cut, removals>>

Store ==
    /\ pc = "store" /\ Strm # NoStream /\ Stores(Strm.buf, Pkt)
    /\ \E after \in {AddPacket(Strm.buf, Pkt)} :
          LET dropped == Range(Append(Strm.buf, Pkt)) \ Range(after) IN
          /\ streams' = [streams EXCEPT ![job.url].buf = after]
          /\ released' = released \cup {<<q.url, q.id>> : q \in dropped}
          /\ cut' = cut \cup {<<q.url, q.vid>> : q \in
                       {r \in dropped : Video(r) /\ r.id > Head(after).id}}
    /\ pc' = "pending" /\ job' = [job EXCEPT !.todo = Strm.toAdd]
    /\ UNCHANGED <<told, sources, sorted, pending, peer, done, queues, clones, feed, input, removals>>

\* moveTrackToStream: the peer leaves every stream.  A closed peer comes to the
\* new one only if there is nothing to send before.
Alone(v, q) == [streams[v] EXCEPT !.seeded = @ \ {q}, !.unseeded = @ \ {q}]
Joined(q, buf) == [Without(Strm, {q}) EXCEPT
                      !.seeded = IF q \in done /\ buf # <<>> THEN @ ELSE @ \cup {q}]

moveTrackToStream(q, buf) ==
    [v \in Urls |-> IF v \notin Known THEN NoStream
                    ELSE IF v = job.url THEN Joined(q, buf) ELSE Alone(v, q)]

\* processPendingTracks, for one of the peers that are to join, at the time it is
\* behind.
processPendingTracks(q) ==
    /\ pc = "pending" /\ q \in job.todo
    /\ job' = [job EXCEPT !.todo = @ \ {q}]
    /\ \E ts \in Head(Strm.buf).t - 1 .. Pkt.t + 1 :
          \E c \in {canAddTrackToPeer(Strm.buf, Pkt, ts)} :
             IF ~ c.ok THEN UNCHANGED <<streams, feed, clones>>
             ELSE /\ streams' = moveTrackToStream(q, c.buf)
                  /\ IF q \in done \/ c.buf = <<>> THEN UNCHANGED <<feed, clones>>
                     ELSE /\ feed' = [feed EXCEPT ![q] = Offered(q, c.buf)]
                          /\ clones' = clones \cup {q}
    /\ UNCHANGED <<told, sources, sorted, pending, peer, done, queues, input, released, cut, pc,
                   removals>>

\* processExistingTracks: the seeded peers get the packet, the others are left
\* to seedTrack.
processExistingTracks ==
    LET open == Strm.seeded \ done IN
    /\ pc = "pending" /\ job.todo = {}
    /\ feed' = [q \in Peers |-> IF q \in open THEN Offered(q, <<Pkt>>) ELSE feed[q]]
    /\ clones' = clones \cup open
    /\ IF Strm.unseeded = {} THEN pc' = "idle" /\ job' = NoJob
       ELSE pc' = "seed" /\ UNCHANGED job
    /\ UNCHANGED <<told, sources, sorted, streams, pending, peer, done, queues, input, released, cut,
                   removals>>

\* seedTrack: the group that was running and the rest.  When the data channel
\* fails the peer is removed.  A send to a closed peer may go into its channel
\* or find it closed.
seedTrack(q) ==
    /\ pc = "seed" /\ q \in Strm.unseeded
    /\ IF q \in done
       THEN /\ streams' = [streams EXCEPT ![job.url].unseeded = @ \ {q}]
            /\ clones' \in {clones, clones \cup {q}}
            /\ UNCHANGED <<feed, done, pending>>
       ELSE \/ /\ \E ts \in Head(Strm.buf).t - 1 .. Pkt.t + 1 :
                    LET b == GetBuffer(Strm.buf, ts)
                    IN feed' = [feed EXCEPT ![q] = Offered(q, b.seed \o b.rest)]
               /\ streams' = [streams EXCEPT ![job.url].unseeded = @ \ {q},
                                             ![job.url].seeded = @ \cup {q}]
               /\ clones' = clones \cup {q}
               /\ UNCHANGED <<done, pending>>
            \/ /\ removePeers({q}) /\ streams' = WithoutPeers(streams, {q})
               /\ UNCHANGED feed
    /\ IF Strm.unseeded = {q} THEN pc' = "idle" /\ job' = NoJob ELSE UNCHANGED <<pc, job>>
    /\ UNCHANGED <<told, sources, sorted, peer, queues, input, released, cut, removals>>

\* Release: the peers of every stream and those that wait are removed; peers that
\* only have a move before them are not, nor those that did not come to Insert.
Release ==
    /\ Ready
    /\ LET all == pending \cup UNION {Tracks(u) : u \in Known} IN
       /\ removePeers(all)
       /\ streams' = [u \in Urls |-> IF u \in Known
                          THEN [WithoutPeers(streams, all)[u] EXCEPT !.buf = <<>>] ELSE NoStream]
    /\ released' = released \cup UNION {Buffered(u) : u \in Urls}
    /\ pc' = "closed"
    /\ UNCHANGED <<told, sources, sorted, peer, queues, feed, input, cut, job, removals>>

-----------------------------------------------------------------------------
Next ==
    \/ \E p \in Peers, u \in Urls : Connect(p, u) \/ ChooseStream(p, u)
    \/ \E p \in Peers : ChannelOpens(p) \/ ConnectionLost(p) \/ Insert(p) \/ ClosePeer(p)
                         \/ processPendingTracks(p) \/ seedTrack(p)
    \/ \E u \in Urls : addSource(u) \/ removeSource(u) \/ Receive(u)
    \/ Move \/ Drop \/ Store \/ processExistingTracks \/ Release

Spec == Init /\ [][Next]_vars

-----------------------------------------------------------------------------
(* Properties *)

Connected == {p \in Peers : peer[p].state = "open" /\ p \notin connects \cup done}

\* What a peer is offered can be decoded: every video packet is a keyframe,
\* follows the one offered before it in the same source, but for those the hard
\* cap took out, or is that very one again, as the packet at hand is for a peer
\* that joins (streams.go:578-583).  However peers connect, move, wait and come
\* back, and however parameters change.
FeedIsDecodable ==
    \A p \in Peers : \A i \in 2 .. Len(feed[p]) :
        LET r == feed[p][i - 1]
            q == feed[p][i]
        IN q.key \/ /\ q.url = r.url /\ q.vid >= r.vid
                    /\ \A v \in r.vid + 1 .. q.vid - 1 : <<q.url, v>> \in cut

\* A peer that was inserted and not removed is on a stream, on its way to one, or
\* waits for one, whatever sources went; on one stream at most, and it waits only
\* if there is none, which it was told.
PeersInOnePlace ==
    /\ pc # "closed" =>
          Connected \subseteq pending \cup UNION {Tracks(u) \cup streams[u].toAdd : u \in Known}
    /\ \A u, v \in Known : u # v => Tracks(u) \cap Tracks(v) = {}
    /\ pending # {} => Known = {}
    /\ pending \subseteq told

\* Every packet received is in the buffer of its stream or was given back, once.
Held == UNION {Buffered(u) : u \in Urls}
Received == UNION {{u} \X (1 .. got[u]) : u \in Urls}
PacketsReleasedOnce ==
    /\ released \cap Held = {}
    /\ pc = "store" \/ released \cup Held = Received

\* The channels of a peer that was inserted and then closed stay empty: while it
\* is seeded, moved, waits or gets packets, nothing is sent to it after it was
\* drained.  A peer that was closed before it came to Insert is left out.
ClosedPeersAreDrained == \A p \in done \cap clones : peer[p].late

\* Known not to hold: cloned packets do not leak (webrtc.go:521-523).  When a close
\* is taken before the connect, Insert puts the closed peer on a stream, seedTrack
\* fills its channels (streams.go:482-487), and the removePeer that follows
\* returns at once (524-528).
ClonesNeverLeak == done \cap clones = {}

\* What Update says: tracks are pinned to the negotiated codec type, so that a
\* peer is only ever on a stream of that type.
TracksMatchCodec ==
    \A u \in Known : \A p \in streams[u].seeded \ done : peer[p].type = streams[u].par.type

\* Known not to hold: a connected peer was sent the streams there are, after any
\* change (webrtc.go:276).  A peer that is between two streams is left out, as all
\* those of a source that was removed while there are others are.
ListsAreCurrent == \A p \in Connected : peer[p].lost \/ pc = "closed" \/ p \in told

\* What sortedStreams says: streams are sorted ascending by resolution.
StreamsAreSorted ==
    \A i \in 1 .. Len(sorted) - 1 : streams[sorted[i]].par.res <= streams[sorted[i + 1]].par.res
=============================================================================
