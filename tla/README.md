# gomedia: specifications, model checking and proofs

gomedia is a Go library that takes media from sources (RTSP cameras, MP4
files), hands the packets to writers (HLS, MP4 segments, WebRTC, RTSP) and
decodes or encodes them on the way.  Much of it is covered by unit tests.  What
tests hardly reach is what this directory is about: packets that share a ring
buffer between goroutines, goroutines that are started and closed in any order,
a reader that reconnects while it is told to stop, playlists that readers wait
on while the writer cuts, evicts and closes, a recorder in which any file
operation may fail, a connection on which answers and frames share the bytes,
and formats that must read back what was written over many boundaries.

Line numbers below are of the files under `src/`.

## 1. Inventory

| component | state | operations | interacts with |
|---|---|---|---|
| **ring allocator** `utils/buffer/ring_alloc.go` | byte slab, slot table with atomic reference counts, atomic `head` and `tail`, producer-only `write`; the current ring and a budget | `Alloc`, `Extend` (producer); `Retain`, `Release` (any goroutine); `GrowingRingAlloc` puts a larger ring in its place | depacketizers allocate; every packet type holds a `SlotHandle`; writers clone and release |
| **lifecycle managers** `utils/lifecycle` | two `sync.Once`, `stopChan`, `doneChan`, one goroutine | `Start`, `process`, `Close`, `Done`; strict, fail-safe and default variants | own the goroutine of every reader, writer, decoder and encoder; call `Step` and `Release` of the instance |
| **reader** `reader` | `dmxStoppers`, the packet channel, per URL one goroutine with two offset handlers | `Step` (add, remove, stop), `repackPackets`, `handleReadError`, `Release` | fail-safe manager; demuxers; the consumer of `Packets()` |
| **HLS muxer** `format/hls` | segment list, open segment and fragment, init versions, manifest, broadcast channel | `WritePacket`, `UpdateCodecParameters`, `Release`; blocking `GetIndexM3u8`, `GetSegment`, `GetFragment` | the HLS writer's Step; HTTP handlers as readers; fragmented MP4 |
| **HLS writer** `writer/hls` | parameters, muxers and uids by URL, variants and muxers by uid under a lock | `Step`, `checkCodPar`, `removeSrc`, `recalcManifest`, `GetMasterPlaylist`, lookups, `Release` | HLS muxers, HTTP handlers |
| **segmenter** `writer/segmenter` | record mode and status, per source a pre-buffer ring, an open file, session clocks, all under `streamsMu` | `Step` (mode, add, remove, event, packet), `Release` | MP4 muxer; fail-safe manager; consumers of `Files()` and `RecordCurStatus()` |
| **MP4** `format/mp4` | pending packets, last packet of each track, sample tables; cursors into the tables | `WritePacket`, `Flush`, `WriteTrailer`, `ReleasePending`; `Demux`, `ReadPacket` | segmenter; reader |
| **fragmented MP4** `format/fmp4` | streams with the packets of a fragment, sequence number | `Mux`, `WritePacket`, `GetMP4Fragment`, `GetInit` | HLS muxer |
| **RTP** `format/rtp` | pieces of a fragmented unit, the picture being put together, parameter sets, packet queue; MJPEG tables and fragments | `ReadPacket`, `Close` of the depacketizers; `WritePacket` of the muxers | growing rings; the RTSP demuxer |
| **RTSP** `format/rtsp` | connection, CSeq, credentials, channels, packet queue, timers | request and answer, `Demux`, `ReadPacket`, `Mux`, `WritePacket`, `Close` | reader, depacketizers, SDP |
| **RTSP writer** `writer/rtsp` | source, muxer, started | `Step`, `initMuxerFromVideoPacket`, `resetMuxer`, `Release` | RTSP muxer |
| **SDP** `utils/sdp` | none | `Generate`, `Parse` | RTSP |
| **WebRTC writer** `writer/webrtc` | streams sorted by resolution, each with tracks, peers to add and a GOP buffer; pending peers; per peer two channels of clones | `Step` on seven channels, `Add`, `Remove`, `Move`, `Insert`, `Update`, `writePacket`, `removePeer`, `sendAvailableStreams`, `Release` | fail-safe manager; pion callbacks send into its channels; per peer two goroutines pace the clones |
| **decoders, encoders** `decoder`, `encoder` | input and output channel, inner codec, its parameters; running, keyframe seen, frame rate; output clock | `Step`, `processPacket`, `startDecoder`, `stopDecoder`, `updateCodecPar`, `Release` | fail-safe manager; inner codecs around C libraries |
| pooled buffers, codecs, frame, nal, bits, resampling, logger | none that outlives a call, or bit layout only | conversion | |

### What is hard, and what makes each component correct

* *Ring allocator*: any number of goroutines release while the producer decides
  with values it loaded before.  Right means: a slot in use is never handed
  out, counted wrongly or passed by `head`, a finished one is never left
  behind, and a ring grows as long as it may.
* *Lifecycle*: `Start` and `Close` race, `startFunc` and `Step` fail or panic.
  Right means: one close of `doneChan`, nothing runs after `Release`, `Close`
  returns, and when it does the instance is released.
* *Reader*: stopping, sending and reconnecting overlap, the channel may be full
  for ever.  Right means: every packet has one owner until it is released once,
  timestamps rise over wraps and gaps, stopped goroutines end.
* *HLS muxer*: a playlist is a promise to players that read it later.  Right
  means: segments leave at the front only and are counted, tags tell the truth,
  what is listed can be fetched, readers come back.
* *HLS writer*: maps by URL and by uid are rebuilt from each other under a lock
  that blocking requests pass through.  Right means: what is listed is open and
  the source's own, and nobody who waits holds the rebuilding up.
* *Segmenter*: any of a dozen file operations can fail between two others, with
  a mutex held.  Right means: packets are owned once, files have no holes, the
  reports say what happened.
* *MP4 and fragmented MP4*: a sample's place is taken before it is written, its
  duration is known one packet later, fields are left to defaults.  Right means:
  what is read is what was written, and packets are released once also when a
  write fails half way.
* *RTP*: a frame comes in pieces, with parameter sets in between, in slots that
  grow or move.  Right means: frames are whole or not there, with the
  parameters in force, and slots are released once.
* *RTSP*: answers, frames and junk share one connection, any of four to six
  requests may fail or be challenged.  Right means: the reader never loses its
  step, comes back, and every connection has one muxer that closes it.
* *WebRTC writer*: the messages of one peer and the coming and going of sources
  are taken in no order.  Right means: what a peer gets can be decoded from its
  first packet on, a peer is on one stream or waits, a closed one holds nothing,
  packets are given back once.
* *Decoders and encoders*: an inner codec fails, is replaced or paused while packets
  come, and nobody may take what it makes.  Right means: nothing is decoded
  without its keyframe, encoded frames keep the time of their source, what is
  taken is released once.

`PROJECT.json` lists the hazards at their lines, with the properties that guard
them.

## 2. Modules

| module | models | abstract or composed with |
|---|---|---|
| `RingAlloc` | `RingAlloc` and `SlotHandle`: one action per atomic access or published write | implements `SharedRegions` (`Regions`, the mapping) |
| `SharedRegions` | the promise: regions that never overlap, obtained, grown, shared and dropped in single steps | |
| `RingAllocProofs` | theorems about `RingAlloc` and `GrowingRing`, and about `RTPReceiver`, whose packets live in slots | extends `ListProofs` |
| `GrowingRing` | rings that replace each other, each abstracted to its capacity and the window of its slots | |
| `Lifecycle` | the three managers in one module, `kind` chosen initially | |
| `LifecycleProofs` | theorems about `Lifecycle` and, since its managers run them, about `Coders` | extends `ListProofs` |
| `OffsetHandler` | the timestamp rewriting of one track, as operators | used by `Reader` |
| `Reader` | the `reader` and its goroutines | extends `OffsetHandler` |
| `ReaderProofs` | theorems about `Reader` and the handlers, and about `RTSPDemuxer` and `RTSPWriter` at its two ends | extends `ListProofs` |
| `HLSMuxer` | one muxer, its writer goroutine and its readers | |
| `HLSMuxerProofs` | theorems about `HLSMuxer` | extends `ListProofs` |
| `HLSWriter` | the writer's Step and its requests, over muxers that are open and playable or not | |
| `HLSWriterProofs` | theorems about `HLSWriter` | extends `ListProofs` |
| `ListProofs` | lemmas about `Min`, `Max`, lists of a set without duplicates, induction over finite sets, sums, and counts of elements | |
| `Segmenter` | the segmenter with the packets its MP4 muxers hold | |
| `SegmenterProofs` | theorems about `Segmenter` and about `MP4Muxer`, which writes its files | extends `ListProofs` |
| `MP4Muxer` | the muxer of a file with a writer that may fail | |
| `MP4Demuxer` | reading the file back, or one from elsewhere | extends `MP4Muxer` |
| `FragmentMuxer` | fragments with their defaults, and what a player reads in them | |
| `RTPPackets` | how access units are cut into payloads, as operators | used by `RTPReceiver` |
| `MJPEGFrames` | the JPEG headers made up for a frame, and what a player finds in them | used by `RTPReceiver` |
| `RTPReceiver` | the depacketizers, with the sender and a lossy path for MJPEG | extends both |
| `SDP` | descriptions, written and read | |
| `RTSPClient` | the control connection, and an external server | |
| `RTSPDemuxer` | `Demux`, `ReadPacket`, `Close` | extends `RTSPClient` and `SDP` |
| `RTSPWriter` | the writer and the muxer it makes | extends `RTSPClient` and `SDP` |
| `GoPBuffer` | the packet buffer of a WebRTC stream, as operators on sequences | used by `WebRTC` |
| `WebRTC` | the Step goroutine with the callbacks of its peers | extends `GoPBuffer` |
| `WebRTCProofs` | theorems about `WebRTC` and the buffer | extends `ListProofs` |
| `Coders` | video decoder, audio decoder and audio encoder, with a user that may stop taking | |
| `MCRingAlloc`, `MCHLSMuxer`, `MCSegmenter`, `MCWebRTC` | values for TLC, symmetry | |
| `MCFormats` | `HLSMuxer`, `RTPReceiver`, `MP4Demuxer`, `FragmentMuxer`, `GrowingRing` and `Coders`, each in behaviours of its own (`format`) | extends `MCHLSMuxer` and `Coders`, instantiates the others |
| `MCHLSWriter` | `HLSWriter`, `Lifecycle` and `HLSMuxer`, each in behaviours of its own (`role`) | instantiates them |
| `MCRTSP` | the demuxer and the writer over one client (`role`) | extends both |

In `MCFormats`, `MCHLSWriter` and `MCRTSP` a variable chosen initially says which
part moves; the others stay as they began.  Nothing interleaves that does not
in the code, and one configuration gives one state space per part.

Operators whose comment begins with `Variant`, and those whose name adds to that
of the operation after them what is wrong with it, are single plausible mistakes
in that operation.  They belong to no `Next`; each shows that a property can
tell the mistake from the code.

### RingAlloc
`slots`, `head`, `tail`, `write` are the fields of the struct.  `pc` and
`seenHead` are a goroutine's place and its local `head`, `req` the producer's
arguments and locals.  `owns` is what the code leaves to convention: which
goroutine holds how many handles.  Callers release a handle once and extend one
they own; that is how `codec` and the demuxers use them.  `newLap`, `lapped` and
`waste` are history.  Go's atomics are sequentially consistent, so an
interleaving of single accesses is what the machine can do.  A Release is five
actions, as is an Alloc that wraps.

### GrowingRing
A ring is its capacity, `tails` and the handles in use; it may refuse any request
but one that fits an untouched ring, and refuses nothing and more than it has.
The steps of growth and the floor of the budget keep the code's proportions in
units of a twentieth of a megabyte.  `refused` remembers what was refused under
what capacity and budget.  `Extend` changes none of this.

### Lifecycle
`startOnce` and `closeOnce` are `sync.Once` values that are fresh, busy or done;
a caller that meets a busy one waits.  `done` counts how often `close(doneChan)`
was executed, so that a double close shows as 2 and not as a disabled action.
Errors and panics of `startFunc` and `Step` are separate actions.

### OffsetHandler and Reader
A handler is a record of its four fields; `RecalcForGap` and `CheckTSWrap` floor
to the frame duration and to ten milliseconds as the code does.  `src` numbers
the goroutines ever started, because a URL added twice gives two; `dmxStoppers`
is the table.  The select of `repackPackets` is two actions that may both be
enabled.  A demuxer delivers any packet, error or panic.  The variable `late`
counts the packets sent by a goroutine that was already told to stop.

### HLSMuxer
`segs` keeps all segments ever made, `segIDs` the listed ones.  One `WritePacket`
call is a sequence of actions (settle, close, add, evict, append, publish,
broadcast), because readers run in between.  A fragment is its duration and
whether it is finished; a playlist entry what a player sees of a segment.
Readers capture the broadcast channel as the number of broadcasts so far.
Streams have a video track.

### HLSWriter
`bySrc` joins the maps by URL; `variants` is the master playlist and, by its uids,
`muxerIDs`.  Sources of one resolution are listed in any order, as Go's sort is not
stable.  `step` is where Step is, with the wait for the lock (`"lock"`) an
own place: a request that comes then waits behind it, as in Go's RWMutex.  A
request is its lookup and its wait in the muxer, or the two passes of
`GetMasterPlaylist`.  A muxer answers when it is playable or closed.  Parameters
with `ok = FALSE` are those no muxer takes.

### Segmenter
A packet is its source, number, kind, media time and parameter version.  Step is
divided at the calls that can fail.  `job` and `pc` are the message at hand and
the place in Step; `buf` is `bufferedPkts`; `infos` the files closed but not yet
sent.  `mu = "lost"` is the mutex that a recovered panic left locked.  Writing a
packet never fails here: the muxer refuses only an unknown track, and a track
that appears later closes the file first (670-684).  Byte limits are packet
limits, wall-clock limits are choices.

### MP4Muxer, MP4Demuxer
The file is a sequence of tokens, one for the header and one for each NAL unit or
piece of audio; a token is its packet and its place in it, so that a sample read
can be told from every other.  `stts` and `ctts` are runs, `stss`, `stco` and
`stsz` as in the code.  A failing write stops a direct flush after any token,
with the packets before it released and left as nil; `stage` remembers it.  The
reader has the code's cursors; a foreign file has chunks of several samples
with other bytes between them.  A file that lost bytes in a failing flush is
not read.

### FragmentMuxer
What a player reads is found in a fragment by the defaults of `tfhd` and the flags
of `trun`, and compared with what was accepted.  Words stand for bytes in the
length of a `moof`, from which data offsets are counted.

### RTPPackets, MJPEGFrames, RTPReceiver
A run of bytes of a NAL unit is a piece `[nal, from, to)`; a packet is intact when
its pieces join to the unit that was sent.  Payloads are made by the muxers of
this package or are a camera's aggregates and fragmented wrappers.  `d` is the
state of a depacketizer; `how` chooses at every allocation whether the ring has
room, whether a slot can grow in place, or the heap is used.  MJPEG fragments
may be lost or overtake each other; the other codecs come over TCP.  Headers
are checked by what a player knows when it comes to the scan.

### SDP, RTSPClient, RTSPDemuxer, RTSPWriter
A line of a description is a record of what stands between its separators; any
field with a slash is taken for a codec, so `Slashed` says which texts have a
number there.  `wire` is what the server has sent and the client has not read:
answers, bodies, headers of frames, payloads, junk.  A call is `"send"`, `"wait"`
and its outcome; the server, which is external, answers as asked, without the
headers, with an error, another CSeq or a challenge.  `upset` says that the
server has sent something that is no stream, after which order is not promised.
`quiet` counts clock ticks since the last packet, `due` is the ping's ticker.
`tracks` are the media set up, as the server sees them: `chan` and `depac` are what the
code keeps of them by kind, one channel and one depacketizer.  A medium overwrites
the channel of its kind before its codec is looked at, the depacketizer only when
the codec is supported.  A depacketizer that is replaced is not closed; what it
holds is external here.  `RTSPWriter` publishes one video track, as its code does.
`conn` is the connection of the last client made, `open` counts all that were dialled
for the writer and not closed, `left` those of them that a failed Mux forgot.

### GoPBuffer and WebRTC
The groups of the buffer are one sequence, cut before each keyframe; durations
are counted in video packets.  `streams[u]` is the record of a source, its
`tracks` map split in the peers seeded and those to be seeded.  A message other
than a packet is one action.  A packet is several: `Receive` (new parameters
included), `Drop` or `Store`, `processPendingTracks` for each peer that is to
join, `processExistingTracks`, `seedTrack` for each new peer; since only Step
looks at the streams, callbacks come between messages only.  The time a peer is
behind is any time from before the first packet kept to after the last.  `feed` is
what a Step offered a peer last, `clones` who has clones in its channels, `cut`
the packets the hard cap took, `told` the
peers whose last list of streams is the current one.  A connection may fail to
be made.  A full channel drops a clone in the code; that
is the network's kind of loss and is left out.  The channels of Step have no
bound here.

### Coders
The three kinds share their channels and their Release, so `coder` chooses one.  `at`
is where the goroutine is; since only it looks at its fields, a Step is one action
up to its send, which waits for room or for the stop channel.  `d` are the
fields.  An inner decoder is the parameters it was made for, whether its `Init`
succeeded, and the packets it was fed since; every call may fail.  An inner encoder
counts samples.  `d.open` counts the inner codecs that were made and not closed.
A frame skipped for the frame rate is one that was fed and made no picture.
`GiveBack` is the release of a packet; `SelectsStop` and `CloseCoder` are what the
code calls a break and Close, under names `Lifecycle` has not taken.

## 3. Runs

| run | module, configuration | shows | states, time |
|---|---|---|---|
| `ring` | `MCRingAlloc.cfg` | 3 invariants, 1 action property, 2 consumers, 3 slots | 30 s |
| `ring_refinement` | `MCRingAllocRefinement.cfg` | `RingAlloc` implements `SharedRegions`; a Release ends if allocations do | 30 s |
| `reader` | `Reader.cfg` | 3 invariants and `StoppedSourcesEnd` | 90 s |
| `formats` | `MCFormats.cfg` | HLS playlists (4 invariants, 1 action property), RTP frames, MP4 and fragmented MP4 read back, decoders and encoders, packets and slots owned once, growing rings | 2.9 M, 115 s |
| `hls_writer` | `MCHLSWriter.cfg` | the HLS writer (2 invariants, `ManifestIsRebuilt`), the managers (3 invariants, `CloseReturns`), a blocking reader of a muxer (`IndexReturns`) | 120 s |
| `segmenter` | `MCSegmenter.cfg` | 4 invariants, 2 sources, 1 fault | 150 s |
| `webrtc` | `MCWebRTC.cfg` | 4 invariants, 2 sources, 1 peer | 3.4 M, 65 s |
| `rtsp` | `MCRTSP.cfg` | `FramesInOrder`, `PacketsOwnedOnce`, `PublisherSound`, `ReadReturns` | 1.5 M, 150 s |
| `ring_overlap`, `hls_close`, `segmenter_codec`, `webrtc_codec` | | a comment the code does not keep, each by a short counterexample | seconds |

Some invariants of a run are conjunctions of what its parts promise:
`OwnedOnce` of `formats` is `GrowsToBudget`, `EvictedSlotsReleased` of `HLSMuxer`,
`SlotsOwnedOnce` of `RTPReceiver`, `PacketsReleasedOnce` of `MP4Muxer` and `CodersOwnOnce`,
`FileReadsBack` that of `MP4Demuxer` and `FragmentsRead`, `PublisherSound` is
`WriterSound`, and `FramesInOrder` includes that the media set up are those the
server described.

### Bounds
* Ring: `MaxTail` 6 with 3 slots of a slab of 3 bytes lets indices wrap around
  the table twice and the slab be filled, wasted and lapped; two consumers and
  the producer race for one swap.  The proofs have no bounds.  `ReleaseReturns` needs
  the bound: the loop is lock-free, not wait-free, and a Release swaps in vain when
  another one moves head, which can happen for ever only if slots are allocated
  for ever.
* Growing ring: four allocations of nothing, half a ring, more than a ring and
  more than the largest budget; the default budget, the floor and one between
  them; two slots.
* Lifecycle: three callers let a Start run while one Close waits and another
  comes late.  There is no other bound.
* Reader: three packets, two goroutines, a channel of one: a packet kept, one
  being sent, one in the channel; raw times 0 and 3 with a wrap limit of 2 make
  every fall a wrap and every rise none.
* HLS: six packets of one or two time units with a target of 2 give three
  segments or more, evictions, a wrap at 4 and one codec change; the three
  option sets are cut by time, by keyframe, and by keyframe with a cap.
  The blocking reader of `hls_writer` meets four packets of one unit.
* HLS writer: two sources, two resolutions and parameters that fail, three
  packets with a channel of one, one removal, one request at a time: a source
  may get, change and lose its muxer while the request waits in it.
* MP4: four packets in files of H.264 with AAC, of H.265 (a keyframe may have two
  slices) and of MJPEG; gaps that
  fall and gaps above the limit are the two durations, so that runs of two
  and changes of run both occur; five files with chunks of one to five samples.
* Fragments: four packets, with times that are rounded up, down and from the
  half; pairs with video of two codecs, audio alone, and an unsupported codec.
* RTP: three access units with an MTU of five, each read before the next is sent
  unless fragments may be lost (payloads are read in order whenever they are sent): slices of one payload and of
  four or five fragments, two slices in a picture, new parameter sets at any
  keyframe; two MJPEG faults.  `WrapperFrames` is FALSE: the keyframe in a
  camera's fragmented wrapper is not expected, as the code does not make it.
* RTSP: two frames (video and RTCP, or video and audio), two packets made, a
  limit of one tick, three sends of a call; a server that describes audio before video, or
  two audio media of which the second has an unknown codec, or media that are
  none; two sources, two packets, two commands for the writer.  `Schemes` has
  Digest only: a call then needs at most two sends, so the bound of three cuts nothing.  `Slashed` is empty: of
  the texts in these descriptions none has a number between slashes.
* Segmenter: five packets over two sources, one event, one mode change, one
  file error; a pre-buffer of three units and files of two units make it drain
  into more than one file.  Record modes start with `event` and change to
  `always`, which takes every branch.  The codec run has two versions instead
  of a second source.
* WebRTC: peers meet in no data but the sets they are members of, so one peer is
  enough; two sources give a neighbour to move to or none.  Four packets with a
  cap of two units and a target of one make the buffer drop whole groups and
  cut a single one.  Each source may change its parameters once, a peer choose
  once, and two sources be removed.  `Eager` is FALSE: a peer chooses a stream
  when it was told of the streams, which follows its Insert.  If it chose
  before, the two messages could be taken in the wrong order and
  `PeersInOnePlace` would fail; the code leaves that to the client.
  `Lookback` is 1 for 3, in step with the short buffer.
* Coders: three packets, two parameter sets and one without a codec, channels of one,
  a rate of zero and back: a restart, a pause and a keyframe in every order.
  Packets of three units in frames of two make one frame or two; a gap of 20
  passes the drift of 8.  `Stamps` is TRUE: the AAC encoder gives its frames the
  time of the source.

`CHECK_DEADLOCK FALSE` is set in all of them: each component may rest when
nobody calls it, and the bounds end every behaviour.

### Fairness
* Ring: weak fairness of the steps of a Release that has begun.  Nothing makes
  anybody allocate or release.  That allocations end is a bound of the run, not
  a promise of the code.
* Lifecycle: goroutines run and `startFunc`, `Step`, `Release` return; strong
  fairness of the stop branch, because a select picks among ready cases at
  random and so does not overlook one for ever.
* Reader: the goroutines run, `ReadPacket` returns (it has a deadline), sleeps
  end, and Step does not overlook the stop channel for ever.  The consumer is
  not fair: it may stop reading.
* HLS writer: Step takes the lock when it can, and a request that holds it for a
  lookup or a list goes on.  No muxer need ever answer.
* HLS readers: only the reader's own timeout is fair; the writer need not move.
* RTSP: the caller of `ReadPacket` runs and time passes.  The server need not
  send anything, and may send junk as fast as it is read.

## 4. Proofs

The proofs hold for all values of the constants that meet the assumptions named
in the modules: every slab and table size, every set of consumers, callers,
sources, tracks or peers, and whatever the bounds on steps the runs need.

**RingAlloc.**  Assumptions: the producer is no consumer, there are finitely many
consumers, the table has at least two slots (real: `ringSlotCount`), sizes are
naturals.  None of the properties is inductive.  `InductiveInvariant` adds what
each goroutine knows inside its call: a slot that was filled but not published
lies just behind the window; the head a goroutine saw is not ahead of the head;
after `ReleaseCheckRefs` said a slot is done, it stays so, as only an owner can
clone; the lap boundary `newLap` divides the window into two runs in which
regions rise.  The last part holds as long as `lapped` is false and gives that
regions are disjoint.  From it follow `TypeCorrectness`, `OwnedHandlesStayInWindow`,
`WindowFitsTable`, `CountsMatchOwners`, `RegionsDisjointUnlessLapped` and the action
property `HeadNeverSkipsLiveSlots`.

`NoAdvanceIsLost` needs one layer more, `DoneHeadIsSeen`:
whenever the slot at the head is done and the ring is not, some goroutine is in
a Release and has yet to look at that slot or to move the head past it; a swap that
fails means that another one succeeded, and that one looks again.
`RingImplementsSharedRegions` is the refinement, step by step: under `~ lapped` every
step of the ring is a step of `SharedRegions` or none.  It uses that regions in
use are disjoint, and that a fresh region is free.

**GrowingRing.**  Assumptions: the first ring has ten units at least, so that the tenth
it grows by is not zero (the encoders and depacketizers begin with 16 KiB and more, and a
unit is a byte), a megabyte is a number of units and windows are integers.  The budget is then the
largest capacity a policy allows, whichever was set, and `RingGrowsToBudget` says that
each ring is larger than the one before it, none is larger than the budget, and a request in vain
was nothing, more than the budget, or made when the ring had grown to it.

**RTPReceiver.**  Assumptions: the codecs are among the four of the model, and the
MTU has room for a byte behind the header of a fragment (the code takes
`DefaultMTU`, 1200, and sends a NAL unit whole under a smaller one than that).
`ReceiverInv` says that a slot's references are the packets in it that are queued, being put
together or with the caller, and that payloads on their way are lists.  What a depacketizer
does to its own part is one relation, `Keeps`: packets come, each in a slot of its own, move
and go, and what a slot has in references but not in packets stays.  It
is transitive, so it holds of a payload when it holds of each unit in it.
The model folds over the units of a payload, over the NAL units sent and, at
Close, over the queue; a fold is a choice of a function, so `FoldExists` shows that there is one and
`FoldedFolds` that what it gives comes of the steps one by one.  Close releases
what is queued and being put together and leaves the caller its own (`EmptiedRefs`).
`ReceiverOwnsSlots` follows, whatever is lost, overtaken or in error.

**Lifecycle.**  `InductiveInvariant` adds to the types who may be inside each `Once`
(one caller, and where), an account of `done` (one close for each of: a failed
strict start, a Close without a Start, a process that is over) and how far a
Close has come.  From it follow `TypeCorrectness`, `DoneChannelClosedOnce`,
`ReleaseIsLast` and `CloseWaitsForRelease`.

**Reader.**  Assumptions: times are integers, durations naturals, and the time
`Elapsed` from a packet to the end of the reconnection after it is longer than
the rounding, and than an audio packet and the rounding.  `handleReadError`
sleeps for a second at least before it connects again, so the code keeps to that; it is
needed: otherwise the first packet after a reconnection, put on the grid of the
last duration, can fall behind the one before.  The invariant has six layers:
`Shape`; `Stops` (a URL in the map has a goroutine of its own that was not told to
stop; one that was sends at most one packet more); `Control` (a handler has a
time when it keeps a packet, and the one in hand follows it); `Apart` (no
packet in two places); `Released1` (released once, when it left the last place);
`Order` (what was sent is behind what is kept, what is in hand and what the offset
of a reconnection allows).  From them follow `PacketsHaveOneOwner`,
`SourcesStop` and `TimestampsOnlyRise`.

**RTSPDemuxer and RTSPWriter.**  No assumption but that "nil", the mark of a nil packet, is no kind of video packet.
`DemuxerOwnsPackets`: of the packets that were made as many are queued as were not returned or
released, also when Close meets a nil in the queue and stops there.  The queue is a sequence whose nils
do not count; the lemmas on counts of `ListProofs` say how many of it
are real after a packet is appended or taken.  `PublisherOwnsPackets` and
`PublisherOwnsConnection` are two of the three parts of `PublisherSound`: a packet given to the writer is in
its channel, in hand or released, once; and between two steps the connections that are open are
that of the muxer, if there is one, and those that failed Muxes left, and the writer takes itself
for started just when there is a muxer.  That a failed Mux leaves none is not so (section 5).

**HLSWriter.**  Assumption: parameters have an id that is not zero, and a resolution.  `Shape` are
the types; `Listed` says that the sorted URLs are those of the map, each once;
`Owned` that a source with a muxer has one of its own, open until Close, and that no muxer is open
without its source; `Current` that the master playlist is made of the sorted URLs and
sorted by resolution whenever Step is not in the middle of a change; `Packets`
that the packets not released are those in the channel and the one in hand.  `MasterIsCurrent` and
`EveryPacketIsReleased` follow.

**HLSMuxer.**  Assumptions: no packet lasts longer than a segment should, and a cap is
none or at least the target duration, as `NewHLSMuxer` makes it (muxer.go:204-206).
The first is needed: a segment is cut before a packet that would make it too long,
and one packet is always taken.  `IInv` has eight layers.  `Shape` are the types;
`Control` says where the writer is: at which steps of `WritePacket` the segment at the
end is the current one and is empty, and when a fragment is full.  `Playlist`: the ids listed are those from
`mediaSequence` to the last, without a gap; all but the current one are ended; what is not
listed holds no slots.  `Manifest`: the playlist published last lists the segments it
began with, each as it is now unless it was still being written, and its two counters
are those of its first segment.  `Inits`: the versions of the listed segments are
kept.  `Keyframes`: a segment that is published as independent, or will be, begins with a
keyframe, or a cut between keyframes was noted, which takes the tag away for
good.  `Lengths`: a segment is not longer than its limit until a packet is added to
it, which is decided with the packet's duration.  `Eviction`: outside of it the closed segments
are as many, or last as long, as asked; inside it they do so still with the
segment it is about to drop, or it would not drop it.  By number it drops only what is
over the count and over the playlist's longest duration, so with the one dropped last the rest is
longer than that; the rest alone may be shorter (`PlaylistKeepsThreeTargets`, section 5).  From it follow
`IndependentSegments`, `TargetDuration`, `EvictionKeepsEnough`, `InitsAreKept` and `EvictionReleases`; and the action property
`PlaylistShrinksAtFront`, whose only step is the publication.

**Coders.**  Assumptions: durations are naturals, a frame has one that is not zero, a
packet lasts no longer than the drift allowed, and the source's
packets are at least their duration apart.  The drift is a second
(audio_encoder.go:24) and packets of sound last tens of milliseconds.  The
last is about the source: one that counts samples or adds up durations keeps to
it, and the clock of the encoder, which counts samples too, would run away from one that
does not.  What a reader rounds off once when the source's clock wraps is not
covered.  Of the theorems only `EncodedFollow` needs it.  `CoderIInv` has five parts.  `CoderShape` are the types.
`Queue`: packets are taken in the order they were sent, so the channel holds all after
`Taken`, of which one at most is in hand and the others were given back; at the end that is
all that were sent before Release.  `Outputs`: what is made waits in the batch, then in the
channel, in the order it was made, and each was received, given back, or is in one of them.
`Video`: an inner decoder that runs has the current parameters and was fed nothing, or
every packet from a keyframe to the last taken; one that is off is closed; and what each
frame was made by was so when it was made.  `Encoder`: the clock, with the samples that fill no frame yet, is less
than a packet and a frame ahead of its source (`Clock`).  This is what
`EncodedFollowSource` needs to be inductive: the clock may then be set back to the source, which it
is when they are more than the drift apart, only before the first frame
of a packet, when the source is ahead, and so the times rise.  From it follow `FramesAreDecodable`,
`CodersOwn` and, for `Stamps = {TRUE}`, `EncodedFollow`.  `Times`, the times of the frames of one packet, is a
recursive function: that there is one, and that it is a line from where the clock is
set, is shown by induction over its length.

**WebRTC.**  The invariant has `Shape`, `Noted` (a peer that is anywhere has a
connection), `Drained` (a closed peer with clones, or with tracks still to be
seeded, was closed before Insert) and `Buffers` (a buffer has packets of its source, no two of one id,
from a keyframe on; the packet in hand is in none).  From it follow `ClosedPeersStayDrained` and
`EveryPacketIsReleasedOnce`, for any caps: `AddPacketProperties` says of `AddPacket` that, whatever
the sizes, it keeps packets it had, the first of them a keyframe.
`PeersStayInOnePlace` assumes `~ Eager` and needs `Patient`: a peer is in no place before it
is inserted.  Each action is first brought to one of nine effects on the peers
(`Effect`, `StepEffect`); the properties are proved of the effects.

`FeedDecodable` states `FeedIsDecodable` under the same assumption, for any number of
sources, peers, groups and caps and for every look-back.  It is not inductive: what a peer may be sent
depends on what its stream holds and on what others were sent before.  `Ordered` says
of a buffer that its packets rise, in number and time, and that no video packet is missing from its first
to the last one stored, but for those cut; `Loaded` that it is not empty from `Store`
until the packet was sent on; `Fed` that an open peer seeded on a stream has every video packet
sent of it since its last keyframe, unless the buffer is empty (a keyframe comes next) or
the packet in hand is a keyframe.  Two facts carry it: `Starts`, what
`seedTrack` and `canAddTrackToPeer` take of a buffer is all its video packets from some
keyframe on (`SeedStarts`, `JoinStarts`), and such a run can be decoded after
anything and leaves nothing missing (`StartFeed`).  `Apart`, of `PeersInOnePlace`, is needed:
a peer on two streams gets packets of both in turn.  What is filtered from a buffer is
written with the ranks of the indices (`Picked`, `RankProperties`), because the prover cannot
use the recursive `SelectSeq`.

**Segmenter.**  Assumptions: the record modes are the three of the code, and a
pre-buffer lasts for a packet at least and has room for two.  The code has room for 128 by
count (segmenter.go:82-92) and, unless the whole budget is smaller, for 256 KB
(segmenter.go:73-75).  A single packet of more bytes than that, which makes
`enforceLimits` drop all the others but the first, is thus not covered.  None of the
four invariants is inductive.  `IInv` has `Shape`, `Control` (where Step is and
what it may find there; what accounts for the closed files) and, of each source:
`StreamFlow`, a stream that is recorded has an empty pre-buffer, and at each point of
Step what it needs is there, as an undamaged file while a pre-buffer is drained; `StreamOwners`, the
packets used have distinct ids up to the last that came, in one place, and
the others were given back; `StreamWhole`, the pre-buffer, what is drained and the file
hold every packet up to `Upto`, the last that has come to where it is kept, but for
those cut.  The file grows at its end only because the first packet to be
drained is the one after `Upto`.  `SegmenterProofs` has first what `add`, `trim` and
`enforceLimits` leave of a sequence, then the effects an action can have on one
stream, then one lemma for each action.  `PacketsHaveOneOwner`, `FilesAreWhole`,
`StatusIsOnWhileRecording` and `EveryFileIsReported` follow.

**MP4Muxer.**  Assumption: the codecs of a file are a sequence.  `MuxInvariant` says that a
packet's releases and its holders, the entries that are pending and the packets that wait in a
stream, are one together (`Held`), and that what waits in a stream is of that stream, as
`WriteTrailer` makes each packet its own successor.  A flush that is torn at an
entry has released just those before it (`CopiesTorn`); `WriteTrailer` takes the last packets
stream by stream, a fold, of which `CompletedExists` shows that there is such a function and
`CompletedHolds`, by induction over the streams, that it loses none.  `MuxerReleasesOnce` follows,
for any codecs, number of streams, flushes and failures.

**ListProofs.**  The least and the greatest element of a set of naturals exist for
finite sets, without induction; removing, appending and permuting keep a list
one of its set.  The library's induction needs an operator as parameter.  For a set
of naturals it does not: a set that has 0 and with each number the next has them all, since
otherwise its complement had a least element.  From it come induction over the subsets of a
finite set, and the laws of a sum over one (adding an element, two functions that agree):
a recursive function is the choice of one that satisfies its equation, so
`SumUnique` and `SumExists` have to show that there is one.

`TypeCorrectness` of RingAlloc and of Lifecycle, `OwnedHandlesStayInWindow` and
`WindowFitsTable` state properties that are in no configuration, since they are
proved.  `EvictionReleases`, `CodersOwn`, `RingGrowsToBudget`, `MuxerReleasesOnce` and
`ReceiverOwnsSlots` are the five conjuncts of `OwnedOnce`, `PublisherOwnsPackets` and `PublisherOwnsConnection` two of `PublisherSound`; all other theorems but the
inductive invariants state what a run also checks.

**Only model-checked**: all liveness (`ReleaseReturns`, `CloseReturns`,
`StoppedSourcesEnd`, `IndexReturns`, `ManifestIsRebuilt`, `ReadReturns`), since the
prover has no rule for fairness here; `FramesIntact` of `RTPReceiver`,
`FileReadsBack` of `MP4Demuxer` and `FragmentMuxer`, `FramesInOrder` of `RTSPDemuxer` and what `PublisherSound` says of the descriptions announced, which say what
recursive definitions over data (payloads, sample tables, descriptions) compute for
every input.  `OneCodecPerFile` of `Segmenter` does not hold and is stated by its run
of section 5 only.

## 5. Where the code differs from what it says

| run | the code | the comment |
|---|---|---|
| `ring_overlap` | a second wrap while the first lap is in use lays an allocation over owned bytes | ring_alloc.go:341-343 |
| `hls_close` | a reader panics in `getCurSegment` after Release | writer/hls/hls.go:370-371 |
| `segmenter_codec` | a file may hold packets of two parameter sets | segmenter.go:653-654 |
| `webrtc_codec` | a peer negotiated for one codec type is put on a stream of another | writer/webrtc/streams.go:42-43 |

Stated but kept out of the runs, since they are known not to hold; adding one of
them to a configuration of its component, with the value named here if any,
shows the trace:

* `DoneSlotsAreRecycled` (`RingAlloc`): a waste slot at the head of an idle ring is
  never recycled.
* `NothingLeftInChannel` (`Reader`): a goroutine in its select may still send after
  Release has drained the channel (reader.go:262-263).
* `IndexHasRequested` (`HLSMuxer`): a blocking request may get a playlist without
  what it waited for (muxer.go:618-620, 638-640).
* `PlaylistKeepsThreeTargets` (`HLSMuxer`): `evictByCount` drops the oldest segment while all of
  them last longer than three target durations, and does not ask whether those
  that stay do, as the comment wants them to (muxer.go:356-361).
* `EveryClosedFileReported`, `NoSlotsLeakAfterShutdown` (`Segmenter`): a mode change
  that fails halfway forgets the files it closed; a flush that fails in a drain
  forgets packets.
* `StreamsAreSorted` (`WebRTC`, with three sources of three sizes): when the first
  stream grows, the pass from the end stops before it (streams.go:21-22, 112-114).
* `ListsAreCurrent` (`WebRTC`): when a source is removed, its peers are moved to
  another stream first and are told nothing, although "every connected and
  pending peer" should be (webrtc.go:275-276, 284-301).
* `ClonesNeverLeak` (`WebRTC`): a peer whose close is taken before its connect is put on a
  stream by Insert and seeded (streams.go:482-487); the `removePeer` that follows
  returns at once, so the clones in its channels leak, which draining them is
  there to prevent (webrtc.go:521-528).  `ClosedPeersAreDrained` leaves this case out.
* `NothingGrowsNothing` (`GrowingRing`): a request of no bytes, as for an empty
  payload, is refused like one without room, and makes a larger ring
  (ring_alloc.go:183-199).  The comment on the default limit says 16 MB; it
  is 32 (ring_alloc.go:93-95).
* `MasterNeverEmpty` (`HLSWriter`): the master playlist counts the playable variants
  and lists them in a second pass; one that ceases to be playable in between
  leaves it empty (hls.go:328-334, 343-362).
* `RetriedOnce` (`RTSPClient`, with `"other"` or `"bare"` in `Schemes`): a challenge that is
  neither Digest nor Basic, or Digest without a realm, sends the call again without
  end (client.go:254-256, 269-281).  With both Digest and Basic, each is answered once.
* `OwnFramesOnly` (`RTSPDemuxer`): a medium with an unsupported codec that comes after one of its
  kind with a supported one takes its channel over; the depacketizer, still that of the first, is
  given the frames of the second and none of its own (demuxer.go:160-162, 188-190).
* `CloseClosesConnection` (`RTSPDemuxer`): a nil packet from a depacketizer is queued,
  and Close panics on it before it closes anything; so does the TEARDOWN after
  a TLS handshake that failed (demuxer.go:326, 390-396; client.go:464).
* `NoConnectionIsLeft`, `WrittenAsAnnounced` (`RTSPWriter`): a Mux that fails leaves its
  connection open; new parameters of the same codec are never announced.
* `ChannelsRoundTrip` (`SDP`): the channels of linear PCM are written and not read
  back (generator.go:12).  With a text in `Slashed`, `RoundTrips` fails as well: a
  control path or a parameter set in base64 with a number between slashes
  changes the clock rate (parser.go:168-171).
* `HeadersAlwaysRight` (`RTPReceiver`): after a loss, the restart interval of a
  dropped MJPEG frame goes to the next, and tables lost with the fragment that
  carried them are missing from the frames that rely on them.  With
  `WrapperFrames = TRUE`, `FramesIntact` fails: the keyframe in a fragmented
  wrapper is not found, as the wrapper's own start code is taken for a length.
* `LastPictureRead` (`MP4Demuxer`): the picture of the last H.265 sample stays in the
  reader when that sample first completed the picture before it: the demuxer
  asks streams that have samples left only (demuxer.go:63-72), so the flush of
  stream.go:311-317 is not reached.
* `EncodedFollowSource` (`Coders`, with `Stamps = {FALSE}`): the Opus and the A-law encoder
  give every frame the time zero, so the output clock never follows the source
  and falls back to zero whenever it has run for a second (audio_encoder.go:80-92,
  opus.go:114, alaw.go:101).
* `FramesReleased`, `DecodedByItsCodec` (`Coders`): a picture in hand when Close comes to a
  full channel is lost, and so, without a property, are encoded frames in hand or
  in the channel; audio parameters are kept though they have no decoder or its
  `Init` failed, so the next packet goes to the decoder that is there.
* `IndexesArePlaces` (`FragmentMuxer`): audio without video keeps its index 1 and is
  refused (fmp4/muxer.go:276, rtsp/demuxer.go:139).

Seen while modelling `WebRTC`, without a property of their own: a peer that joins a
stream is offered the packet at hand twice, from the buffer and as a track
(streams.go:578-583); the hard cap may give back the very packet that
`writePacket` goes on to clone, when a keyframe alone lasts longer than the cap
(buffer.go:89-94); Release leaves peers that only have a move before them;
`SortedResolutions` reads maps that Step writes; Insert never parks a peer,
unlike its comment (streams.go:258-260).  While modelling `Coders`: packets before the first
keyframe are skipped (video_decoder.go:114-117), though the comment says that they
are fed (video_decoder.go:93-95); `FramesDecodable` goes by the code.  While modelling
`RTPReceiver`: the sender of this package never makes an H.265 aggregation packet, which the
receiver drops (h265.go:193), so none is in the payloads.

## 6. Plan

Modelled so far, by what goes wrong most expensively: ring allocator, lifecycle,
reader, HLS muxer, segmenter, WebRTC writer, HLS writer, RTSP, RTP, MP4,
fragmented MP4, SDP, growing rings, decoders and encoders.  Next:

1. `PeerPacer`: the two goroutines of a WebRTC peer, with flushes that overtake
   packets.
2. Liveness of `Coders`: a coder that is told to stop comes to the end of Release
   though nobody takes what it makes.
3. `MP4Muxer` as what `Segmenter` assumes of it (`held`, `last`, `damaged`), by a
   refinement; `HLSMuxer` as what `HLSWriter` assumes of it.
4. The rest of `HLSMuxer`: `GetInitByVersion`, audio-only streams.

## 7. Not modelled

The layout of bits and boxes, and codecs (`codec`, `frame`, most of `utils`, the
serialisation in `format`), because they are sequential functions of bytes; C
libraries, with the inner codecs around them; files and networks beyond success
and failure; real time beyond the order of events.  Of WebRTC, the pacing
goroutines and the text of the signalling.  Examples, mocks and test data carry no
logic of the library.
