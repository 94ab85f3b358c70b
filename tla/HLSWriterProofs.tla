---------------------------- MODULE HLSWriterProofs ----------------------------
(***************************************************************************)
(* What HLSWriter guarantees for all sets of sources, parameters, requests *)
(* and bounds.  The inductive invariant has four layers: the shape of the  *)
(* state, the muxers of the sources, the master playlist as it was made of *)
(* the sorted URLs, and the packets not yet released.                      *)
(***************************************************************************)
EXTENDS HLSWriter, ListProofs, FunctionTheorems

-----------------------------------------------------------------------------
(* The inductive invariant *)

Steps    == {"idle", "lock", "check", "write", "drain", "empty", "closed"}
Ending   == {"drain", "empty", "closed"}
Packet   == [id : Nat \ {0}, url : Urls, par : VideoPars, video : BOOLEAN]
Pars     == VideoPars \cup {None}
SourceOf == [video : Pars, audio : Pars, mux : Nat, uid : Nat]
Muxer    == [url : Urls, open : BOOLEAN, playable : BOOLEAN]

\* The type of the state; there is a packet in hand while Step works on one.
Shape ==
    /\ step \in Steps
    /\ hand \in Packet \cup {NoPacket}
    /\ step \in {"check", "write"} => hand # NoPacket
    /\ step \in {"idle"} \cup Ending => hand = NoPacket
    /\ inpPktCh \in Seq(Packet)
    /\ muxers \in Seq(Muxer)
    /\ DOMAIN bySrc \subseteq Urls /\ bySrc \in [DOMAIN bySrc -> SourceOf]
    /\ sorted \in Seq(Urls)
    /\ uids \in Nat
    /\ fate \in [sent : Nat, live : SUBSET Nat, early : SUBSET Nat]

\* sortedURLs has the urls of the maps, each once.
Listed == Lists(sorted, DOMAIN bySrc)

\* A source with a muxer has an open one of its own until Close, and no muxer is
\* open without its source.
Owned ==
    /\ \A u \in DOMAIN bySrc : bySrc[u].mux # 0 =>
          /\ bySrc[u].mux \in DOMAIN muxers /\ muxers[bySrc[u].mux].url = u
          /\ step \notin Ending => muxers[bySrc[u].mux].open
          /\ bySrc[u].video # None
    /\ \A m \in DOMAIN muxers : muxers[m].open =>
          step \notin Ending /\ muxers[m].url \in DOMAIN bySrc /\ bySrc[muxers[m].url].mux = m

Sources == Listed /\ Owned

\* While it is not being changed, the master playlist is that of sortedURLs.
Current ==
    step \in {"idle", "check", "write"} =>
       /\ variants = WithMuxer(sorted)
       /\ \A i, j \in DOMAIN variants : i < j => Pixels(sorted[i]) <= Pixels(sorted[j])

\* The packets not released are those in the channel and the one in hand; when
\* the channel was found empty after Close, none from before Close was left.
Packets ==
    /\ {inpPktCh[i].id : i \in DOMAIN inpPktCh} \union ({hand.id} \ {0}) = fate.live
    /\ \A i, j \in DOMAIN inpPktCh : inpPktCh[i].id = inpPktCh[j].id => i = j
    /\ \A i \in DOMAIN inpPktCh : inpPktCh[i].id # hand.id
    /\ \A n \in fate.live : n <= fate.sent
    /\ \A n \in fate.early : n <= fate.sent
    /\ step \in {"empty", "closed"} => fate.early \cap fate.live = {}

IInv == Shape /\ Sources /\ Current /\ Packets

-----------------------------------------------------------------------------
(* The operators of the model *)

\* What Step notes is a source, and it keeps the muxer of the one that was there.
LEMMA NotedProperties ==
    ASSUME Shape, step = "check", NEW src, src = Noted(Source(hand.url), hand)
    PROVE  /\ hand \in Packet /\ hand.url \in Urls /\ hand.id # 0
           /\ src \in SourceOf
           /\ src.mux = Source(hand.url).mux
           /\ Source(hand.url).video # None => src.video # None
<1>1. hand \in Packet /\ hand # NoPacket
  BY DEF Shape
<1>2. hand.par \in VideoPars /\ hand.par # None /\ hand.url \in Urls
  BY <1>1, VideoParsAssumption DEF Packet, None
<1>3. Source(hand.url) \in SourceOf
  BY DEF Shape, Source, NewSource, SourceOf, Pars
<1>4. src \in SourceOf /\ src.mux = Source(hand.url).mux
  BY <1>2, <1>3 DEF Noted, SourceOf, Pars
<1>5. Source(hand.url).video # None => src.video # None
  BY <1>2, <1>3 DEF Noted, SourceOf
<1> QED
  BY <1>1, <1>2, <1>4, <1>5 DEF Packet

\* Assigning a source touches no other.
LEMMA SetProperties ==
    ASSUME Shape, NEW u \in Urls, NEW src \in SourceOf
    PROVE  /\ DOMAIN Set(u, src) = DOMAIN bySrc \cup {u}
           /\ Set(u, src) \in [DOMAIN Set(u, src) -> SourceOf]
           /\ Set(u, src)[u] = src
           /\ \A x \in DOMAIN bySrc : x # u => Set(u, src)[x] = bySrc[x]
  BY DEF Shape, Set

\* recalcManifest sorts: the urls are the same, each as often as before.
LEMMA ByResolutionProperties ==
    ASSUME Shape, Listed, NEW urls \in ByResolution(sorted)
    PROVE  /\ urls \in Seq(Urls) /\ Lists(urls, DOMAIN bySrc)
           /\ \A i, j \in DOMAIN urls : i < j => Pixels(urls[i]) <= Pixels(urls[j])
<1>1. PICK p \in [DOMAIN sorted -> DOMAIN sorted] :
         /\ \A i, j \in DOMAIN sorted : p[i] = p[j] => i = j
         /\ \A j \in DOMAIN sorted : \E i \in DOMAIN sorted : p[i] = j
         /\ urls = [i \in DOMAIN sorted |-> sorted[p[i]]]
  <2>1. PICK p \in Bijection(DOMAIN sorted, DOMAIN sorted) :
           urls = [i \in DOMAIN sorted |-> sorted[p[i]]]
    BY DEF ByResolution
  <2>2. /\ p \in [DOMAIN sorted -> DOMAIN sorted]
        /\ \A i, j \in DOMAIN sorted : p[i] = p[j] => i = j
        /\ \A j \in DOMAIN sorted : \E i \in DOMAIN sorted : p[i] = j
    BY DEF Bijection, Injection, Surjection, IsInjective
  <2> QED
    BY <2>1, <2>2
<1>2. urls \in Seq(Urls) /\ Lists(urls, DOMAIN bySrc)
  <2>1. sorted \in Seq(Urls) /\ DOMAIN bySrc \in SUBSET Urls /\ Lists(sorted, DOMAIN bySrc)
    BY DEF Shape, Listed
  <2> QED
    <3>1. /\ \A i \in DOMAIN sorted : sorted[p[i]] \in Urls
          /\ DOMAIN urls = DOMAIN sorted /\ \A i \in DOMAIN sorted : urls[i] = sorted[p[i]]
      BY <1>1, <2>1
    <3>2. urls \in Seq(Urls)
      <4>1. PICK n \in Nat : DOMAIN sorted = 1 .. n
        BY <2>1
      <4> QED
        BY <1>1, <3>1, <4>1
    <3> QED
      BY <1>1, <2>1, <3>1, <3>2, PermutedLists
<1>3. \A i, j \in DOMAIN urls : i < j => Pixels(urls[i]) <= Pixels(urls[j])
  BY DEF ByResolution
<1> QED
  BY <1>2, <1>3

-----------------------------------------------------------------------------
(* Shape *)

\* A new writer has the shape.
LEMMA ShapeInit == WriterInit => Shape
  BY DEF WriterInit, Shape, Steps, Ending, NoPacket, SourceOf

\* Every step of the writer, and of those who call it, keeps the shape.
LEMMA ShapeStep == Shape /\ Sources /\ [WriterNext]_hlsVars => Shape'
<1> SUFFICES ASSUME Shape, Sources, [WriterNext]_hlsVars PROVE Shape'
  OBVIOUS
<1>1. CASE TakePacket
  <2>1. inpPktCh \in Seq(Packet) /\ inpPktCh # <<>>
    BY <1>1 DEF Shape, TakePacket
  <2>2. Head(inpPktCh) \in Packet /\ Tail(inpPktCh) \in Seq(Packet)
    BY <2>1, HeadTailProperties
  <2>3. Head(inpPktCh) # NoPacket
    BY <2>2 DEF Packet, NoPacket
  <2> QED
    BY <1>1, <2>2, <2>3 DEF Shape, TakePacket, Steps, Ending
<1>2. CASE SameParameters
  BY <1>2 DEF Shape, SameParameters, Steps, Ending
<1>3. CASE NewParameters
  <2>1. PICK src : src = Noted(Source(hand.url), hand)
    OBVIOUS
  <2>2. step = "check" /\ AddUrl(hand.url) /\ (AudioOnly(src) \/ UpdateMuxer(src) \/ NewMuxer(src))
        /\ UNCHANGED <<inpPktCh, variants, removed, req>>
    BY <1>3, <2>1 DEF NewParameters
  <2>3. hand \in Packet /\ hand.url \in Urls /\ src \in SourceOf
    BY <2>1, <2>2, NotedProperties
  <2>4. sorted' \in Seq(Urls)
    <3>1. CASE sorted' = sorted
      BY <3>1 DEF Shape
    <3>2. CASE sorted' = Append(sorted, hand.url)
      BY <2>3, <3>2, AppendProperties DEF Shape
    <3> QED
      BY <2>2, <3>1, <3>2 DEF AddUrl
  <2>5. ASSUME NEW s \in SourceOf, bySrc' = Set(hand.url, s)
        PROVE  DOMAIN bySrc' \subseteq Urls /\ bySrc' \in [DOMAIN bySrc' -> SourceOf]
    BY <2>3, <2>5 DEF Set, Shape
  <2>6. CASE AudioOnly(src)
    BY <2>2, <2>3, <2>4, <2>5, <2>6 DEF AudioOnly, Shape, Steps, Ending
  <2>7. CASE UpdateMuxer(src)
    <3>1. uids' \in Nat /\ [src EXCEPT !.uid = uids'] \in SourceOf
      <4>1. PICK n \in Nat : n = uids'
        BY <2>7 DEF UpdateMuxer, Shape
      <4>2. [src EXCEPT !.uid = n] \in SourceOf
        BY <2>3 DEF SourceOf
      <4> QED
        BY <4>1, <4>2
    <3>2. muxers' \in Seq(Muxer)
      <4>1. PICK playable \in {FALSE, muxers[src.mux].playable} :
              muxers' = [muxers EXCEPT ![src.mux].playable = playable]
        BY <2>7 DEF UpdateMuxer
      <4>2. CASE src.mux \in DOMAIN muxers
        <5>1. muxers[src.mux] \in Muxer
          BY <4>2 DEF Shape
        <5>2. [muxers[src.mux] EXCEPT !.playable = playable] \in Muxer
          BY <5>1 DEF Muxer
        <5> QED
          BY <4>1, <4>2, <5>2, ExceptSeq DEF Shape
      <4>3. CASE src.mux \notin DOMAIN muxers
        <5>1. muxers' = muxers
          BY <4>1, <4>3 DEF Shape
        <5> QED
          BY <5>1 DEF Shape
      <4> QED
        BY <4>2, <4>3
    <3>3. bySrc' = Set(hand.url, [src EXCEPT !.uid = uids'])
      BY <2>7 DEF UpdateMuxer
    <3>4. DOMAIN bySrc' \subseteq Urls /\ bySrc' \in [DOMAIN bySrc' -> SourceOf]
      BY <2>5, <3>1, <3>3
    <3> QED
      BY <2>2, <2>3, <2>4, <2>7, <3>1, <3>2, <3>4 DEF UpdateMuxer, Shape, Steps, Ending
  <2>8. CASE NewMuxer(src) /\ src.video.ok /\ src.audio.ok
    <3>1. /\ uids' = uids + 1
          /\ muxers' = Append(muxers, [url |-> hand.url, open |-> TRUE, playable |-> FALSE])
          /\ bySrc' = Set(hand.url, [src EXCEPT !.mux = Len(muxers'), !.uid = uids'])
          /\ step' = "lock" /\ hand' = hand /\ fate' = fate
      BY <2>8 DEF NewMuxer
    <3>2. [url |-> hand.url, open |-> TRUE, playable |-> FALSE] \in Muxer
      BY <2>3 DEF Muxer
    <3>3. muxers' \in Seq(Muxer) /\ Len(muxers') \in Nat
      BY <3>1, <3>2, AppendProperties DEF Shape
    <3>4. uids' \in Nat /\ [src EXCEPT !.mux = Len(muxers'), !.uid = uids'] \in SourceOf
      <4>1. PICK n \in Nat : n = uids'
        BY <3>1 DEF Shape
      <4>2. PICK m \in Nat : m = Len(muxers')
        BY <3>3
      <4>3. [src EXCEPT !.mux = m, !.uid = n] \in SourceOf
        BY <2>3 DEF SourceOf
      <4> QED
        BY <4>1, <4>2, <4>3
    <3>5. DOMAIN bySrc' \subseteq Urls /\ bySrc' \in [DOMAIN bySrc' -> SourceOf]
      BY <2>5, <3>1, <3>4
    <3> QED
      BY <2>2, <2>3, <2>4, <3>1, <3>3, <3>4, <3>5 DEF Shape, Steps, Ending
  <2>9. CASE NewMuxer(src) /\ ~ (src.video.ok /\ src.audio.ok)
    <3>1. /\ bySrc' = Set(hand.url, src) /\ step' = "idle" /\ hand' = NoPacket
          /\ fate' = [fate EXCEPT !.live = @ \ {hand.id}] /\ muxers' = muxers /\ uids' = uids
      BY <2>9 DEF NewMuxer, Release
    <3>2. DOMAIN bySrc' \subseteq Urls /\ bySrc' \in [DOMAIN bySrc' -> SourceOf]
      BY <2>3, <2>5, <3>1
    <3>3. fate' \in [sent : Nat, live : SUBSET Nat, early : SUBSET Nat]
      BY <3>1 DEF Shape
    <3> QED
      BY <2>2, <2>4, <3>1, <3>2, <3>3 DEF Shape, Steps, Ending
  <2> QED
    BY <2>2, <2>6, <2>7, <2>8, <2>9
<1>4. CASE WritePacket
  <2>1. PICK m : m = Source(hand.url).mux
    OBVIOUS
  <2>2. muxers' = IF m = 0 THEN muxers ELSE [muxers EXCEPT ![m].playable = @ \/ hand.video]
    BY <1>4, <2>1 DEF WritePacket
  <2>3. muxers' \in Seq(Muxer)
    <3>1. CASE m # 0 /\ m \in DOMAIN muxers
      <4>1. muxers[m] \in Muxer
        BY <3>1 DEF Shape
      <4>2. [muxers[m] EXCEPT !.playable = @ \/ hand.video] \in Muxer
        BY <4>1 DEF Muxer
      <4> QED
        BY <2>2, <3>1, <4>2, ExceptSeq DEF Shape
    <3>2. CASE m = 0 \/ m \notin DOMAIN muxers
      <4>1. muxers' = muxers
        BY <2>2, <3>2 DEF Shape
      <4> QED
        BY <4>1 DEF Shape
    <3> QED
      BY <3>1, <3>2
  <2> QED
    BY <1>4, <2>3 DEF WritePacket, Release, Shape, Steps, Ending
<1>5. CASE RecalcManifest
  <2>1. PICK urls \in ByResolution(sorted) : sorted' = urls
    BY <1>5 DEF RecalcManifest, Recalc
  <2>2. sorted' \in Seq(Urls)
    BY <2>1, ByResolutionProperties DEF Sources
  <2> QED
    BY <1>5, <2>2 DEF RecalcManifest, Shape, Steps, Ending
<1>6. CASE CloseMuxers
  <2>1. muxers' \in Seq(Muxer)
    <3>1. PICK n \in Nat : DOMAIN muxers = 1 .. n /\ \A m \in 1 .. n : muxers[m] \in Muxer
      BY DEF Shape
    <3>2. \A m \in 1 .. n : [muxers[m] EXCEPT !.open = FALSE] \in Muxer
      BY <3>1 DEF Muxer
    <3>3. muxers' \in [1 .. n -> Muxer]
      BY <1>6, <3>1, <3>2 DEF CloseMuxers
    <3> QED
      BY <3>3
  <2> QED
    <3>1. fate' = [fate EXCEPT !.early = 1 .. fate.sent] /\ 1 .. fate.sent \in SUBSET Nat
      BY <1>6 DEF CloseMuxers, Shape
    <3>2. fate' \in [sent : Nat, live : SUBSET Nat, early : SUBSET Nat]
      BY <3>1 DEF Shape
    <3> QED
      BY <1>6, <2>1, <3>2 DEF CloseMuxers, Shape, Steps, Ending
<1>7. CASE Drain
  <2>1. CASE inpPktCh = <<>>
    BY <1>7, <2>1 DEF Drain, Shape, Steps, Ending
  <2>2. CASE inpPktCh # <<>>
    <3>1. Tail(inpPktCh) \in Seq(Packet)
      BY <2>2, HeadTailProperties DEF Shape
    <3>2. fate' \in [sent : Nat, live : SUBSET Nat, early : SUBSET Nat]
      BY <1>7, <2>2 DEF Drain, Release, Shape
    <3> QED
      BY <1>7, <2>2, <3>1, <3>2 DEF Drain, Shape, Steps, Ending
  <2> QED
    BY <2>1, <2>2
<1>8. CASE CloseChannel
  BY <1>8 DEF CloseChannel, Shape, Steps, Ending
<1>9. CASE Send
  <2>1. PICK u \in Urls, par \in VideoPars, video \in BOOLEAN :
          inpPktCh' = Append(inpPktCh, [id |-> fate.sent + 1, url |-> u, par |-> par, video |-> video])
    BY <1>9 DEF Send
  <2>2. [id |-> fate.sent + 1, url |-> u, par |-> par, video |-> video] \in Packet
    BY DEF Shape, Packet
  <2>3. inpPktCh' \in Seq(Packet)
    BY <2>1, <2>2, AppendProperties DEF Shape
  <2>4. fate' \in [sent : Nat, live : SUBSET Nat, early : SUBSET Nat]
    <3>1. PICK n \in Nat : n = fate.sent
      BY DEF Shape
    <3>2. fate' = [fate EXCEPT !.sent = @ + 1, !.live = @ \cup {n + 1}]
      BY <1>9, <3>1 DEF Send
    <3>3. fate.sent + 1 \in Nat /\ fate.live \cup {n + 1} \in SUBSET Nat
      BY <3>1 DEF Shape
    <3> QED
      BY <3>2, <3>3 DEF Shape
  <2> QED
    BY <1>9, <2>3, <2>4 DEF Send, Shape
<1>10. CASE \E u \in Urls : RemoveSrc(u)
  <2>1. PICK u \in Urls : RemoveSrc(u)
    BY <1>10
  <2>2. muxers' \in Seq(Muxer)
    <3>1. PICK m : m = Source(u).mux
      OBVIOUS
    <3>2. muxers' = IF m = 0 THEN muxers ELSE [muxers EXCEPT ![m].open = FALSE]
      BY <2>1, <3>1 DEF RemoveSrc
    <3>3. CASE m # 0 /\ m \in DOMAIN muxers
      <4>1. muxers[m] \in Muxer
        BY <3>3 DEF Shape
      <4>2. [muxers[m] EXCEPT !.open = FALSE] \in Muxer
        BY <4>1 DEF Muxer
      <4>3. muxers \in Seq(Muxer) /\ muxers' = [muxers EXCEPT ![m] = [muxers[m] EXCEPT !.open = FALSE]]
        BY <3>2, <3>3 DEF Shape
      <4> QED
        BY <3>3, <4>2, <4>3, ExceptSeq
    <3>4. CASE m = 0 \/ m \notin DOMAIN muxers
      <4>1. muxers' = muxers
        BY <3>2, <3>4 DEF Shape
      <4> QED
        BY <4>1 DEF Shape
    <3> QED
      BY <3>3, <3>4
  <2>3. sorted' \in Seq(Urls)
    <3>1. CASE \E i \in DOMAIN sorted : sorted' = RemoveAt(sorted, i)
      <4>1. PICK i \in DOMAIN sorted : sorted' = RemoveAt(sorted, i)
        BY <3>1
      <4>2. sorted \in Seq(Urls) /\ i \in 1 .. Len(sorted)
        BY DEF Shape
      <4> QED
        BY <4>1, <4>2, RemoveAtProperties
    <3>2. CASE sorted' = sorted
      BY <3>2 DEF Shape
    <3> QED
      BY <2>1, <3>1, <3>2 DEF RemoveSrc
  <2>4. DOMAIN bySrc' \subseteq Urls /\ bySrc' \in [DOMAIN bySrc' -> SourceOf]
    BY <2>1 DEF RemoveSrc, Shape
  <2> QED
    BY <2>1, <2>2, <2>3, <2>4 DEF RemoveSrc, Shape, Steps, Ending
<1>11. CASE UNCHANGED <<writerVars, muxers>>
  BY <1>11 DEF writerVars, Shape
<1> QED
  BY <1>1, <1>2, <1>3, <1>4, <1>5, <1>6, <1>7, <1>8, <1>9, <1>10, <1>11
  DEF WriterNext, StepAction, CheckCodPar, ReleaseLock, RLock, Lookup, Count, List, Answer, hlsVars

-----------------------------------------------------------------------------
(* Sources *)

\* A new writer has no sources.
LEMMA SourcesInit == WriterInit => Sources
  BY DEF WriterInit, Sources, Listed, Lists, Owned

\* Nothing changes for the sources if no muxer is opened, closed or given away.
LEMMA SourcesKept ==
    ASSUME Sources, bySrc' = bySrc, sorted' = sorted,
           DOMAIN muxers' = DOMAIN muxers,
           \A m \in DOMAIN muxers : muxers'[m].url = muxers[m].url /\ muxers'[m].open = muxers[m].open,
           step' \in Ending <=> step \in Ending
    PROVE  Sources'
  BY DEF Sources, Listed, Owned

\* A URL that is added appears once in the sorted list.
LEMMA ListedWhenAdded ==
    ASSUME Shape, Listed, NEW u \in Urls, AddUrl(u), DOMAIN bySrc' = DOMAIN bySrc \cup {u}
    PROVE  Listed'
<1>1. CASE u \in DOMAIN bySrc
  <2>1. sorted' = sorted /\ DOMAIN bySrc' = DOMAIN bySrc
    BY <1>1 DEF AddUrl
  <2> QED
    BY <2>1 DEF Listed
<1>2. CASE u \notin DOMAIN bySrc
  <2>1. sorted' = Append(sorted, u)
    BY <1>2 DEF AddUrl
  <2> QED
    <3>1. sorted \in Seq(Urls) /\ DOMAIN bySrc \in SUBSET Urls /\ Lists(sorted, DOMAIN bySrc)
      BY DEF Shape, Listed
    <3>2. Lists(Append(sorted, u), DOMAIN bySrc \cup {u})
      BY <1>2, <3>1, AppendLists
    <3> QED
      BY <2>1, <3>2 DEF Listed
<1> QED
  BY <1>1, <1>2

\* A URL that is removed leaves the list.
LEMMA ListedWhenRemoved ==
    ASSUME Shape, Listed, NEW u \in Urls, RemoveSrc(u)
    PROVE  Listed'
<1>1. DOMAIN bySrc' = DOMAIN bySrc \ {u}
  BY DEF RemoveSrc
<1>2. CASE sorted' = sorted /\ ~ Contains(sorted, u)
  <2>1. u \notin DOMAIN bySrc
    <3>1. \A i \in 1 .. Len(sorted) : sorted[i] # u
      BY <1>2 DEF Contains
    <3>2. DOMAIN sorted = 1 .. Len(sorted)
      BY DEF Shape
    <3> QED
      BY <3>1, <3>2 DEF Listed, Lists
  <2> QED
    BY <1>1, <1>2, <2>1 DEF Listed
<1>3. ASSUME NEW i \in DOMAIN sorted, sorted[i] = u, sorted' = RemoveAt(sorted, i)
      PROVE  Listed'
  <2>1. i \in 1 .. Len(sorted)
    BY DEF Shape
  <2> QED
    <3>1. sorted \in Seq(Urls) /\ DOMAIN bySrc \in SUBSET Urls /\ Lists(sorted, DOMAIN bySrc)
      BY DEF Shape, Listed
    <3>2. Lists(RemoveAt(sorted, i), DOMAIN bySrc \ {sorted[i]})
      BY <2>1, <3>1, RemoveAtLists
    <3> QED
      BY <1>1, <1>3, <3>2 DEF Listed
<1> QED
  BY <1>2, <1>3 DEF RemoveSrc

\* The source of the packet in hand is as it was, but for its parameters and,
\* if the muxer is new, for the muxer.
LEMMA OwnedWhenNoted ==
    ASSUME Shape, Owned, NEW u \in Urls, NEW src \in SourceOf, bySrc' = Set(u, src),
           DOMAIN muxers' = DOMAIN muxers,
           \A m \in DOMAIN muxers : muxers'[m].url = muxers[m].url /\ muxers'[m].open = muxers[m].open,
           src.mux = Source(u).mux, src.mux # 0 => src.video # None,
           step \notin Ending, step' \notin Ending
    PROVE  Owned'
<1>1. /\ DOMAIN bySrc' = DOMAIN bySrc \cup {u} /\ bySrc'[u] = src
      /\ \A x \in DOMAIN bySrc : x # u => bySrc'[x] = bySrc[x]
  BY SetProperties
<1>2. src.mux # 0 => u \in DOMAIN bySrc /\ bySrc[u].mux = src.mux
  BY DEF Source, NewSource
<1>3. u \in DOMAIN bySrc => bySrc[u].mux = src.mux
  BY DEF Source
<1>4. ASSUME NEW x \in DOMAIN bySrc', bySrc'[x].mux # 0
      PROVE  /\ bySrc'[x].mux \in DOMAIN muxers' /\ muxers'[bySrc'[x].mux].url = x
             /\ muxers'[bySrc'[x].mux].open
             /\ bySrc'[x].video # None
  <2>1. x \in DOMAIN bySrc /\ bySrc[x].mux = bySrc'[x].mux
    BY <1>1, <1>2, <1>4
  <2> QED
    BY <1>1, <1>4, <2>1 DEF Owned
<1>5. ASSUME NEW m \in DOMAIN muxers', muxers'[m].open
      PROVE  muxers'[m].url \in DOMAIN bySrc' /\ bySrc'[muxers'[m].url].mux = m
  BY <1>1, <1>3, <1>5 DEF Owned
<1> QED
  BY <1>4, <1>5 DEF Owned

\* A muxer just made belongs to the source it was made for.
LEMMA OwnedWhenMade ==
    ASSUME Shape, Owned, NEW u \in Urls, NEW src \in SourceOf, NEW new \in Muxer,
           muxers' = Append(muxers, new), new.url = u, new.open,
           bySrc' = Set(u, src), src.mux = Len(muxers'), src.video # None,
           Source(u).mux = 0, step \notin Ending, step' \notin Ending
    PROVE  Owned'
<1>1. /\ DOMAIN bySrc' = DOMAIN bySrc \cup {u} /\ bySrc'[u] = src
      /\ \A x \in DOMAIN bySrc : x # u => bySrc'[x] = bySrc[x]
  <2>1. /\ DOMAIN Set(u, src) = DOMAIN bySrc \cup {u}
        /\ \A x \in DOMAIN bySrc : x # u => Set(u, src)[x] = bySrc[x]
    BY DEF Set
  <2>2. Set(u, src)[u] = src
    BY DEF Set
  <2> QED
    BY <2>1, <2>2
<1>2. PICK n \in Nat : n = Len(muxers) /\ DOMAIN muxers = 1 .. n
  BY DEF Shape
<1>3. /\ DOMAIN muxers' = 1 .. n + 1 /\ Len(muxers') = n + 1 /\ muxers'[n + 1] = new
      /\ \A m \in 1 .. n : muxers'[m] = muxers[m]
  BY <1>2, AppendProperties DEF Shape
<1>4. \A m \in 1 .. n + 1 : m = n + 1 \/ m \in 1 .. n
  BY <1>2
<1>5. 1 .. n \subseteq 1 .. n + 1 /\ n + 1 \in 1 .. n + 1
  BY <1>2
<1>6. ASSUME NEW x \in DOMAIN bySrc', bySrc'[x].mux # 0
      PROVE  /\ bySrc'[x].mux \in DOMAIN muxers' /\ muxers'[bySrc'[x].mux].url = x
             /\ muxers'[bySrc'[x].mux].open
             /\ bySrc'[x].video # None
  <2>1. CASE x = u
    BY <1>1, <1>3, <1>5, <2>1
  <2>2. CASE x # u
    <3>1. x \in DOMAIN bySrc /\ bySrc'[x] = bySrc[x]
      BY <1>1, <2>2
    <3>2. bySrc[x].mux \in 1 .. n
      BY <1>2, <1>6, <3>1 DEF Owned
    <3> QED
      BY <1>3, <1>5, <1>6, <3>1, <3>2 DEF Owned
  <2> QED
    BY <2>1, <2>2
<1>7. ASSUME NEW m \in DOMAIN muxers', muxers'[m].open
      PROVE  muxers'[m].url \in DOMAIN bySrc' /\ bySrc'[muxers'[m].url].mux = m
  <2>1. CASE m = n + 1
    BY <1>1, <1>3, <2>1
  <2>2. CASE m \in 1 .. n
    <3>1. /\ muxers'[m] = muxers[m] /\ muxers[m].url \in DOMAIN bySrc
          /\ bySrc[muxers[m].url].mux = m
      BY <1>2, <1>3, <1>7, <2>2 DEF Owned
    <3>2. muxers[m].url # u
      BY <1>2, <2>2, <3>1 DEF Source
    <3> QED
      BY <1>1, <3>1, <3>2
  <2> QED
    BY <1>3, <1>4, <2>1, <2>2
<1> QED
  BY <1>6, <1>7 DEF Owned

\* A removed source leaves no open muxer behind.
LEMMA OwnedWhenRemoved ==
    ASSUME Shape, Owned, NEW u \in Urls, RemoveSrc(u)
    PROVE  Owned'
<1>1. PICK k : k = Source(u).mux
  OBVIOUS
<1>2. /\ muxers' = IF k = 0 THEN muxers ELSE [muxers EXCEPT ![k].open = FALSE]
      /\ bySrc' = [x \in DOMAIN bySrc \ {u} |-> bySrc[x]]
      /\ step = "idle" /\ step' = "lock"
  BY <1>1 DEF RemoveSrc
<1>3. k # 0 => k \in DOMAIN muxers /\ muxers[k].url = u /\ u \in DOMAIN bySrc /\ bySrc[u].mux = k
  BY <1>1 DEF Source, NewSource, Owned
<1>4. \A m \in DOMAIN muxers : muxers[m] \in Muxer
  BY DEF Shape
<1>5. /\ DOMAIN muxers' = DOMAIN muxers
      /\ \A m \in DOMAIN muxers : m # k => muxers'[m] = muxers[m]
      /\ k # 0 => ~ muxers'[k].open
  <2>1. CASE k = 0
    BY <1>2, <2>1
  <2>2. CASE k # 0
    <3>1. muxers' = [muxers EXCEPT ![k].open = FALSE] /\ k \in DOMAIN muxers /\ muxers[k] \in Muxer
      BY <1>2, <1>3, <1>4, <2>2
    <3> QED
      BY <3>1 DEF Muxer, Shape
  <2> QED
    BY <2>1, <2>2
<1>6. ASSUME NEW x \in DOMAIN bySrc', bySrc'[x].mux # 0
      PROVE  /\ bySrc'[x].mux \in DOMAIN muxers' /\ muxers'[bySrc'[x].mux].url = x
             /\ muxers'[bySrc'[x].mux].open
             /\ bySrc'[x].video # None
  <2>1. x \in DOMAIN bySrc /\ x # u /\ bySrc'[x] = bySrc[x]
    BY <1>2
  <2>2. /\ bySrc[x].mux \in DOMAIN muxers /\ muxers[bySrc[x].mux].url = x
        /\ muxers[bySrc[x].mux].open /\ bySrc[x].video # None
    BY <1>2, <1>6, <2>1 DEF Owned, Ending
  <2>3. bySrc[x].mux # k
    BY <1>3, <1>6, <2>1, <2>2
  <2> QED
    BY <1>5, <2>1, <2>2, <2>3
<1>7. ASSUME NEW m \in DOMAIN muxers', muxers'[m].open
      PROVE  muxers'[m].url \in DOMAIN bySrc' /\ bySrc'[muxers'[m].url].mux = m
  <2>1. m # k
    BY <1>3, <1>5, <1>7, 0 \notin DOMAIN muxers DEF Shape
  <2>2. /\ muxers'[m] = muxers[m] /\ muxers[m].url \in DOMAIN bySrc
        /\ bySrc[muxers[m].url].mux = m
    BY <1>5, <1>7, <2>1 DEF Owned
  <2>3. muxers[m].url # u
    BY <1>1, <2>1, <2>2 DEF Source
  <2> QED
    BY <1>2, <2>2, <2>3
<1> QED
  BY <1>2, <1>6, <1>7 DEF Owned, Ending

\* Every step keeps the sources, their list and their muxers together.
LEMMA SourcesStep == Shape /\ Sources /\ [WriterNext]_hlsVars => Sources'
<1> SUFFICES ASSUME Shape, Sources, [WriterNext]_hlsVars PROVE Sources'
  OBVIOUS
<1>1. CASE TakePacket
  BY <1>1, SourcesKept DEF TakePacket, Ending
<1>2. CASE SameParameters
  BY <1>2, SourcesKept DEF SameParameters, Ending
<1>3. CASE NewParameters
  <2>1. PICK src : src = Noted(Source(hand.url), hand)
    OBVIOUS
  <2>2. PICK u : u = hand.url
    OBVIOUS
  <2>3. step = "check" /\ AddUrl(u) /\ (AudioOnly(src) \/ UpdateMuxer(src) \/ NewMuxer(src))
    BY <1>3, <2>1, <2>2 DEF NewParameters
  <2>4. /\ u \in Urls /\ src \in SourceOf /\ src.mux = Source(u).mux
        /\ Source(u).video # None => src.video # None
    BY <2>1, <2>2, <2>3, NotedProperties
  <2>5. src.mux # 0 => src.video # None
    BY <2>4 DEF Sources, Owned, Source, NewSource
  <2>6. ASSUME NEW s \in SourceOf, bySrc' = Set(u, s)
        PROVE  Listed'
    BY <2>3, <2>4, <2>6, SetProperties, ListedWhenAdded DEF Sources
  <2>7. CASE AudioOnly(src)
    <3>1. bySrc' = Set(u, src) /\ muxers' = muxers /\ step' = "lock"
      BY <2>2, <2>7 DEF AudioOnly
    <3>2. Owned'
      BY <2>3, <2>4, <2>5, <3>1, OwnedWhenNoted DEF Sources, Ending
    <3> QED
      BY <2>4, <2>6, <3>1, <3>2 DEF Sources
  <2>8. CASE UpdateMuxer(src)
    <3>1. PICK n \in Nat : n = uids'
      BY <2>8 DEF UpdateMuxer, Shape
    <3>2. PICK s : s = [src EXCEPT !.uid = n]
      OBVIOUS
    <3>3. s \in SourceOf /\ s.mux = src.mux /\ s.video = src.video
      BY <2>4, <3>2 DEF SourceOf
    <3>4. bySrc' = Set(u, s) /\ step' = "lock"
      BY <2>2, <2>8, <3>1, <3>2 DEF UpdateMuxer
    <3>5. PICK playable \in {FALSE, muxers[src.mux].playable} :
            muxers' = [muxers EXCEPT ![src.mux].playable = playable]
      BY <2>8 DEF UpdateMuxer
    <3>6. \A m \in DOMAIN muxers : muxers[m] \in Muxer
      BY DEF Shape
    <3>7. /\ DOMAIN muxers' = DOMAIN muxers
          /\ \A m \in DOMAIN muxers : muxers'[m].url = muxers[m].url /\ muxers'[m].open = muxers[m].open
      BY <3>5, <3>6 DEF Muxer, Shape
    <3>8. Owned'
      BY <2>3, <2>4, <2>5, <3>3, <3>4, <3>7, OwnedWhenNoted DEF Sources, Ending
    <3> QED
      BY <2>6, <3>3, <3>4, <3>8 DEF Sources
  <2>9. CASE NewMuxer(src) /\ src.video.ok /\ src.audio.ok
    <3>1. PICK new : new = [url |-> u, open |-> TRUE, playable |-> FALSE]
      OBVIOUS
    <3>2. new \in Muxer /\ new.url = u /\ new.open
      BY <2>4, <3>1 DEF Muxer
    <3>3. muxers' = Append(muxers, new) /\ step' = "lock" /\ src.video # None /\ src.mux = 0
      BY <2>2, <2>9, <3>1 DEF NewMuxer
    <3>4. PICK n \in Nat : n = uids'
      BY <2>9 DEF NewMuxer, Shape
    <3>5. PICK k \in Nat : k = Len(muxers')
      BY <3>2, <3>3, AppendProperties DEF Shape
    <3>6. PICK s : s = [src EXCEPT !.mux = k, !.uid = n]
      OBVIOUS
    <3>7. s \in SourceOf /\ s.mux = k /\ s.video = src.video
      BY <2>4, <3>6 DEF SourceOf
    <3>8. bySrc' = Set(u, s)
      BY <2>2, <2>9, <3>4, <3>5, <3>6 DEF NewMuxer
    <3>9. Owned'
      BY <2>3, <2>4, <3>2, <3>3, <3>5, <3>7, <3>8, OwnedWhenMade DEF Sources, Ending
    <3> QED
      BY <2>6, <3>7, <3>8, <3>9 DEF Sources
  <2>10. CASE NewMuxer(src) /\ ~ (src.video.ok /\ src.audio.ok)
    <3>1. bySrc' = Set(u, src) /\ muxers' = muxers /\ step' = "idle"
      BY <2>2, <2>10 DEF NewMuxer
    <3>2. Owned'
      BY <2>3, <2>4, <2>5, <3>1, OwnedWhenNoted DEF Sources, Ending
    <3> QED
      BY <2>4, <2>6, <3>1, <3>2 DEF Sources
  <2> QED
    BY <2>3, <2>7, <2>8, <2>9, <2>10
<1>4. CASE WritePacket
  <2>1. PICK m : m = Source(hand.url).mux
    OBVIOUS
  <2>2. muxers' = IF m = 0 THEN muxers ELSE [muxers EXCEPT ![m].playable = @ \/ hand.video]
    BY <1>4, <2>1 DEF WritePacket
  <2>3. \A k \in DOMAIN muxers : muxers[k] \in Muxer
    BY DEF Shape
  <2>4. /\ DOMAIN muxers' = DOMAIN muxers
        /\ \A k \in DOMAIN muxers : muxers'[k].url = muxers[k].url /\ muxers'[k].open = muxers[k].open
    <3>1. CASE m = 0
      BY <2>2, <3>1
    <3>2. CASE m # 0
      BY <2>2, <2>3, <3>2 DEF Muxer, Shape
    <3> QED
      BY <3>1, <3>2
  <2> QED
    BY <1>4, <2>4, SourcesKept DEF WritePacket, Ending
<1>5. CASE RecalcManifest
  <2>1. PICK urls \in ByResolution(sorted) : sorted' = urls
    BY <1>5 DEF RecalcManifest, Recalc
  <2>2. bySrc' = bySrc /\ muxers' = muxers /\ step \notin Ending /\ step' \notin Ending
    BY <1>5 DEF RecalcManifest, Ending
  <2>3. Listed'
    BY <2>1, <2>2, ByResolutionProperties DEF Sources, Listed
  <2>4. Owned'
    BY <2>2 DEF Sources, Owned
  <2> QED
    BY <2>3, <2>4 DEF Sources
<1>6. CASE CloseMuxers
  <2>1. /\ step' = "drain" /\ bySrc' = bySrc /\ sorted' = sorted
        /\ DOMAIN muxers' = DOMAIN muxers
    BY <1>6 DEF CloseMuxers
  <2>2. ASSUME NEW m \in DOMAIN muxers
        PROVE  muxers'[m].url = muxers[m].url /\ ~ muxers'[m].open
    <3>1. muxers[m] \in Muxer
      BY DEF Shape
    <3>2. CASE \E u \in DOMAIN bySrc : bySrc[u].mux = m
      <4>1. muxers'[m] = [muxers[m] EXCEPT !.open = FALSE]
        BY <1>6, <3>2 DEF CloseMuxers
      <4> QED
        BY <3>1, <4>1 DEF Muxer
    <3>3. CASE ~ \E u \in DOMAIN bySrc : bySrc[u].mux = m
      <4>1. muxers'[m] = muxers[m]
        BY <1>6, <3>3 DEF CloseMuxers
      <4> QED
        BY <3>1, <3>3, <4>1 DEF Sources, Owned
    <3> QED
      BY <3>2, <3>3
  <2> QED
    BY <2>1, <2>2 DEF Sources, Listed, Owned, Ending
<1>7. CASE Drain
  BY <1>7, SourcesKept DEF Drain, Ending
<1>8. CASE CloseChannel
  BY <1>8, SourcesKept DEF CloseChannel, Ending
<1>9. CASE Send
  BY <1>9, SourcesKept DEF Send
<1>10. CASE \E u \in Urls : RemoveSrc(u)
  BY <1>10, ListedWhenRemoved, OwnedWhenRemoved DEF Sources
<1>11. CASE UNCHANGED <<writerVars, muxers>>
  BY <1>11, SourcesKept DEF writerVars
<1> QED
  BY <1>1, <1>2, <1>3, <1>4, <1>5, <1>6, <1>7, <1>8, <1>9, <1>10, <1>11
  DEF WriterNext, StepAction, CheckCodPar, ReleaseLock, RLock, Lookup, Count, List, Answer, hlsVars

-----------------------------------------------------------------------------
(* The master playlist *)

\* A new writer's master playlist is current.
LEMMA CurrentInit == WriterInit => Current
  BY DEF WriterInit, Current, WithMuxer

\* What changes no source and no playlist leaves it current.
LEMMA CurrentKept ==
    ASSUME Current, UNCHANGED <<bySrc, sorted, variants>>,
           step' \in {"idle", "check", "write"} => step \in {"idle", "check", "write"}
    PROVE  Current'
  BY DEF Current, WithMuxer, Pixels

\* A source of which no muxer could be made takes no place in the playlist.
LEMMA CurrentWhenNoMuxer ==
    ASSUME Shape, Sources, Current, step = "check", variants' = variants,
           NEW u \in Urls, NEW src \in SourceOf, AddUrl(u), bySrc' = Set(u, src),
           src.mux = 0, Source(u).mux = 0
    PROVE  Current'
<1>1. /\ DOMAIN bySrc' = DOMAIN bySrc \cup {u} /\ bySrc'[u].mux = 0
      /\ \A x \in DOMAIN bySrc : x # u => bySrc'[x] = bySrc[x]
  BY SetProperties
<1>2. \A x \in DOMAIN bySrc : bySrc'[x].mux = bySrc[x].mux
  BY <1>1 DEF Source
<1>3. PICK n \in Nat : n = Len(sorted) /\ DOMAIN sorted = 1 .. n
  BY DEF Shape
<1>4. \A i \in 1 .. n : sorted[i] \in DOMAIN bySrc
  BY <1>3 DEF Sources, Listed, Lists
<1>6. {j \in DOMAIN sorted : bySrc[sorted[j]].mux # 0}'
        = {j \in DOMAIN sorted : bySrc[sorted[j]].mux # 0}
      /\ \A j \in 1 .. n : sorted'[j] = sorted[j]
  <2>1. CASE sorted' = sorted
    BY <1>2, <1>3, <1>4, <2>1
  <2>2. CASE sorted' = Append(sorted, u)
    <3>1. /\ DOMAIN sorted' = 1 .. n + 1 /\ sorted'[n + 1] = u
          /\ \A j \in 1 .. n : sorted'[j] = sorted[j]
      BY <1>3, <2>2, AppendProperties DEF Shape
    <3>2. \A j \in 1 .. n + 1 : j \in 1 .. n \/ j = n + 1
      BY <1>3
    <3>3. 1 .. n \subseteq 1 .. n + 1
      BY <1>3
    <3> QED
      BY <1>1, <1>2, <1>3, <1>4, <3>1, <3>2, <3>3
  <2> QED
    BY <2>1, <2>2 DEF AddUrl
<1>7. \A j \in 1 .. n : bySrc[sorted[j]].mux # 0 => bySrc'[sorted[j]] = bySrc[sorted[j]]
  BY <1>1, <1>4 DEF Source
<1>8. WithMuxer(sorted)' = WithMuxer(sorted)
  BY <1>3, <1>6, <1>7 DEF WithMuxer
<1>9. /\ variants = WithMuxer(sorted)
      /\ \A i, j \in DOMAIN variants : i < j => Pixels(sorted[i]) <= Pixels(sorted[j])
  BY DEF Current
<1>10. \A i \in DOMAIN variants : i \in 1 .. n /\ bySrc[sorted[i]].mux # 0
  BY <1>3, <1>9 DEF WithMuxer
<1>11. \A i \in DOMAIN variants : Pixels(sorted[i])' = Pixels(sorted[i])
  BY <1>6, <1>7, <1>10 DEF Pixels
<1> QED
  BY <1>8, <1>9, <1>11 DEF Current

\* Every step leaves the master playlist current whenever a request can read it.
LEMMA CurrentStep == Shape /\ Sources /\ Current /\ [WriterNext]_hlsVars => Current'
<1> SUFFICES ASSUME Shape, Sources, Current, [WriterNext]_hlsVars PROVE Current'
  OBVIOUS
<1>1. CASE TakePacket
  BY <1>1, CurrentKept DEF TakePacket
<1>2. CASE SameParameters
  BY <1>2, CurrentKept DEF SameParameters
<1>3. CASE NewParameters
  <2>1. PICK src : src = Noted(Source(hand.url), hand)
    OBVIOUS
  <2>2. /\ step = "check" /\ AddUrl(hand.url) /\ (AudioOnly(src) \/ UpdateMuxer(src) \/ NewMuxer(src))
        /\ variants' = variants
    BY <1>3, <2>1 DEF NewParameters
  <2>3. hand.url \in Urls /\ src \in SourceOf /\ src.mux = Source(hand.url).mux
    BY <2>1, <2>2, NotedProperties
  <2>4. CASE step' = "lock"
    BY <2>4 DEF Current
  <2>5. CASE NewMuxer(src) /\ step' # "lock"
    <3>1. bySrc' = Set(hand.url, src) /\ src.mux = 0
      BY <2>5 DEF NewMuxer
    <3> QED
      BY <2>2, <2>3, <3>1, CurrentWhenNoMuxer
  <2> QED
    BY <2>2, <2>4, <2>5 DEF AudioOnly, UpdateMuxer
<1>4. CASE WritePacket
  BY <1>4, CurrentKept DEF WritePacket
<1>5. CASE RecalcManifest
  <2>1. PICK urls \in ByResolution(sorted) : sorted' = urls /\ variants' = WithMuxer(urls)
    BY <1>5 DEF RecalcManifest, Recalc
  <2>2. bySrc' = bySrc
    BY <1>5 DEF RecalcManifest
  <2>3. \A i, j \in DOMAIN urls : i < j => Pixels(urls[i]) <= Pixels(urls[j])
    BY ByResolutionProperties DEF Sources
  <2>4. DOMAIN variants' \subseteq DOMAIN urls
    BY <2>1 DEF WithMuxer
  <2>5. WithMuxer(sorted)' = WithMuxer(urls)
    BY <2>1, <2>2 DEF WithMuxer
  <2>6. \A i \in DOMAIN urls : Pixels(sorted[i])' = Pixels(urls[i])
    BY <2>1, <2>2 DEF Pixels
  <2> QED
    BY <2>1, <2>3, <2>4, <2>5, <2>6 DEF Current
<1>6. CASE CloseMuxers
  BY <1>6 DEF CloseMuxers, Current
<1>7. CASE Drain
  BY <1>7, CurrentKept DEF Drain
<1>8. CASE CloseChannel
  BY <1>8 DEF CloseChannel, Current
<1>9. CASE Send
  BY <1>9, CurrentKept DEF Send
<1>10. CASE \E u \in Urls : RemoveSrc(u)
  BY <1>10 DEF RemoveSrc, Current
<1>11. CASE UNCHANGED <<writerVars, muxers>>
  BY <1>11, CurrentKept DEF writerVars
<1> QED
  BY <1>1, <1>2, <1>3, <1>4, <1>5, <1>6, <1>7, <1>8, <1>9, <1>10, <1>11
  DEF WriterNext, StepAction, CheckCodPar, ReleaseLock, RLock, Lookup, Count, List, Answer, hlsVars

\* A current playlist is the one the property asks for.
LEMMA CurrentIsMaster == Shape /\ Sources /\ Current => MasterListsOpenMuxers
<1> SUFFICES ASSUME Shape, Sources, Current, step \in {"idle", "check"}
             PROVE  MasterListsOpenMuxers
  BY DEF MasterListsOpenMuxers
<1>1. /\ variants = WithMuxer(sorted)
      /\ \A i, j \in DOMAIN variants : i < j => Pixels(sorted[i]) <= Pixels(sorted[j])
  BY DEF Current
<1>2. /\ DOMAIN variants = {j \in DOMAIN sorted : bySrc[sorted[j]].mux # 0}
      /\ \A i \in DOMAIN variants :
            variants[i].mux = bySrc[sorted[i]].mux /\ variants[i].uid = bySrc[sorted[i]].uid
  BY <1>1 DEF WithMuxer
<1>3. ASSUME NEW i \in DOMAIN variants
      PROVE  /\ variants[i].mux \in DOMAIN muxers /\ muxers[variants[i].mux].open
             /\ muxers[variants[i].mux].url = sorted[i]
             /\ i \in DOMAIN sorted
             /\ bySrc[sorted[i]].mux = variants[i].mux /\ bySrc[sorted[i]].uid = variants[i].uid
  <2>1. i \in DOMAIN sorted /\ sorted[i] \in DOMAIN bySrc /\ bySrc[sorted[i]].mux # 0
    BY <1>2 DEF Sources, Listed, Lists
  <2> QED
    BY <1>2, <2>1 DEF Sources, Owned, Ending
<1>4. ASSUME NEW m \in DOMAIN muxers, muxers[m].open
      PROVE  \E i \in DOMAIN variants : variants[i].mux = m
  <2>1. muxers[m].url \in DOMAIN bySrc /\ bySrc[muxers[m].url].mux = m /\ m # 0
    BY <1>4 DEF Sources, Owned, Shape
  <2>2. PICK i \in DOMAIN sorted : sorted[i] = muxers[m].url
    BY <2>1 DEF Sources, Listed, Lists
  <2> QED
    BY <1>2, <2>1, <2>2
<1>5. \A i \in DOMAIN variants : Res(variants[i]) = Pixels(sorted[i])
  BY <1>3 DEF Res, Pixels
<1>6. \A i, j \in DOMAIN variants : variants[i].mux = variants[j].mux => i = j
  BY <1>3 DEF Sources, Listed, Lists
<1>7. {variants[i].mux : i \in DOMAIN variants} = {m \in DOMAIN muxers : muxers[m].open}
  BY <1>3, <1>4
<1> QED
  BY <1>1, <1>3, <1>5, <1>6, <1>7 DEF MasterListsOpenMuxers

-----------------------------------------------------------------------------
(* The packets *)

\* A new writer has no packets.
LEMMA PacketsInit == WriterInit => Packets
  BY DEF WriterInit, Packets, NoPacket

\* What moves no packet keeps them accounted for.
LEMMA PacketsKept ==
    ASSUME Packets, UNCHANGED <<hand, inpPktCh, fate>>,
           step' \in {"empty", "closed"} => step \in {"empty", "closed"}
    PROVE  Packets'
  BY DEF Packets

\* The packet in hand is released.
LEMMA PacketsWhenDone ==
    ASSUME Shape, Packets, hand # NoPacket, hand' = NoPacket, inpPktCh' = inpPktCh,
           Release(hand), step' \notin {"empty", "closed"}
    PROVE  Packets'
<1>1. hand.id # 0 /\ hand'.id = 0
  BY DEF Shape, Packet, NoPacket
<1>2. fate'.live = fate.live \ {hand.id} /\ fate'.sent = fate.sent /\ fate'.early = fate.early
  BY DEF Release, Shape
<1>3. \A i \in DOMAIN inpPktCh : inpPktCh[i].id # 0
  <2>1. \A i \in DOMAIN inpPktCh : inpPktCh[i] \in Packet
    BY DEF Shape
  <2> QED
    BY <2>1 DEF Packet
<1>4. {inpPktCh[i].id : i \in DOMAIN inpPktCh} = fate.live \ {hand.id}
  BY DEF Packets
<1> QED
  BY <1>1, <1>2, <1>3, <1>4 DEF Packets

\* The first packet of the channel leaves it.
LEMMA HeadLeaves ==
    ASSUME Shape, Packets, inpPktCh # <<>>, inpPktCh' = Tail(inpPktCh), NEW pkt, pkt = Head(inpPktCh)
    PROVE  /\ pkt \in Packet /\ pkt.id # hand.id /\ pkt.id \in fate.live
           /\ {inpPktCh'[i].id : i \in DOMAIN inpPktCh'} = {inpPktCh[i].id : i \in DOMAIN inpPktCh} \ {pkt.id}
           /\ \A i, j \in DOMAIN inpPktCh' : inpPktCh'[i].id = inpPktCh'[j].id => i = j
           /\ \A i \in DOMAIN inpPktCh' : inpPktCh'[i].id # pkt.id /\ inpPktCh'[i].id # hand.id
<1>1. PICK n \in Nat : n = Len(inpPktCh) /\ DOMAIN inpPktCh = 1 .. n /\ n >= 1
  BY DEF Shape
<1>2. pkt = inpPktCh[1] /\ 1 \in DOMAIN inpPktCh /\ pkt \in Packet
  BY <1>1, HeadTailProperties DEF Shape
<1>3. /\ DOMAIN inpPktCh' = 1 .. n - 1
      /\ \A i \in 1 .. n - 1 : inpPktCh'[i] = inpPktCh[i + 1] /\ i + 1 \in 1 .. n /\ i + 1 # 1
  BY <1>1, HeadTailProperties DEF Shape
<1>4. \A i, j \in 1 .. n : inpPktCh[i].id = inpPktCh[j].id => i = j
  BY <1>1 DEF Packets
<1>5. ASSUME NEW k \in 1 .. n, k # 1
      PROVE  k - 1 \in 1 .. n - 1 /\ inpPktCh'[k - 1] = inpPktCh[k]
  <2>1. k - 1 \in 1 .. n - 1 /\ (k - 1) + 1 = k
    BY <1>1, <1>5
  <2> QED
    BY <1>3, <2>1
<1>6. \A i, j \in DOMAIN inpPktCh' : inpPktCh'[i].id = inpPktCh'[j].id => i = j
  BY <1>1, <1>3, <1>4
<1>7. \A i \in DOMAIN inpPktCh' : inpPktCh'[i].id # pkt.id /\ inpPktCh'[i].id # hand.id
  BY <1>1, <1>2, <1>3, <1>4 DEF Packets
<1>8. {inpPktCh'[i].id : i \in DOMAIN inpPktCh'} = {inpPktCh[i].id : i \in DOMAIN inpPktCh} \ {pkt.id}
  <2>1. ASSUME NEW x, x \in {inpPktCh'[i].id : i \in DOMAIN inpPktCh'}
        PROVE  x \in {inpPktCh[i].id : i \in DOMAIN inpPktCh} \ {pkt.id}
    BY <1>1, <1>3, <1>7, <2>1
  <2>2. ASSUME NEW x, x \in {inpPktCh[i].id : i \in DOMAIN inpPktCh} \ {pkt.id}
        PROVE  x \in {inpPktCh'[i].id : i \in DOMAIN inpPktCh'}
    <3>1. PICK k \in 1 .. n : x = inpPktCh[k].id
      BY <1>1, <2>2
    <3>2. k # 1
      BY <1>2, <2>2, <3>1
    <3> QED
      BY <1>3, <1>5, <3>1, <3>2
  <2> QED
    BY <2>1, <2>2
<1> QED
  BY <1>2, <1>6, <1>7, <1>8 DEF Packets

\* Every step keeps the packets accounted for.
LEMMA PacketsStep == Shape /\ Packets /\ [WriterNext]_hlsVars => Packets'
<1> SUFFICES ASSUME Shape, Packets, [WriterNext]_hlsVars PROVE Packets'
  OBVIOUS
<1>1. CASE TakePacket
  <2>1. PICK pkt : pkt = Head(inpPktCh)
    OBVIOUS
  <2>2. /\ inpPktCh # <<>> /\ hand' = pkt /\ inpPktCh' = Tail(inpPktCh) /\ fate' = fate
        /\ step = "idle" /\ step' = "check"
    BY <1>1, <2>1 DEF TakePacket
  <2>3. hand.id = 0
    BY <2>2 DEF Shape, NoPacket
  <2>4. pkt \in Packet /\ pkt.id # 0 /\ pkt.id \in fate.live
    BY <2>1, <2>2, HeadLeaves DEF Packet
  <2>5. /\ {inpPktCh'[i].id : i \in DOMAIN inpPktCh'} = fate.live \ {pkt.id}
        /\ \A i, j \in DOMAIN inpPktCh' : inpPktCh'[i].id = inpPktCh'[j].id => i = j
        /\ \A i \in DOMAIN inpPktCh' : inpPktCh'[i].id # pkt.id
    BY <2>1, <2>2, <2>3, HeadLeaves DEF Packets
  <2> QED
    BY <2>2, <2>4, <2>5 DEF Packets
<1>2. CASE SameParameters
  BY <1>2, PacketsKept DEF SameParameters
<1>3. CASE NewParameters
  <2>1. PICK src : AudioOnly(src) \/ UpdateMuxer(src) \/ NewMuxer(src)
    BY <1>3 DEF NewParameters
  <2>2. step = "check" /\ inpPktCh' = inpPktCh
    BY <1>3 DEF NewParameters
  <2>3. CASE UNCHANGED <<hand, fate>> /\ step' = "lock"
    BY <2>2, <2>3, PacketsKept
  <2>4. CASE hand' = NoPacket /\ Release(hand) /\ step' = "idle"
    BY <2>2, <2>4, PacketsWhenDone DEF Shape
  <2> QED
    BY <2>1, <2>3, <2>4 DEF AudioOnly, UpdateMuxer, NewMuxer
<1>4. CASE WritePacket
  BY <1>4, PacketsWhenDone DEF WritePacket, Shape
<1>5. CASE RecalcManifest
  BY <1>5, PacketsKept DEF RecalcManifest
<1>6. CASE CloseMuxers
  <2>1. /\ fate'.live = fate.live /\ fate'.sent = fate.sent /\ fate'.early = 1 .. fate.sent
        /\ step' = "drain" /\ hand' = hand /\ inpPktCh' = inpPktCh
    BY <1>6 DEF CloseMuxers, Shape
  <2>2. \A n \in fate'.early : n <= fate'.sent
    BY <2>1 DEF Shape
  <2> QED
    BY <2>1, <2>2 DEF Packets
<1>7. CASE Drain
  <2>1. step = "drain" /\ hand' = hand /\ hand.id = 0
    BY <1>7 DEF Drain, Shape, Ending, NoPacket
  <2>2. CASE inpPktCh = <<>>
    <3>1. fate' = fate /\ inpPktCh' = inpPktCh
      BY <1>7, <2>2 DEF Drain
    <3>2. fate.live = {}
      BY <2>1, <2>2 DEF Packets
    <3> QED
      BY <2>1, <3>1, <3>2 DEF Packets
  <2>3. CASE inpPktCh # <<>>
    <3>1. PICK pkt : pkt = Head(inpPktCh)
      OBVIOUS
    <3>2. inpPktCh' = Tail(inpPktCh) /\ fate' = [fate EXCEPT !.live = @ \ {pkt.id}] /\ step' = step
      BY <1>7, <2>3, <3>1 DEF Drain, Release
    <3>3. fate'.live = fate.live \ {pkt.id} /\ fate'.sent = fate.sent /\ fate'.early = fate.early
      BY <3>2 DEF Shape
    <3>4. pkt.id # 0
      BY <2>3, <3>1, <3>2, HeadLeaves DEF Packet
    <3>5. /\ {inpPktCh'[i].id : i \in DOMAIN inpPktCh'} = fate.live \ {pkt.id}
          /\ \A i, j \in DOMAIN inpPktCh' : inpPktCh'[i].id = inpPktCh'[j].id => i = j
          /\ \A i \in DOMAIN inpPktCh' : inpPktCh'[i].id # hand.id
      BY <2>1, <2>3, <3>1, <3>2, HeadLeaves DEF Packets
    <3> QED
      BY <2>1, <3>2, <3>3, <3>5 DEF Packets
  <2> QED
    BY <2>2, <2>3
<1>8. CASE CloseChannel
  BY <1>8 DEF CloseChannel, Packets
<1>9. CASE Send
  <2>1. PICK k \in Nat : k = fate.sent
    BY DEF Shape
  <2>2. PICK pkt : inpPktCh' = Append(inpPktCh, pkt) /\ pkt \in Packet /\ pkt.id = k + 1
    <3>1. PICK u \in Urls, par \in VideoPars, video \in BOOLEAN :
            inpPktCh' = Append(inpPktCh, [id |-> k + 1, url |-> u, par |-> par, video |-> video])
      BY <1>9, <2>1 DEF Send
    <3> QED
      BY <2>1, <3>1 DEF Packet
  <2>3. PICK n \in Nat : n = Len(inpPktCh) /\ DOMAIN inpPktCh = 1 .. n
    BY DEF Shape
  <2>4. /\ DOMAIN inpPktCh' = 1 .. n + 1 /\ inpPktCh'[n + 1] = pkt
        /\ \A i \in 1 .. n : inpPktCh'[i] = inpPktCh[i]
    BY <2>2, <2>3, AppendProperties DEF Shape
  <2>5. fate'.live = fate.live \cup {k + 1} /\ fate'.sent = k + 1 /\ fate'.early = fate.early
    BY <1>9, <2>1 DEF Send, Shape
  <2>6. /\ \A i \in 1 .. n : inpPktCh[i].id <= k /\ inpPktCh[i].id \in Nat
        /\ hand.id <= k /\ hand.id \in Nat
    <3>1. \A i \in 1 .. n : inpPktCh[i].id \in fate.live
      BY <2>3 DEF Packets
    <3>2. hand.id = 0 \/ hand.id \in fate.live
      BY DEF Packets
    <3> QED
      BY <2>1, <3>1, <3>2 DEF Packets, Shape
  <2>7. \A i \in 1 .. n + 1 : i \in 1 .. n \/ i = n + 1
    BY <2>3
  <2>8. 1 .. n \subseteq 1 .. n + 1 /\ n + 1 \in 1 .. n + 1
    BY <2>3
  <2>9. {inpPktCh'[i].id : i \in DOMAIN inpPktCh'} = {inpPktCh[i].id : i \in DOMAIN inpPktCh} \cup {k + 1}
    BY <2>2, <2>3, <2>4, <2>7, <2>8
  <2>10. ASSUME NEW i \in DOMAIN inpPktCh', NEW j \in DOMAIN inpPktCh', inpPktCh'[i].id = inpPktCh'[j].id
         PROVE  i = j
    <3>1. \A l \in 1 .. n : inpPktCh[l].id # k + 1
      BY <2>1, <2>6
    <3> QED
      BY <2>2, <2>3, <2>4, <2>7, <2>10, <3>1 DEF Packets
  <2>11. \A i \in DOMAIN inpPktCh' : inpPktCh'[i].id # hand.id
    <3>1. hand.id # k + 1
      BY <2>1, <2>6
    <3> QED
      BY <2>2, <2>3, <2>4, <2>7, <3>1 DEF Packets
  <2>12. \A x \in fate'.live \cup fate'.early : x <= fate'.sent
    <3>1. \A x \in fate.live \cup fate.early : x \in Nat /\ x <= k
      BY <2>1 DEF Packets, Shape
    <3> QED
      BY <2>1, <2>5, <3>1
  <2>13. step' = step /\ hand' = hand
    BY <1>9 DEF Send
  <2>14. k + 1 \notin fate.early
    BY <2>1 DEF Packets, Shape
  <2>15. {inpPktCh'[i].id : i \in DOMAIN inpPktCh'} \union ({hand'.id} \ {0}) = fate'.live
    BY <2>5, <2>9, <2>13 DEF Packets
  <2>16. step' \in {"empty", "closed"} => fate'.early \cap fate'.live = {}
    BY <2>5, <2>13, <2>14 DEF Packets
  <2> QED
    BY <2>10, <2>11, <2>12, <2>13, <2>15, <2>16 DEF Packets
<1>10. CASE \E u \in Urls : RemoveSrc(u)
  BY <1>10, PacketsKept DEF RemoveSrc
<1>11. CASE UNCHANGED <<writerVars, muxers>>
  BY <1>11, PacketsKept DEF writerVars
<1> QED
  BY <1>1, <1>2, <1>3, <1>4, <1>5, <1>6, <1>7, <1>8, <1>9, <1>10, <1>11
  DEF WriterNext, StepAction, CheckCodPar, ReleaseLock, RLock, Lookup, Count, List, Answer, hlsVars

-----------------------------------------------------------------------------
(* The theorems *)

\* The invariant: Step's maps, the muxers, the master playlist and the packets
\* agree at every step (hls.go:151-333).
THEOREM InductiveInvariant == WriterSpec => []IInv
<1>1. WriterInit => IInv
  BY ShapeInit, SourcesInit, CurrentInit, PacketsInit DEF IInv
<1>2. IInv /\ [WriterNext]_hlsVars => IInv'
  BY ShapeStep, SourcesStep, CurrentStep, PacketsStep DEF IInv
<1> QED
  BY <1>1, <1>2, PTL DEF WriterSpec

\* The master playlist lists the open muxers, each once, by resolution and under
\* the last uid of its source, however many sources come, change and go
\* (recalcManifest, hls.go:231-276).
THEOREM MasterIsCurrent == WriterSpec => []MasterListsOpenMuxers
<1>1. IInv => MasterListsOpenMuxers
  BY CurrentIsMaster DEF IInv
<1> QED
  BY <1>1, InductiveInvariant, PTL

\* Each packet sent is released once Step, or Close, is done with it, and none
\* before (hls.go:285-333, 424-442).
THEOREM EveryPacketIsReleased == WriterSpec => []PacketsReleased
<1>1. IInv => PacketsReleased
  BY DEF IInv, Packets, PacketsReleased
<1> QED
  BY <1>1, InductiveInvariant, PTL

=============================================================================
