----------------------------- MODULE WebRTCProofs -----------------------------
(***************************************************************************)
(* What WebRTC guarantees for all sets of sources, peers, codec types and  *)
(* bounds.  The inductive invariant has six layers: the shape of the       *)
(* state, the peers that can be anywhere at all, the places of those that  *)
(* are connected, the channels of those that are closed, the packets in    *)
(* the buffers, and what of them the peers were offered.                   *)
(***************************************************************************)
EXTENDS WebRTC, ListProofs

-----------------------------------------------------------------------------
(* The inductive invariant *)

Pars   == [type : Types, res : Sizes, v : Nat]
Pkts   == [url : Urls, id : Nat \ {0}, kind : {"key", "delta", "audio"}, t : Nat, vid : Nat]
Stream == [seeded : SUBSET Peers, unseeded : SUBSET Peers, toAdd : SUBSET Peers,
           buf : Seq(Pkts), par : Pars]
Streams == [Urls -> {NoStream} \cup Stream]
Connection == [state : {"negotiating", "failed", "open"}, target : Urls, type : Types,
               lost : BOOLEAN, late : BOOLEAN, asked : Nat]
Change == [peer : Peers, url : Urls]

\* The type of the state.  sortedURLs lists the streams, each once; Step works on
\* a packet, of a stream that exists once the packet is stored.
Shape ==
    /\ streams \in Streams
    /\ sorted \in Seq(Urls) /\ Lists(sorted, Known)
    /\ peer \in [Peers -> {NoPeer} \cup Connection]
    /\ changes \in Seq(Change)
    /\ got \in [Urls -> Nat] /\ vid \in [Urls -> Nat] /\ par \in [Urls -> Pars]
    /\ pc \in {"idle", "store", "pending", "seed", "closed"}
    /\ pc \in {"store", "pending", "seed"} =>
          job \in [url : Urls, pkt : Pkts, todo : SUBSET Peers]
    /\ pc \in {"pending", "seed"} => job.url \in Known

\* Wherever a peer may be, it has a connection.
Of(v) == Tracks(v) \cup streams[v].toAdd
OnStreams == UNION {Of(u) : u \in Known}
Asking == {changes[i].peer : i \in DOMAIN changes}
Joining == IF pc = "pending" THEN job.todo ELSE {}
Places == pending \cup OnStreams \cup Asking \cup Joining
Reached == {p \in Peers : peer[p] # NoPeer}
Noted == connects \cup closes \cup done \cup Places \subseteq Reached

\* A peer that is patient is in no place before it is inserted.
Open == {p \in Peers : peer[p].state = "open"}
Patient == connects \subseteq Open /\ Places \subseteq Open \ connects

\* A closed peer whose tracks are still to be seeded came to Insert closed: its
\* channels may be filled again.
Drained ==
    /\ \A p \in done \cap clones : peer[p].late
    /\ \A u \in Known : \A p \in streams[u].unseeded \cap done : peer[p].late

\* A buffer has packets of its source, from a keyframe on, and no two of one id.
\* Packets come once; the one in hand is in no buffer until it is stored.
BufferOf(u, buf) ==
    /\ buf # <<>> => Key(buf[1])
    /\ \A p \in Range(buf) : p.url = u
    /\ \A p, q \in Range(buf) : p.id = q.id => p = q
InHand == IF pc = "store" THEN {<<job.url, job.pkt.id>>} ELSE {}
Buffers ==
    /\ \A u \in Known : BufferOf(u, streams[u].buf)
    /\ pc = "store" => job.pkt.url = job.url /\ job.pkt.id = got[job.url]
    /\ released \cap Held = {}
    /\ released \cup Held = Received \ InHand

\* Packets that come in their order, and packets of which each video packet has a
\* number of its own.
Rises(w) == \A i, j \in DOMAIN w : i < j => w[i].id < w[j].id
Numbered(S) ==
    \A p, q \in S : p.id < q.id => p.vid <= q.vid /\ (Video(q) => p.vid < q.vid)
Videos(w) == {p \in Range(w) : Video(p)}

\* From the first packet of a buffer to the n-th video packet of its source no video
\* packet is missing, but for those that were cut.
Complete(u, buf, n) ==
    buf # <<>> => \A v \in buf[1].vid .. n : <<u, v>> \in cut \/ \E p \in Videos(buf) : p.vid = v

\* The last video packet of a source that was stored, and that was sent on.
At(stages, u) == pc \in stages /\ job.url = u /\ Video(job.pkt)
Stored(u) == IF At({"store"}, u) THEN vid[u] - 1 ELSE vid[u]
Sent(u) == IF At({"store", "pending"}, u) THEN vid[u] - 1 ELSE vid[u]

\* A buffer has packets in their order, each at the time that belongs to its number;
\* the packet in hand comes after them.
OrderOf(u, buf) ==
    /\ Rises(buf) /\ Numbered(Range(buf)) /\ Complete(u, buf, Stored(u))
    /\ \A p \in Range(buf) : p.t = 2 * p.id /\ p.id <= got[u] /\ p.vid <= vid[u]
Later(pkt, buf) ==
    \A p \in Range(buf) : p.id < pkt.id /\ p.vid <= pkt.vid /\ (Video(pkt) => p.vid < pkt.vid)
Ordered ==
    /\ \A u \in Known : OrderOf(u, streams[u].buf)
    /\ pc \in {"store", "pending"} =>
          job.pkt.url = job.url /\ job.pkt.vid = vid[job.url] /\ job.pkt.t = 2 * job.pkt.id
    /\ pc = "store" /\ job.url \in Known => Later(job.pkt, streams[job.url].buf)

\* Every peer has a last video packet.  If it is open and seeded on a stream that has
\* packets, that is one of this source and nothing was missed since, or a keyframe
\* is on its way to it.
Shown == [url : Urls \cup {"none"}, vid : Nat, key : BOOLEAN]
Reaches(r, u) ==
    /\ r.url = u /\ r.vid <= vid[u]
    /\ \A v \in r.vid + 1 .. Sent(u) : <<u, v>> \in cut
Feeds == feed \in [Peers -> Seq(Shown)] /\ \A q \in Peers : feed[q] # <<>>
FedOn(u, q) ==
    \/ streams[u].buf = <<>>
    \/ pc = "pending" /\ job.url = u /\ Key(job.pkt)
    \/ Reaches(Last(feed[q]), u)
Fed == \A u \in Known : \A q \in streams[u].seeded \ done : FedOn(u, q)

\* From Store until the packet was sent on there is something to seed a peer with.
Loaded == pc \in {"pending", "seed"} => streams[job.url].buf # <<>>

IInv == Shape /\ Noted /\ Drained /\ Buffers

-----------------------------------------------------------------------------
(* The buffer of a stream *)

\* From the i-th on.
LEMMA FromProperties ==
    ASSUME NEW S, NEW ps \in Seq(S), NEW i \in 1 .. Len(ps)
    PROVE  /\ From(ps, i) \in Seq(S) /\ From(ps, i) # <<>> /\ From(ps, i)[1] = ps[i]
           /\ Range(From(ps, i)) \subseteq Range(ps)
           /\ Rises(ps) => Rises(From(ps, i))
<1>1. PICK n \in Nat : n = Len(ps) /\ DOMAIN ps = 1 .. n
  OBVIOUS
<1>2. PICK t : t = From(ps, i)
  OBVIOUS
<1>3. i \in 1 .. n /\ \A j \in i .. n : ps[j] \in S
  BY <1>1
<1>4. /\ t \in Seq(S) /\ Len(t) = n - i + 1
      /\ \A j \in 1 .. n - i + 1 : t[j] = ps[i + j - 1]
  BY <1>1, <1>2, <1>3, SubSeqProperties DEF From
<1>5. t # <<>> /\ t[1] = ps[i]
  <2>1. 1 \in 1 .. n - i + 1 /\ i + 1 - 1 = i
    BY <1>3
  <2> QED
    BY <1>4, <2>1
<1>6. \A j \in 1 .. n - i + 1 : i + j - 1 \in 1 .. n
  BY <1>3
<1>7. DOMAIN t = 1 .. n - i + 1
  BY <1>4
<1>8. Range(t) \subseteq Range(ps)
  BY <1>1, <1>4, <1>6, <1>7 DEF Range
<1>9. Rises(ps) => Rises(t)
  <2> SUFFICES ASSUME Rises(ps), NEW j \in 1 .. n - i + 1, NEW k \in 1 .. n - i + 1, j < k
               PROVE  t[j].id < t[k].id
    BY <1>7 DEF Rises
  <2>1. t[j] = ps[i + j - 1] /\ t[k] = ps[i + k - 1]
    BY <1>4
  <2>2. i + j - 1 \in 1 .. n /\ i + k - 1 \in 1 .. n /\ i + j - 1 < i + k - 1
    BY <1>3
  <2>3. ps[i + j - 1].id < ps[i + k - 1].id
    BY <1>1, <2>2 DEF Rises
  <2> QED
    BY <2>1, <2>3
<1> QED
  BY <1>2, <1>4, <1>5, <1>8, <1>9

\* What may be left of a buffer: packets of it, in their order, from a keyframe on.
Leaves(ps, left, S) ==
    /\ left \in Seq(S) /\ left # <<>> /\ Key(left[1])
    /\ Range(left) \subseteq Range(ps)
    /\ Rises(ps) => Rises(left)

\* What is left from a keyframe on begins with a keyframe.
LEMMA LeavesFrom ==
    ASSUME NEW S, NEW ps \in Seq(S), NEW i \in Groups(ps)
    PROVE  Leaves(ps, From(ps, i), S)
<1>1. i \in 1 .. Len(ps) /\ Key(ps[i])
  BY DEF Groups
<1> QED
  BY <1>1, FromProperties DEF Leaves

\* What DropGroups leaves begins with a keyframe.
LEMMA DropGroupsLeaves ==
    ASSUME NEW S, NEW ps \in Seq(S), ps # <<>>, Key(ps[1])
    PROVE  Leaves(ps, DropGroups(ps), S)
<1> DEFINE enough(i) == \E j \in Groups(ps) : j > i /\ Units(From(ps, j)) >= HardCap
           kept == {i \in Groups(ps) : ~ enough(i)}
<1>1. PICK n \in Nat : n = Len(ps) /\ 1 \in 1 .. n
  OBVIOUS
<1>2. Groups(ps) \in SUBSET Nat /\ Groups(ps) # {} /\ \A i \in Groups(ps) : i <= n
  BY <1>1 DEF Groups
<1>3. PICK m \in Groups(ps) : \A i \in Groups(ps) : i <= m
  BY <1>2, MaxProperties
<1>4. m \in kept
  BY <1>2, <1>3
<1>5. Min(kept) \in kept
  <2>1. kept \in SUBSET Nat /\ kept # {}
    BY <1>2, <1>4
  <2> HIDE DEF kept
  <2> QED
    BY <2>1, MinProperties
<1>6. DropGroups(ps) = From(ps, Min(kept))
  BY DEF DropGroups
<1> QED
  BY <1>5, <1>6, LeavesFrom

\* So does what ShiftGroup leaves.
LEMMA ShiftGroupLeaves ==
    ASSUME NEW S, NEW ps \in Seq(S), ps # <<>>, Key(ps[1])
    PROVE  Leaves(ps, ShiftGroup(ps), S)
<1> DEFINE left(i) == <<Head(ps)>> \o From(ps, i)
           fits == {i \in 2 .. Len(ps) + 1 : i > Len(ps) \/ Units(left(i)) <= HardCap}
<1>1. PICK n \in Nat : n = Len(ps) /\ DOMAIN ps = 1 .. n /\ 1 \in 1 .. n
  OBVIOUS
<1>2. Min(fits) \in fits
  <2>1. n + 1 \in fits
    BY <1>1
  <2>2. fits \in SUBSET Nat /\ fits # {}
    BY <1>1, <2>1
  <2> HIDE DEF fits
  <2> QED
    BY <2>2, MinProperties
<1>3. PICK i \in 2 .. n + 1 : i = Min(fits)
  BY <1>1, <1>2
<1>4. ShiftGroup(ps) = left(i)
  BY <1>3 DEF ShiftGroup
<1>5. PICK h : h = <<ps[1]>>
  OBVIOUS
<1>6. /\ ps[1] \in S /\ h \in Seq(S) /\ Len(h) = 1 /\ h[1] = ps[1]
      /\ left(i) = h \o From(ps, i)
  BY <1>1, <1>5
<1>7. From(ps, i) \in Seq(S) /\ Range(From(ps, i)) \subseteq Range(ps)
  <2>1. CASE i \in 1 .. n
    BY <1>1, <2>1, FromProperties
  <2>2. CASE i = n + 1
    <3>1. From(ps, i) = << >>
      BY <1>1, <2>2 DEF From
    <3> QED
      BY <3>1 DEF Range
  <2> QED
    BY <1>1, <2>1, <2>2
<1>8. PICK f \in Seq(S) : f = From(ps, i)
  BY <1>7
<1>9. PICK m \in Nat : m = Len(f) /\ DOMAIN f = 1 .. m
  OBVIOUS
<1>10. /\ h \o f \in Seq(S) /\ Len(h \o f) = 1 + m
       /\ \A j \in 1 .. 1 + m : (h \o f)[j] = IF j <= 1 THEN h[j] ELSE f[j - 1]
  BY <1>6, <1>9, ConcatProperties
<1>11. PICK t : t = h \o f
  OBVIOUS
<1>12. t \in Seq(S) /\ t # <<>> /\ t[1] = ps[1] /\ DOMAIN t = 1 .. 1 + m
  <2>1. 1 \in 1 .. 1 + m
    BY <1>9
  <2> QED
    BY <1>6, <1>10, <1>11, <2>1
<1>13. ASSUME NEW j \in 1 .. 1 + m
       PROVE  t[j] \in Range(ps)
  <2>1. CASE j = 1
    BY <1>1, <1>12, <2>1 DEF Range
  <2>2. CASE j # 1
    <3>1. ~ (j <= 1) /\ j - 1 \in 1 .. m
      BY <1>9, <2>2
    <3>2. t[j] = f[j - 1]
      BY <1>10, <1>11, <3>1
    <3> QED
      BY <1>7, <1>8, <1>9, <3>1, <3>2 DEF Range
  <2> QED
    BY <2>1, <2>2
<1>14. Range(t) \subseteq Range(ps)
  BY <1>12, <1>13 DEF Range
<1>15. ASSUME Rises(ps)
       PROVE  Rises(t)
  <2>1. ASSUME NEW j \in 2 .. 1 + m
        PROVE  /\ i + j - 2 \in 2 .. n
               /\ t[j] = ps[i + j - 2]
    <3>1. CASE i \in 1 .. n
      <4>1. /\ f = SubSeq(ps, i, n)
            /\ Len(SubSeq(ps, i, n)) = n - i + 1
            /\ \A k \in 1 .. n - i + 1 : SubSeq(ps, i, n)[k] = ps[i + k - 1]
        BY <1>1, <1>8, <3>1, SubSeqProperties DEF From
      <4>2. m = n - i + 1 /\ \A k \in 1 .. m : f[k] = ps[i + k - 1]
        BY <1>9, <4>1
      <4>3. j - 1 \in 1 .. m /\ ~ (j <= 1) /\ i + (j - 1) - 1 = i + j - 2 /\ j \in 1 .. 1 + m
        BY <1>3, <1>9
      <4>4. t[j] = f[j - 1]
        BY <1>10, <1>11, <4>3
      <4>5. f[j - 1] = ps[i + j - 2]
        BY <4>2, <4>3
      <4>6. i + j - 2 \in 2 .. n
        <5>1. i \in 1 .. n /\ n \in Nat /\ m = n - i + 1 /\ i >= 2 /\ j >= 2 /\ j <= 1 + m /\ j \in Nat
          BY <1>1, <1>3, <1>9, <3>1, <4>2
        <5> QED
          BY <5>1
      <4> QED
        BY <4>4, <4>5, <4>6
    <3>2. CASE i = n + 1
      <4>1. f = << >>
        BY <1>1, <1>8, <3>2 DEF From
      <4>2. m = 0
        BY <1>9, <4>1
      <4> QED
        BY <4>2
    <3> QED
      BY <1>1, <1>3, <3>1, <3>2
  <2> SUFFICES ASSUME NEW j \in 1 .. 1 + m, NEW k \in 1 .. 1 + m, j < k
               PROVE  t[j].id < t[k].id
    BY <1>12 DEF Rises
  <2>2. k \in 2 .. 1 + m
    BY <1>9
  <2>3. i + k - 2 \in 2 .. n /\ t[k] = ps[i + k - 2]
    BY <2>1, <2>2
  <2>4. CASE j = 1
    <3>1. t[j] = ps[1] /\ 1 < i + k - 2 /\ i + k - 2 \in 1 .. n
      BY <1>1, <1>12, <2>3, <2>4
    <3>2. ps[1].id < ps[i + k - 2].id
      BY <1>1, <1>15, <3>1 DEF Rises
    <3> QED
      BY <2>3, <3>1, <3>2
  <2>5. CASE j # 1
    <3>1. j \in 2 .. 1 + m
      BY <2>5, <1>9
    <3>2. i + j - 2 \in 2 .. n /\ t[j] = ps[i + j - 2]
      BY <2>1, <3>1
    <3>3. /\ i + j - 2 \in 1 .. n /\ i + k - 2 \in 1 .. n
          /\ i + j - 2 < i + k - 2
      BY <1>1, <1>3, <1>9, <2>3, <3>2
    <3>4. ps[i + j - 2].id < ps[i + k - 2].id
      BY <1>1, <1>15, <3>3 DEF Rises
    <3> QED
      BY <2>3, <3>2, <3>4
  <2> QED
    BY <2>4, <2>5
<1> QED
  BY <1>4, <1>6, <1>8, <1>11, <1>12, <1>14, <1>15 DEF Leaves

\* AddPacket stores the packet, drops some of what was there, and leaves a
\* keyframe in front, whichever way the sizes take it.
LEMMA AddPacketProperties ==
    ASSUME NEW S, NEW ps \in Seq(S), NEW p \in S, Stores(ps, p), ps # <<>> => Key(ps[1])
    PROVE  Leaves(Append(ps, p), AddPacket(ps, p), S)
<1>1. PICK all : all = Append(ps, p)
  OBVIOUS
<1>2. all \in Seq(S) /\ all # <<>> /\ Key(all[1])
  <2>1. CASE ps = <<>>
    BY <1>1, <2>1 DEF Stores
  <2>2. CASE ps # <<>>
    <3>1. 1 \in 1 .. Len(ps)
      BY <2>2
    <3>2. all \in Seq(S) /\ Len(all) = Len(ps) + 1 /\ all[1] = ps[1]
      BY <1>1, <3>1, AppendProperties
    <3> QED
      BY <2>2, <3>2
  <2> QED
    BY <2>1, <2>2
<1>3. PICK capped : capped = adjustHardCap(all)
  OBVIOUS
<1>4. Leaves(all, capped, S)
  <2>1. PICK left : left = DropGroups(all)
    OBVIOUS
  <2>2. Leaves(all, left, S)
    BY <1>2, <2>1, DropGroupsLeaves
  <2>3. Leaves(left, ShiftGroup(left), S)
    BY <2>2, ShiftGroupLeaves DEF Leaves
  <2>4. capped = left \/ capped = ShiftGroup(left)
    BY <1>3, <2>1 DEF adjustHardCap
  <2> QED
    BY <2>2, <2>3, <2>4 DEF Leaves
<1>5. Leaves(capped, AdjustSize(capped), S)
  <2> DEFINE others == Groups(capped) \ {1}
  <2>1. Leaves(capped, capped, S) /\ capped \in Seq(S)
    BY <1>4 DEF Leaves
  <2>2. CASE others = {}
    BY <2>1, <2>2 DEF AdjustSize
  <2>3. CASE others # {}
    <3>1. others \in SUBSET Nat
      BY <2>1 DEF Groups
    <3>2. Min(others) \in Groups(capped)
      BY <2>3, <3>1, MinProperties
    <3>3. Leaves(capped, From(capped, Min(others)), S)
      BY <2>1, <3>2, LeavesFrom
    <3>4. AdjustSize(capped) \in {capped, From(capped, Min(others))}
      BY <2>3 DEF AdjustSize
    <3> QED
      BY <2>1, <3>3, <3>4
  <2> QED
    BY <2>2, <2>3
<1>6. AddPacket(ps, p) = IF Key(p) THEN AdjustSize(capped) ELSE capped
  BY <1>1, <1>3 DEF AddPacket
<1> QED
  BY <1>1, <1>4, <1>5, <1>6 DEF Leaves

-----------------------------------------------------------------------------
(* The list of the streams *)

\* sortURLsByResolution moves the last url; the urls are the same.
LEMMA SortListsTheSame ==
    ASSUME NEW T, NEW urls \in Seq(T), urls # <<>>, NEW S \in SUBSET T, Lists(urls, S), NEW res
    PROVE  /\ sortURLsByResolution(urls, res) \in Seq(T)
           /\ Lists(sortURLsByResolution(urls, res), S)
<1>1. PICK n \in Nat : n = Len(urls) /\ DOMAIN urls = 1 .. n /\ n >= 1
  OBVIOUS
<1> DEFINE before == {i \in 1 .. n - 1 : res[urls[i]] <= res[urls[n]]}
<1>2. PICK k \in 0 .. n - 1 :
        sortURLsByResolution(urls, res) = SubSeq(urls, 1, k) \o <<urls[n]>> \o SubSeq(urls, k + 1, n - 1)
  <2>1. /\ {0} \cup before \in SUBSET Nat /\ {0} \cup before # {}
        /\ n - 1 \in Nat /\ \A x \in {0} \cup before : x <= n - 1
    BY <1>1
  <2>2. Max({0} \cup before) \in 0 .. n - 1
    <3> HIDE DEF before
    <3>1. Max({0} \cup before) \in {0} \cup before
      BY <2>1, MaxProperties
    <3> QED
      BY <2>1, <3>1
  <2> QED
    BY <1>1, <2>2 DEF sortURLsByResolution
<1>3. PICK a, b, c : a = SubSeq(urls, 1, k) /\ b = <<urls[n]>> /\ c = SubSeq(urls, k + 1, n - 1)
  OBVIOUS
<1>4. k \in Nat /\ k <= n - 1 /\ \A i \in 1 .. n : urls[i] \in T
  BY <1>1
<1>5. a \in Seq(T) /\ Len(a) = k /\ \A i \in 1 .. k : a[i] = urls[i]
  <2>1. \A i \in 1 .. k : urls[i] \in T
    BY <1>1, <1>4
  <2> QED
    BY <1>3, <1>4, <2>1, SubSeqProperties
<1>6. b \in Seq(T) /\ Len(b) = 1 /\ b[1] = urls[n]
  BY <1>1, <1>3
<1>7. c \in Seq(T) /\ Len(c) = n - 1 - k /\ \A i \in 1 .. n - 1 - k : c[i] = urls[k + i]
  <2>1. \A i \in k + 1 .. n - 1 : urls[i] \in T
    BY <1>1, <1>4
  <2>2. /\ c \in Seq(T) /\ Len(c) = IF k + 1 <= n - 1 THEN (n - 1) - (k + 1) + 1 ELSE 0
        /\ \A i \in 1 .. (n - 1) - (k + 1) + 1 : c[i] = urls[(k + 1) + i - 1]
    BY <1>1, <1>3, <1>4, <2>1, SubSeqProperties
  <2>3. (n - 1) - (k + 1) + 1 = n - 1 - k /\ (k + 1 <= n - 1 \/ n - 1 - k = 0)
    BY <1>1, <1>4
  <2>4. \A i \in 1 .. n - 1 - k : (k + 1) + i - 1 = k + i
    BY <1>4
  <2>5. Len(c) = n - 1 - k
    BY <2>2, <2>3
  <2> QED
    BY <2>2, <2>3, <2>4, <2>5
<1>8. PICK ab : ab = a \o b
  OBVIOUS
<1>9. /\ ab \in Seq(T) /\ Len(ab) = k + 1
      /\ \A i \in 1 .. k + 1 : ab[i] = IF i <= k THEN urls[i] ELSE urls[n]
  <2>1. /\ ab \in Seq(T) /\ Len(ab) = Len(a) + Len(b)
        /\ \A i \in 1 .. Len(a) + Len(b) : ab[i] = IF i <= Len(a) THEN a[i] ELSE b[i - Len(a)]
    BY <1>5, <1>6, <1>8, ConcatProperties
  <2>2. ASSUME NEW i \in 1 .. k + 1
        PROVE  ab[i] = IF i <= k THEN urls[i] ELSE urls[n]
    <3>1. CASE i <= k
      BY <1>4, <1>5, <1>6, <2>1, <3>1
    <3>2. CASE ~ (i <= k)
      <4>1. i - k = 1
        BY <1>4, <3>2
      <4> QED
        BY <1>4, <1>5, <1>6, <2>1, <3>2, <4>1
    <3> QED
      BY <3>1, <3>2
  <2> QED
    BY <1>4, <1>5, <1>6, <2>1, <2>2
<1>10. PICK t : t = ab \o c
  OBVIOUS
<1>11. t = sortURLsByResolution(urls, res)
  BY <1>2, <1>3, <1>8, <1>10
<1>12. /\ t \in Seq(T) /\ Len(t) = n
       /\ \A i \in 1 .. n : t[i] = IF i <= k + 1 THEN ab[i] ELSE c[i - (k + 1)]
  <2>1. /\ t \in Seq(T) /\ Len(t) = Len(ab) + Len(c)
        /\ \A i \in 1 .. Len(ab) + Len(c) : t[i] = IF i <= Len(ab) THEN ab[i] ELSE c[i - Len(ab)]
    BY <1>7, <1>9, <1>10, ConcatProperties
  <2>2. Len(ab) + Len(c) = n
    BY <1>1, <1>4, <1>7, <1>9
  <2> QED
    BY <1>9, <2>1, <2>2
<1>13. PICK p : p = [i \in 1 .. n |-> IF i <= k THEN i ELSE IF i = k + 1 THEN n ELSE i - 1]
  OBVIOUS
<1>14. p \in [1 .. n -> 1 .. n]
  BY <1>1, <1>4, <1>13
<1>15. \A i, j \in 1 .. n : p[i] = p[j] => i = j
  BY <1>1, <1>4, <1>13
<1>16. ASSUME NEW j \in 1 .. n
       PROVE  \E i \in 1 .. n : p[i] = j
  <2>1. CASE j <= k
    BY <1>13, <2>1
  <2>2. CASE j = n
    <3>1. k + 1 \in 1 .. n /\ ~ (k + 1 <= k)
      BY <1>1, <1>4
    <3> QED
      BY <1>13, <2>2, <3>1
  <2>3. CASE j > k /\ j # n
    <3>1. j + 1 \in 1 .. n /\ ~ (j + 1 <= k) /\ j + 1 # k + 1 /\ (j + 1) - 1 = j
      BY <1>1, <1>4, <2>3
    <3> QED
      BY <1>13, <3>1
  <2> QED
    BY <1>4, <2>1, <2>2, <2>3
<1>17. ASSUME NEW i \in 1 .. n
       PROVE  t[i] = urls[p[i]]
  <2>1. CASE i <= k
    <3>1. i \in 1 .. k + 1 /\ i <= k + 1
      BY <1>4, <2>1
    <3> QED
      BY <1>9, <1>12, <1>13, <2>1, <3>1
  <2>2. CASE i = k + 1
    <3>1. i \in 1 .. k + 1 /\ ~ (i <= k)
      BY <1>4, <2>2
    <3> QED
      BY <1>9, <1>12, <1>13, <2>2, <3>1
  <2>3. CASE i > k + 1
    <3>1. ~ (i <= k + 1) /\ i - (k + 1) \in 1 .. n - 1 - k /\ k + (i - (k + 1)) = i - 1
      BY <1>1, <1>4, <2>3
    <3>2. t[i] = urls[i - 1]
      BY <1>7, <1>12, <3>1
    <3>3. p[i] = i - 1
      BY <1>4, <1>13, <2>3
    <3> QED
      BY <3>2, <3>3
  <2> QED
    BY <1>4, <2>1, <2>2, <2>3
<1>18. Lists(t, S)
  <2>1. t \in Seq(T) /\ DOMAIN t = DOMAIN urls
    BY <1>1, <1>12
  <2>2. DOMAIN urls = 1 .. n
    BY <1>1
  <2>3. p \in [DOMAIN urls -> DOMAIN urls]
    BY <1>14, <2>2
  <2>4. \A i, j \in DOMAIN urls : p[i] = p[j] => i = j
    BY <1>15, <2>2
  <2>5. \A j \in DOMAIN urls : \E i \in DOMAIN urls : p[i] = j
    BY <1>16, <2>2
  <2>6. \A i \in DOMAIN urls : t[i] = urls[p[i]]
    BY <1>17, <2>2
  <2> QED
    BY <2>1, <2>3, <2>4, <2>5, <2>6, PermutedLists, ZenonT(60)
<1> QED
  BY <1>11, <1>12, <1>18

-----------------------------------------------------------------------------
(* Streams *)

\* A stream is not the absence of one.
LEMMA StreamsDiffer == \A s \in Stream : s # NoStream
  BY DEF Stream, NoStream

\* One stream is changed.
LEMMA OneStream ==
    ASSUME streams \in Streams, NEW u \in Urls, NEW s \in Stream, streams' = [streams EXCEPT ![u] = s]
    PROVE  /\ streams' \in Streams /\ Known' = Known \cup {u} /\ streams'[u] = s
           /\ \A v \in Urls : v # u => streams'[v] = streams[v]
<1>1. /\ streams' \in Streams /\ streams'[u] = s
      /\ \A v \in Urls : v # u => streams'[v] = streams[v]
  BY DEF Streams
<1>2. s # NoStream
  BY StreamsDiffer
<1> QED
  BY <1>1, <1>2 DEF Known

\* Peers that are removed leave every stream, but for those closed before.
LEMMA WithoutPeersProperties ==
    ASSUME NEW strs \in Streams, NEW ps
    PROVE  /\ WithoutPeers(strs, ps) \in Streams
           /\ \A u \in Urls : WithoutPeers(strs, ps)[u] = NoStream <=> strs[u] = NoStream
           /\ \A u \in Urls : strs[u] # NoStream =>
                 /\ WithoutPeers(strs, ps)[u].seeded = strs[u].seeded \ (ps \ done)
                 /\ WithoutPeers(strs, ps)[u].unseeded = strs[u].unseeded \ (ps \ done)
                 /\ WithoutPeers(strs, ps)[u].toAdd = strs[u].toAdd \ (ps \ done)
                 /\ WithoutPeers(strs, ps)[u].buf = strs[u].buf
<1>1. PICK w : w = WithoutPeers(strs, ps)
  OBVIOUS
<1>2. ASSUME NEW u \in Urls, strs[u] # NoStream
      PROVE  /\ w[u] \in Stream
             /\ w[u].seeded = strs[u].seeded \ (ps \ done)
             /\ w[u].unseeded = strs[u].unseeded \ (ps \ done)
             /\ w[u].toAdd = strs[u].toAdd \ (ps \ done)
             /\ w[u].buf = strs[u].buf
  <2>1. PICK s \in Stream : s = strs[u]
    BY <1>2 DEF Streams
  <2>2. PICK gone : gone = ps \ done
    OBVIOUS
  <2>3. w[u] = [s EXCEPT !.seeded = @ \ gone, !.unseeded = @ \ gone, !.toAdd = @ \ gone]
    BY <1>1, <1>2, <2>1, <2>2 DEF WithoutPeers, Without
  <2>4. /\ s.seeded \ gone \in SUBSET Peers /\ s.unseeded \ gone \in SUBSET Peers
        /\ s.toAdd \ gone \in SUBSET Peers
    BY DEF Stream
  <2>5. w[u] \in Stream
    BY <2>3, <2>4 DEF Stream
  <2>6. /\ w[u].seeded = s.seeded \ gone /\ w[u].unseeded = s.unseeded \ gone
        /\ w[u].toAdd = s.toAdd \ gone /\ w[u].buf = s.buf
    BY <2>3 DEF Stream
  <2> QED
    BY <2>1, <2>2, <2>5, <2>6
<1>3. ASSUME NEW u \in Urls, strs[u] = NoStream
      PROVE  w[u] = NoStream
  BY <1>1, <1>3 DEF WithoutPeers
<1>4. w \in Streams
  <2>1. w = [u \in Urls |-> w[u]]
    BY <1>1 DEF WithoutPeers
  <2>2. \A u \in Urls : w[u] \in {NoStream} \cup Stream
    BY <1>2, <1>3
  <2> QED
    BY <2>1, <2>2 DEF Streams
<1> QED
  BY <1>1, <1>2, <1>3, <1>4, StreamsDiffer

\* Removing nobody changes no stream.
LEMMA NobodyRemoved ==
    ASSUME NEW strs \in Streams
    PROVE  WithoutPeers(strs, {}) = strs
<1>1. ASSUME NEW u \in Urls, strs[u] # NoStream
      PROVE  Without(strs[u], {} \ done) = strs[u]
  <2>1. PICK s \in Stream : s = strs[u]
    BY <1>1 DEF Streams
  <2>2. s.seeded \ {} = s.seeded /\ s.unseeded \ {} = s.unseeded /\ s.toAdd \ {} = s.toAdd
    OBVIOUS
  <2>3. {} \ done = {}
    OBVIOUS
  <2>4. [s EXCEPT !.seeded = s.seeded, !.unseeded = s.unseeded, !.toAdd = s.toAdd] = s
    BY DEF Stream
  <2> QED
    BY <2>1, <2>2, <2>3, <2>4 DEF Without
<1>2. strs = [u \in Urls |-> strs[u]]
  BY DEF Streams
<1> QED
  BY <1>1, <1>2 DEF WithoutPeers

-----------------------------------------------------------------------------
(* What the actions do to the streams *)

\* A stream has the peers it had, but for some that are removed; or all it had.
Fewer(v, gone) ==
    /\ streams'[v].seeded = streams[v].seeded \ gone
    /\ streams'[v].unseeded = streams[v].unseeded \ gone
    /\ streams'[v].toAdd = streams[v].toAdd \ gone
Same(v) == Fewer(v, {}) /\ streams'[v].buf = streams[v].buf

\* removePeer for each of ps.
Removes(gone) ==
    /\ streams' \in Streams /\ Known' = Known
    /\ \A v \in Known : Fewer(v, gone)
    /\ pending' = pending \ gone /\ clones' = clones \ gone
    /\ done' = done \cup gone

\* Removed peers leave every stream, and no buffer changes.
LEMMA RemovedEffect ==
    ASSUME Shape, NEW ps, removePeers(ps), streams' = WithoutPeers(streams, ps)
    PROVE  /\ Removes(ps \ done)
           /\ \A v \in Known : streams'[v].buf = streams[v].buf
<1>1. streams \in Streams
  BY DEF Shape
<1>2. /\ streams' \in Streams
      /\ \A u \in Urls : streams'[u] = NoStream <=> streams[u] = NoStream
      /\ \A u \in Urls : streams[u] # NoStream =>
            /\ streams'[u].seeded = streams[u].seeded \ (ps \ done)
            /\ streams'[u].unseeded = streams[u].unseeded \ (ps \ done)
            /\ streams'[u].toAdd = streams[u].toAdd \ (ps \ done)
            /\ streams'[u].buf = streams[u].buf
  BY <1>1, WithoutPeersProperties
<1>3. Known' = Known /\ \A v \in Known : Fewer(v, ps \ done) /\ streams'[v].buf = streams[v].buf
  BY <1>2 DEF Known, Fewer
<1>4. pending' = pending \ (ps \ done) /\ clones' = clones \ (ps \ done) /\ done' = done \cup ps
  BY DEF removePeers
<1>5. done' = done \cup (ps \ done)
  BY <1>4
<1> QED
  BY <1>2, <1>3, <1>4, <1>5 DEF Removes

\* Insert: onto the stream, or removed.
LEMMA InsertEffect ==
    ASSUME Shape, NEW p \in Peers, Insert(p), peer[p].target \in Known
    PROVE  /\ streams' \in Streams /\ Known' = Known
           /\ \A v \in Known : v # peer[p].target => Same(v)
           /\ LET u == peer[p].target IN
              /\ streams'[u].seeded = streams[u].seeded \ {p}
              /\ streams'[u].unseeded = streams[u].unseeded \cup {p}
              /\ streams'[u].toAdd = streams[u].toAdd /\ streams'[u].buf = streams[u].buf
<1>1. PICK u \in Known : u = peer[p].target
  OBVIOUS
<1>2. PICK s : s = [streams[u] EXCEPT !.unseeded = @ \cup {p}, !.seeded = @ \ {p}]
  OBVIOUS
<1>3. streams' = [streams EXCEPT ![u] = s]
  BY <1>1, <1>2 DEF Insert, Shape, Streams, Known
<1>4. streams[u] \in Stream /\ u \in Urls
  BY <1>1 DEF Shape, Streams, Known
<1>5. /\ s \in Stream /\ s.seeded = streams[u].seeded \ {p}
      /\ s.unseeded = streams[u].unseeded \cup {p}
      /\ s.toAdd = streams[u].toAdd /\ s.buf = streams[u].buf
  BY <1>2, <1>4 DEF Stream
<1>6. /\ streams' \in Streams /\ Known' = Known /\ streams'[u] = s
      /\ \A v \in Urls : v # u => streams'[v] = streams[v]
  <2>1. streams \in Streams /\ Known \cup {u} = Known
    BY <1>1 DEF Shape
  <2> QED
    BY <1>3, <1>4, <1>5, <2>1, OneStream
<1>7. \A v \in Known : v # u => Same(v)
  BY <1>6 DEF Same, Fewer, Known
<1> QED
  BY <1>1, <1>5, <1>6, <1>7

\* A change of stream adds its peer to those waiting for a stream, at most.
LEMMA MoveEffect ==
    ASSUME Shape, Move
    PROVE  \E q \in {c.peer : c \in Range(changes)} :
              /\ streams' \in Streams /\ Known' = Known
              /\ \A v \in Known :
                    /\ streams'[v].seeded = streams[v].seeded /\ streams'[v].unseeded = streams[v].unseeded
                    /\ streams[v].toAdd \subseteq streams'[v].toAdd
                    /\ streams'[v].toAdd \subseteq streams[v].toAdd \cup {q}
                    /\ streams'[v].buf = streams[v].buf
<1>1. PICK c : c = Head(changes)
  OBVIOUS
<1>2. c \in Range(changes) /\ c \in Change
  <2>1. changes \in Seq(Change) /\ changes # <<>>
    BY DEF Shape, Move
  <2>2. c = changes[1] /\ 1 \in DOMAIN changes
    BY <1>1, <2>1
  <2>3. changes[1] \in Change
    BY <2>1, <2>2
  <2> QED
    BY <2>2, <2>3 DEF Range
<1>3. CASE c.url \notin Known
  <2>1. streams' = streams
    BY <1>1, <1>3 DEF Move
  <2>2. streams' \in Streams /\ Known' = Known
    BY <2>1 DEF Shape, Known
  <2>3. c.peer \in {d.peer : d \in Range(changes)}
    BY <1>2
  <2> QED
    BY <2>1, <2>2, <2>3
<1>4. CASE c.url \in Known
  <2>1. PICK u \in Known : u = c.url
    BY <1>4
  <2>2. PICK s : s = [streams[u] EXCEPT !.toAdd = @ \cup {c.peer}]
    OBVIOUS
  <2>3. streams' = [streams EXCEPT ![u] = s]
    BY <1>1, <2>1, <2>2 DEF Move
  <2>4. streams[u] \in Stream /\ u \in Urls
    BY <2>1 DEF Shape, Streams, Known
  <2>5. /\ s \in Stream /\ s.seeded = streams[u].seeded /\ s.unseeded = streams[u].unseeded
        /\ s.toAdd = streams[u].toAdd \cup {c.peer} /\ s.buf = streams[u].buf
    BY <1>2, <2>2, <2>4 DEF Stream, Change
  <2>6. /\ streams' \in Streams /\ Known' = Known /\ streams'[u] = s
        /\ \A v \in Urls : v # u => streams'[v] = streams[v]
    <3>1. streams \in Streams /\ Known \cup {u} = Known
      BY <2>1 DEF Shape
    <3> QED
      BY <2>3, <2>4, <2>5, <3>1, OneStream
  <2>7. \A v \in Known :
           /\ streams'[v].seeded = streams[v].seeded /\ streams'[v].unseeded = streams[v].unseeded
           /\ streams[v].toAdd \subseteq streams'[v].toAdd
           /\ streams'[v].toAdd \subseteq streams[v].toAdd \cup {c.peer}
           /\ streams'[v].buf = streams[v].buf
    BY <2>5, <2>6 DEF Known
  <2> QED
    BY <1>2, <2>6, <2>7
<1> QED
  BY <1>3, <1>4

\* Remove: another stream, or pendingPeers if there is none, gets the peers.
LEMMA RemoveStreamEffect ==
    ASSUME Shape, NEW u \in Known, RemoveStream(u)
    PROVE  LET moved == Tracks(u) \cup streams[u].toAdd IN
           /\ streams' \in Streams /\ Known' = Known \ {u}
           /\ sorted' \in Seq(Urls) /\ Lists(sorted', Known')
           /\ released' = released \cup Buffered(u)
           /\ \A v \in Known' :
                 /\ streams'[v].seeded = streams[v].seeded /\ streams'[v].unseeded = streams[v].unseeded
                 /\ streams'[v].toAdd \in {streams[v].toAdd, streams[v].toAdd \cup moved}
                 /\ streams'[v].buf = streams[v].buf
           /\ \/ /\ pending' = pending
                 /\ \E v \in Known' : moved \subseteq streams'[v].toAdd
              \/ pending' = pending \cup moved /\ Known' = {}
<1>1. PICK n \in Nat : n = Len(sorted) /\ DOMAIN sorted = 1 .. n
  BY DEF Shape
<1>2. /\ \A j \in 1 .. n : sorted[j] \in Known
      /\ \A v \in Known : \E j \in 1 .. n : sorted[j] = v
      /\ \A j, k \in 1 .. n : sorted[j] = sorted[k] => j = k
  BY <1>1 DEF Shape, Lists
<1>3. PICK i : i = CHOOSE j \in 1 .. n : sorted[j] = u
  OBVIOUS
<1>4. i \in 1 .. n /\ sorted[i] = u
  BY <1>2, <1>3
<1>5. PICK w : w = IF i > 1 THEN sorted[i - 1] ELSE sorted[i + 1]
  OBVIOUS
<1>6. PICK moved : moved = Tracks(u) \cup streams[u].toAdd
  OBVIOUS
<1>7. PICK left : left = [streams EXCEPT ![u] = NoStream]
  OBVIOUS
<1>8. /\ sorted' = RemoveAt(sorted, i)
      /\ IF n > 1 THEN streams' = [left EXCEPT ![w].toAdd = @ \cup moved] /\ pending' = pending
         ELSE streams' = left /\ pending' = pending \cup moved
      /\ released' = released \cup Buffered(u)
  <2>1. Len(sorted) = n /\ i = CHOOSE j \in 1 .. Len(sorted) : sorted[j] = u
    BY <1>1, <1>3
  <2>2. sorted' = RemoveAt(sorted, i) /\ released' = released \cup Buffered(u)
    BY <2>1 DEF RemoveStream
  <2>3. IF Len(sorted) > 1
        THEN streams' = [left EXCEPT ![w].toAdd = @ \cup moved] /\ UNCHANGED pending
        ELSE streams' = left /\ pending' = pending \cup moved
    BY <1>5, <1>6, <1>7, <2>1 DEF RemoveStream
  <2> QED
    BY <2>1, <2>2, <2>3
<1>9. streams \in Streams /\ u \in Urls
  BY DEF Shape, Known
<1>10. left \in Streams /\ left[u] = NoStream /\ \A v \in Urls : v # u => left[v] = streams[v]
  BY <1>7, <1>9 DEF Streams
<1>11. sorted' \in Seq(Urls) /\ Lists(sorted', Known \ {u})
  <2>1. sorted \in Seq(Urls) /\ Known \in SUBSET Urls /\ Lists(sorted, Known) /\ i \in 1 .. Len(sorted)
    BY <1>1, <1>4 DEF Shape, Known
  <2>2. /\ RemoveAt(sorted, i) \in Seq(Urls)
        /\ Lists(RemoveAt(sorted, i), Known \ {sorted[i]})
    BY <2>1, RemoveAtLists
  <2> QED
    BY <1>4, <1>8, <2>2
<1>12. Tracks(u) \cup streams[u].toAdd \in SUBSET Peers
  BY DEF Shape, Known, Streams, Stream, Tracks
<1>13. CASE n > 1
  <2>1. w \in Known /\ w # u /\ w \in Urls
    <3>1. \E j \in 1 .. n : j # i /\ w = sorted[j]
      <4>1. CASE i > 1
        <5>1. i - 1 \in 1 .. n /\ i - 1 # i
          BY <1>1, <1>4, <4>1
        <5> QED
          BY <1>5, <4>1, <5>1
      <4>2. CASE ~ (i > 1)
        <5>1. i + 1 \in 1 .. n /\ i + 1 # i
          BY <1>1, <1>4, <1>13, <4>2
        <5> QED
          BY <1>5, <4>2, <5>1
      <4> QED
        BY <4>1, <4>2
    <3> QED
      BY <1>2, <1>4, <3>1 DEF Known
  <2>2. PICK s : s = [left[w] EXCEPT !.toAdd = @ \cup moved]
    OBVIOUS
  <2>3. left[w] = streams[w] /\ streams[w] \in Stream
    BY <1>9, <1>10, <2>1 DEF Streams, Known
  <2>4. /\ s \in Stream /\ s.seeded = streams[w].seeded /\ s.unseeded = streams[w].unseeded
        /\ s.toAdd = streams[w].toAdd \cup moved /\ s.buf = streams[w].buf
    BY <1>6, <1>12, <2>2, <2>3 DEF Stream
  <2>5. streams' = [left EXCEPT ![w] = s] /\ pending' = pending
    BY <1>8, <1>13, <2>2
  <2>6. /\ streams' \in Streams /\ streams'[w] = s /\ streams'[u] = NoStream
        /\ \A v \in Urls : v # u /\ v # w => streams'[v] = streams[v]
    BY <1>9, <1>10, <2>1, <2>4, <2>5 DEF Streams
  <2>7. Known' = Known \ {u}
    BY <1>9, <2>1, <2>4, <2>6, StreamsDiffer DEF Known
  <2>8. \A v \in Known' :
           /\ streams'[v].seeded = streams[v].seeded /\ streams'[v].unseeded = streams[v].unseeded
           /\ streams'[v].toAdd \in {streams[v].toAdd, streams[v].toAdd \cup moved}
           /\ streams'[v].buf = streams[v].buf
    <3> SUFFICES ASSUME NEW v \in Known'
                 PROVE  /\ streams'[v].seeded = streams[v].seeded
                        /\ streams'[v].unseeded = streams[v].unseeded
                        /\ streams'[v].toAdd \in {streams[v].toAdd, streams[v].toAdd \cup moved}
                        /\ streams'[v].buf = streams[v].buf
      OBVIOUS
    <3>1. CASE v = w
      BY <2>4, <2>6, <3>1
    <3>2. CASE v # w
      BY <2>6, <2>7, <3>2 DEF Known
    <3> QED
      BY <3>1, <3>2
  <2>9. w \in Known' /\ moved \subseteq streams'[w].toAdd
    BY <2>1, <2>4, <2>6, <2>7
  <2> QED
    BY <1>6, <1>8, <1>11, <2>5, <2>6, <2>7, <2>8, <2>9
<1>14. CASE ~ (n > 1)
  <2>1. Known = {u}
    <3>1. \A v \in Known : v = u
      BY <1>1, <1>2, <1>4, <1>14
    <3> QED
      BY <3>1
  <2>2. streams' = left /\ pending' = pending \cup moved
    BY <1>8, <1>14
  <2>3. Known' = {}
    BY <1>10, <2>1, <2>2 DEF Known
  <2> QED
    BY <1>6, <1>8, <1>10, <1>11, <2>1, <2>2, <2>3
<1> QED
  BY <1>1, <1>13, <1>14

\* What a packet of u does, before it is stored: nothing; a new stream; or a
\* stream with an empty buffer, without its peers if the codec type is another.
PacketAdds(u) ==
    /\ u \notin Known /\ Known' = Known \cup {u}
    /\ \A v \in Known : Same(v)
    /\ streams'[u].seeded = pending /\ streams'[u].unseeded = {} /\ streams'[u].toAdd = {}
    /\ streams'[u].buf = <<>>
    /\ pending' = {} /\ UNCHANGED <<done, clones, released>>
PacketKeeps ==
    /\ Known' = Known
    /\ \A v \in Known : Same(v)
    /\ UNCHANGED <<pending, done, clones, released, told>>
PacketUpdates(u) ==
    /\ u \in Known /\ Known' = Known
    /\ \E gone \in {{}, Tracks(u) \cup streams[u].toAdd} :
          /\ \A v \in Known : v # u => Fewer(v, gone \ done) /\ streams'[v].buf = streams[v].buf
          /\ Fewer(u, gone) /\ streams'[u].buf = <<>>
          /\ pending' = pending \ (gone \ done) /\ clones' = clones \ (gone \ done)
          /\ done' = done \cup gone /\ released' = released \cup Buffered(u)
    /\ pending' \subseteq told'

\* A packet adds a stream, updates one or leaves them all as they are.
LEMMA PacketEffect ==
    ASSUME Shape, pending \in SUBSET Peers, NEW u \in Urls, NEW kind, NEW p \in Pars, Packet(u, kind, p)
    PROVE  /\ PacketAdds(u) \/ PacketKeeps \/ PacketUpdates(u)
           /\ streams' \in Streams /\ sorted' \in Seq(Urls) /\ Lists(sorted', Known')
<1>1. PICK c : /\ c = checkCodecParameters(u, kind # "audio", p)
               /\ streams' = WithoutPeers(c.strs, c.gone) /\ sorted' = c.sorted
               /\ pending' = c.pending \ (c.gone \ done) /\ done' = done \cup c.gone
               /\ clones' = clones \ (c.gone \ done)
               /\ released' = released \cup c.freed
               /\ IF c.listed THEN sendAvailableStreams ELSE UNCHANGED told
  BY DEF Packet
<1>2. /\ streams \in Streams /\ sorted \in Seq(Urls) /\ Lists(sorted, Known)
      /\ Known \in SUBSET Urls
  BY DEF Shape, Known
<1>3. CASE c = Unchanged
  <2>1. /\ c.strs = streams /\ c.sorted = sorted /\ c.pending = pending /\ c.gone = {}
        /\ c.freed = {} /\ c.listed = FALSE
    BY <1>3 DEF Unchanged
  <2>2. streams' = streams
    BY <1>1, <1>2, <2>1, NobodyRemoved
  <2>3. Known' = Known /\ \A v \in Known : Same(v)
    BY <2>2 DEF Known, Same, Fewer
  <2>4. UNCHANGED <<pending, done, clones, released, told>> /\ sorted' = sorted
    BY <1>1, <2>1
  <2> QED
    BY <1>2, <2>2, <2>3, <2>4 DEF PacketKeeps
<1>4. CASE u \notin Known /\ c = Add(u, p)
  <2>1. PICK s : s = [NewStream(p) EXCEPT !.seeded = pending]
    OBVIOUS
  <2>2. /\ s \in Stream /\ s.seeded = pending /\ s.unseeded = {} /\ s.toAdd = {} /\ s.buf = <<>>
    <3>1. <<>> \in Seq(Pkts) /\ {} \in SUBSET Peers
      OBVIOUS
    <3> QED
      BY <2>1, <3>1 DEF NewStream, Stream
  <2>3. PICK strs : strs = [streams EXCEPT ![u] = s]
    OBVIOUS
  <2>4. strs \in Streams /\ strs[u] = s /\ \A v \in Urls : v # u => strs[v] = streams[v]
    BY <1>2, <2>2, <2>3 DEF Streams
  <2>5. /\ c.strs = strs /\ c.sorted = Resort(strs, Append(sorted, u)) /\ c.pending = {}
        /\ c.gone = {} /\ c.freed = {} /\ c.listed = TRUE
    BY <1>4, <2>1, <2>3 DEF Add, Unchanged
  <2>6. streams' = strs
    BY <1>1, <2>4, <2>5, NobodyRemoved
  <2>7. s # NoStream
    BY <2>2, StreamsDiffer
  <2>8. Known' = Known \cup {u}
    BY <2>4, <2>6, <2>7 DEF Known
  <2>9. \A v \in Known : Same(v)
    BY <1>4, <2>4, <2>6 DEF Known, Same, Fewer
  <2>10. /\ streams'[u].seeded = pending /\ streams'[u].unseeded = {} /\ streams'[u].toAdd = {}
         /\ streams'[u].buf = <<>>
    BY <2>2, <2>4, <2>6, <2>7
  <2>11. pending' = {} /\ UNCHANGED <<done, clones, released>>
    BY <1>1, <2>5
  <2>12. sorted' \in Seq(Urls) /\ Lists(sorted', Known')
    <3>1. PICK urls : urls = Append(sorted, u)
      OBVIOUS
    <3>2. urls \in Seq(Urls) /\ Lists(urls, Known \cup {u})
      BY <1>2, <1>4, <3>1, AppendLists
    <3>3. urls # <<>>
      BY <1>2, <3>1, AppendProperties
    <3>4. Known \cup {u} \in SUBSET Urls
      BY <1>2
    <3>5. sorted' = sortURLsByResolution(urls, Resolutions(strs))
      BY <1>1, <2>5, <3>1 DEF Resort
    <3> QED
      BY <2>8, <3>2, <3>3, <3>4, <3>5, SortListsTheSame
  <2> QED
    BY <1>4, <2>4, <2>6, <2>8, <2>9, <2>10, <2>11, <2>12 DEF PacketAdds
<1>5. CASE u \in Known /\ c = Update(u, p)
  <2>1. PICK gone : gone = IF p.type # streams[u].par.type THEN Tracks(u) \cup streams[u].toAdd ELSE {}
    OBVIOUS
  <2>2. PICK s, strs : /\ s = IF p.type # streams[u].par.type THEN NewStream(p)
                              ELSE [streams[u] EXCEPT !.par = p, !.buf = <<>>]
                       /\ strs = [streams EXCEPT ![u] = s]
    OBVIOUS
  <2>3. /\ strs \in Streams
        /\ \A v \in Urls : v # u => strs[v] = streams[v]
        /\ strs[u] \in Stream
        /\ strs[u].seeded = streams[u].seeded \ gone
        /\ strs[u].unseeded = streams[u].unseeded \ gone
        /\ strs[u].toAdd = streams[u].toAdd \ gone
        /\ strs[u].buf = <<>>
    <3>1. /\ s \in Stream
          /\ s.seeded = streams[u].seeded \ gone
          /\ s.unseeded = streams[u].unseeded \ gone
          /\ s.toAdd = streams[u].toAdd \ gone
          /\ s.buf = <<>>
      <4>1. streams[u] \in Stream
        BY <1>5 DEF Shape, Known, Streams
      <4>2. CASE p.type # streams[u].par.type
        BY <2>1, <2>2, <4>1, <4>2 DEF NewStream, Stream, Tracks
      <4>3. CASE p.type = streams[u].par.type
        <5>1. gone = {} /\ s = [streams[u] EXCEPT !.par = p, !.buf = <<>>] /\ <<>> \in Seq(Pkts)
          BY <2>1, <2>2, <4>3
        <5> QED
          BY <4>1, <5>1 DEF Stream
      <4> QED
        BY <4>2, <4>3
    <3>2. strs \in Streams /\ strs[u] = s /\ \A v \in Urls : v # u => strs[v] = streams[v]
      BY <1>2, <2>2, <3>1 DEF Streams
    <3> QED
      BY <3>1, <3>2
  <2>4. /\ c.strs = strs /\ c.sorted = Resort(strs, sorted) /\ c.pending = pending
        /\ c.gone = gone /\ c.freed = Buffered(u) /\ c.listed = TRUE
    BY <1>5, <2>1, <2>2 DEF Update, Unchanged
  <2>5. /\ streams' \in Streams
        /\ \A v \in Urls : streams'[v] = NoStream <=> strs[v] = NoStream
        /\ \A v \in Urls : strs[v] # NoStream =>
              /\ streams'[v].seeded = strs[v].seeded \ (gone \ done)
              /\ streams'[v].unseeded = strs[v].unseeded \ (gone \ done)
              /\ streams'[v].toAdd = strs[v].toAdd \ (gone \ done)
              /\ streams'[v].buf = strs[v].buf
    <3>1. streams' = WithoutPeers(strs, gone)
      BY <1>1, <2>4
    <3> QED
      BY <2>3, <3>1, WithoutPeersProperties
  <2>6. strs[u] # NoStream
    BY <2>3, StreamsDiffer
  <2>7. Known' = Known
    BY <1>5, <2>3, <2>5, <2>6 DEF Known
  <2>8. \A v \in Known : v # u => Fewer(v, gone \ done) /\ streams'[v].buf = streams[v].buf
    BY <2>3, <2>5 DEF Known, Fewer
  <2>9. Fewer(u, gone) /\ streams'[u].buf = <<>>
    BY <2>3, <2>5, <2>6 DEF Fewer
  <2>10. /\ pending' = pending \ (gone \ done) /\ clones' = clones \ (gone \ done)
         /\ done' = done \cup gone /\ released' = released \cup Buffered(u)
    BY <1>1, <2>4
  <2>11. pending' \subseteq told'
    BY <1>1, <2>4 DEF sendAvailableStreams
  <2>12. sorted' \in Seq(Urls) /\ Lists(sorted', Known')
    <3>1. sorted # <<>>
      BY <1>2, <1>5 DEF Lists
    <3>2. sorted' = sortURLsByResolution(sorted, Resolutions(strs))
      BY <1>1, <2>4 DEF Resort
    <3> QED
      BY <1>2, <2>7, <3>1, <3>2, SortListsTheSame
  <2>13. gone \in {{}, Tracks(u) \cup streams[u].toAdd}
    BY <2>1
  <2>14. PacketUpdates(u)
    BY <1>5, <2>7, <2>8, <2>9, <2>10, <2>11, <2>13 DEF PacketUpdates
  <2> QED
    BY <2>5, <2>12, <2>14
<1> QED
  BY <1>1, <1>3, <1>4, <1>5 DEF checkCodecParameters

\* Store: the buffer only.
LEMMA StoreEffect ==
    ASSUME Shape, Store, Buffers
    PROVE  /\ job.url \in Known /\ streams' \in Streams /\ Known' = Known
           /\ \A v \in Known : Fewer(v, {})
           /\ \A v \in Known : v # job.url => streams'[v].buf = streams[v].buf
           /\ Leaves(Append(streams[job.url].buf, job.pkt), streams'[job.url].buf, Pkts)
           /\ released' = released \cup {<<q.url, q.id>> : q \in
                    Range(Append(streams[job.url].buf, job.pkt)) \ Range(streams'[job.url].buf)}
           /\ LET dropped == Range(Append(streams[job.url].buf, job.pkt)) \ Range(streams'[job.url].buf)
              IN cut' = cut \cup {<<q.url, q.vid>> : q \in
                           {r \in dropped : Video(r) /\ r.id > streams'[job.url].buf[1].id}}
<1>1. PICK u \in Known : u = job.url
  BY DEF Store, Strm, Shape, Known
<1>2. streams[u] \in Stream /\ u \in Urls /\ job.pkt \in Pkts
  BY <1>1 DEF Store, Shape, Streams, Known
<1>3. PICK buf \in Seq(Pkts) : buf = streams[u].buf
  BY <1>2 DEF Stream
<1>4. PICK after : after = AddPacket(buf, job.pkt)
  OBVIOUS
<1>5. Leaves(Append(buf, job.pkt), after, Pkts)
  <2>1. Stores(buf, job.pkt) /\ (buf # <<>> => Key(buf[1]))
    BY <1>1, <1>3 DEF Store, Strm, Pkt, Buffers, BufferOf
  <2> QED
    BY <1>2, <1>4, <2>1, AddPacketProperties
<1>6. /\ streams' = [streams EXCEPT ![u].buf = after]
      /\ released' = released \cup {<<q.url, q.id>> : q \in Range(Append(buf, job.pkt)) \ Range(after)}
      /\ cut' = cut \cup {<<q.url, q.vid>> : q \in {r \in Range(Append(buf, job.pkt)) \ Range(after) :
                                                       Video(r) /\ r.id > Head(after).id}}
  BY <1>1, <1>3, <1>4 DEF Store, Strm, Pkt
<1>7. PICK s : s = [streams[u] EXCEPT !.buf = after]
  OBVIOUS
<1>8. streams' = [streams EXCEPT ![u] = s]
  BY <1>6, <1>7
<1>9. /\ s \in Stream /\ s.seeded = streams[u].seeded /\ s.unseeded = streams[u].unseeded
      /\ s.toAdd = streams[u].toAdd /\ s.buf = after
  BY <1>2, <1>5, <1>7 DEF Stream, Leaves
<1>10. /\ streams' \in Streams /\ Known' = Known /\ streams'[u] = s
       /\ \A v \in Urls : v # u => streams'[v] = streams[v]
  <2>1. streams \in Streams /\ Known \cup {u} = Known
    BY DEF Shape
  <2> QED
    BY <1>2, <1>8, <1>9, <2>1, OneStream
<1>11. \A v \in Known : Fewer(v, {}) /\ (v # u => streams'[v].buf = streams[v].buf)
  BY <1>9, <1>10 DEF Fewer, Known
<1>12. Head(after) = after[1]
  BY <1>5 DEF Leaves
<1>13. streams'[u].buf = after
  BY <1>9, <1>10
<1>14. PICK dropped : dropped = Range(Append(buf, job.pkt)) \ Range(after)
  OBVIOUS
<1>15. cut' = cut \cup {<<q.url, q.vid>> : q \in {r \in dropped : Video(r) /\ r.id > after[1].id}}
  BY <1>6, <1>12, <1>14
<1> QED
  BY <1>1, <1>3, <1>5, <1>6, <1>10, <1>11, <1>13, <1>14, <1>15

\* A peer joins the stream of the packet, from wherever it was; or is not ready.
Joins(q, u) ==
    /\ streams' \in Streams /\ Known' = Known /\ u \in Known
    /\ \A v \in Known :
          /\ streams'[v].unseeded = streams[v].unseeded \ {q}
          /\ streams'[v].toAdd = IF v = u THEN streams[v].toAdd \ {q} ELSE streams[v].toAdd
          /\ streams'[v].buf = streams[v].buf
          /\ v # u => streams'[v].seeded = streams[v].seeded \ {q}
    /\ \/ streams'[u].seeded = (streams[u].seeded \ {q}) \cup {q}
       \/ streams'[u].seeded = streams[u].seeded \ {q} /\ q \in done
    /\ clones' \in {clones, clones \cup ({q} \ done)}

\* A peer that joins moves within one stream and nobody else does.
LEMMA JoinedProperties ==
    ASSUME NEW q, NEW u, Joins(q, u), NEW v \in Known
    PROVE  /\ streams'[v].unseeded = streams[v].unseeded \ {q}
           /\ streams[v].toAdd \ {q} \subseteq streams'[v].toAdd
           /\ streams'[v].toAdd \subseteq streams[v].toAdd
           /\ streams[v].seeded \ {q} \subseteq streams'[v].seeded
           /\ streams'[v].seeded \subseteq streams[v].seeded \cup {q}
<1>1. streams'[v].unseeded = streams[v].unseeded \ {q}
  BY DEF Joins
<1>2. streams'[v].toAdd = IF v = u THEN streams[v].toAdd \ {q} ELSE streams[v].toAdd
  BY DEF Joins
<1>3. CASE v = u
  <2>1. \/ streams'[u].seeded = (streams[u].seeded \ {q}) \cup {q}
        \/ streams'[u].seeded = streams[u].seeded \ {q}
    BY DEF Joins
  <2> QED
    BY <1>1, <1>2, <1>3, <2>1
<1>4. CASE v # u
  <2>1. streams'[v].seeded = streams[v].seeded \ {q}
    BY <1>4 DEF Joins
  <2> QED
    BY <1>1, <1>2, <1>4, <2>1
<1> QED
  BY <1>3, <1>4

\* The tracks of a pending peer join the stream, or nothing changes.
LEMMA JoinEffect ==
    ASSUME Shape, NEW q \in Peers, processPendingTracks(q)
    PROVE  Joins(q, job.url) \/ UNCHANGED <<streams, clones, feed>>
<1>1. PICK u \in Known : u = job.url
  BY DEF Shape, processPendingTracks
<1>2. PICK c : IF ~ c.ok THEN UNCHANGED <<streams, feed, clones>>
               ELSE /\ streams' = moveTrackToStream(q, c.buf)
                    /\ IF q \in done \/ c.buf = <<>> THEN UNCHANGED <<feed, clones>>
                       ELSE /\ feed' = [feed EXCEPT ![q] = Offered(q, c.buf)]
                            /\ clones' = clones \cup {q}
  BY DEF processPendingTracks
<1>3. CASE ~ c.ok
  BY <1>2, <1>3
<1>4. CASE c.ok
  <2>1. streams' = moveTrackToStream(q, c.buf) /\ clones' \in {clones, clones \cup ({q} \ done)}
    BY <1>2, <1>4
  <2>2. \A v \in Urls : streams'[v] = IF v \notin Known THEN NoStream
                                      ELSE IF v = u THEN Joined(q, c.buf) ELSE Alone(v, q)
    BY <1>1, <2>1 DEF moveTrackToStream
  <2>3. ASSUME NEW v \in Known, v # u
        PROVE  /\ streams'[v] \in Stream
               /\ streams'[v].unseeded = streams[v].unseeded \ {q}
               /\ streams'[v].toAdd = streams[v].toAdd
               /\ streams'[v].buf = streams[v].buf
               /\ streams'[v].seeded = streams[v].seeded \ {q}
    <3>1. PICK s \in Stream : s = streams[v]
      BY DEF Shape, Streams, Known
    <3>2. PICK w : w = [s EXCEPT !.seeded = @ \ {q}, !.unseeded = @ \ {q}]
      OBVIOUS
    <3>3. streams'[v] = w
      BY <2>2, <2>3, <3>1, <3>2 DEF Alone, Known
    <3>4. w.seeded = s.seeded \ {q} /\ w.unseeded = s.unseeded \ {q}
      BY <3>2 DEF Stream
    <3>5. w.toAdd = s.toAdd /\ w.buf = s.buf
      BY <3>2 DEF Stream
    <3>6. w \in Stream
      BY <3>2 DEF Stream
    <3> QED
      BY <3>1, <3>3, <3>4, <3>5, <3>6
  <2>4. /\ streams'[u] \in Stream
        /\ streams'[u].unseeded = streams[u].unseeded \ {q}
        /\ streams'[u].toAdd = streams[u].toAdd \ {q}
        /\ streams'[u].buf = streams[u].buf
        /\ \/ streams'[u].seeded = (streams[u].seeded \ {q}) \cup {q}
           \/ streams'[u].seeded = streams[u].seeded \ {q} /\ q \in done
    <3>1. PICK s \in Stream : s = streams[u]
      BY <1>1 DEF Shape, Streams, Known
    <3>2. PICK w : w = [s EXCEPT !.seeded = @ \ {q}, !.unseeded = @ \ {q}, !.toAdd = @ \ {q}]
      OBVIOUS
    <3>3. /\ w \in Stream /\ w.seeded = s.seeded \ {q} /\ w.unseeded = s.unseeded \ {q}
          /\ w.toAdd = s.toAdd \ {q} /\ w.buf = s.buf
      BY <3>2 DEF Stream
    <3>4. streams'[u] = [w EXCEPT !.seeded = IF q \in done /\ c.buf # <<>> THEN @ ELSE @ \cup {q}]
      BY <1>1, <2>2, <3>1, <3>2 DEF Joined, Without, Strm, Known
    <3>5. CASE q \in done /\ c.buf # <<>>
      <4>1. streams'[u] = [w EXCEPT !.seeded = w.seeded]
        BY <3>4, <3>5
      <4> QED
        BY <3>1, <3>3, <3>5, <4>1 DEF Stream
    <3>6. CASE ~ (q \in done /\ c.buf # <<>>)
      <4>1. streams'[u] = [w EXCEPT !.seeded = w.seeded \cup {q}]
        BY <3>4, <3>6
      <4> QED
        BY <3>1, <3>3, <3>6, <4>1 DEF Stream
    <3> QED
      BY <3>5, <3>6
  <2>5. streams' \in Streams
    <3>1. streams' = [v \in Urls |-> streams'[v]]
      BY <2>1 DEF moveTrackToStream
    <3>2. \A v \in Urls : streams'[v] \in {NoStream} \cup Stream
      BY <2>2, <2>3, <2>4
    <3> QED
      BY <3>1, <3>2 DEF Streams
  <2>6. Known' = Known
    <3>1. \A v \in Urls : v \in Known <=> streams'[v] # NoStream
      BY <2>2, <2>3, <2>4, StreamsDiffer
    <3> QED
      BY <3>1 DEF Known
  <2>7. Joins(q, u)
    BY <1>1, <2>1, <2>3, <2>4, <2>5, <2>6 DEF Joins
  <2> QED
    BY <1>1, <2>7
<1> QED
  BY <1>3, <1>4

\* A peer of the stream is seeded, found closed, or removed.
Seeds(q, u) ==
    /\ u \in Known /\ q \in streams[u].unseeded
    /\ streams' \in Streams /\ Known' = Known
    /\ \A v \in Known : v # u => Same(v)
    /\ streams'[u].unseeded = streams[u].unseeded \ {q}
    /\ streams'[u].toAdd = streams[u].toAdd /\ streams'[u].buf = streams[u].buf
    /\ UNCHANGED <<pending, done>>

\* A peer that is seeded has the clones of the buffer, unless it is gone.
LEMMA SeedEffect ==
    ASSUME Shape, NEW q \in Peers, seedTrack(q)
    PROVE  \/ /\ Seeds(q, job.url) /\ q \in done
              /\ streams'[job.url].seeded = streams[job.url].seeded
              /\ clones' \in {clones, clones \cup {q}}
           \/ /\ Seeds(q, job.url) /\ q \notin done
              /\ streams'[job.url].seeded = streams[job.url].seeded \cup {q}
              /\ clones' = clones \cup {q}
           \/ /\ Removes({q}) /\ q \notin done
              /\ \A v \in Known : streams'[v].buf = streams[v].buf
<1>1. PICK u \in Known : u = job.url
  BY DEF Shape, seedTrack
<1>2. u \in Urls /\ streams[u] \in Stream /\ q \in streams[u].unseeded
  BY <1>1 DEF Shape, Streams, Known, seedTrack, Strm
<1>3. PICK s : s = streams[u] /\ s \in Stream
  BY <1>2
<1>4. ASSUME NEW w \in Stream, streams' = [streams EXCEPT ![u] = w], UNCHANGED <<pending, done>>,
             w.unseeded = s.unseeded \ {q}, w.toAdd = s.toAdd, w.buf = s.buf
      PROVE  Seeds(q, u) /\ streams'[u] = w
  <2>1. streams \in Streams /\ Known \cup {u} = Known
    BY DEF Shape
  <2>2. /\ streams' \in Streams /\ Known' = Known /\ streams'[u] = w
        /\ \A v \in Urls : v # u => streams'[v] = streams[v]
    BY <1>2, <1>4, <2>1, OneStream
  <2>3. \A v \in Known : v # u => Same(v)
    BY <2>2 DEF Same, Fewer, Known
  <2> QED
    BY <1>2, <1>3, <1>4, <2>2, <2>3 DEF Seeds
<1>5. CASE q \in done
  <2>1. PICK w : w = [s EXCEPT !.unseeded = @ \ {q}]
    OBVIOUS
  <2>2. /\ w \in Stream /\ w.seeded = s.seeded /\ w.unseeded = s.unseeded \ {q}
        /\ w.toAdd = s.toAdd /\ w.buf = s.buf
    BY <1>3, <2>1 DEF Stream
  <2>3. /\ streams' = [streams EXCEPT ![u] = w] /\ clones' \in {clones, clones \cup {q}}
        /\ UNCHANGED <<pending, done>>
    BY <1>1, <1>3, <1>5, <2>1 DEF seedTrack
  <2>4. Seeds(q, u) /\ streams'[u] = w
    BY <1>4, <2>2, <2>3
  <2> QED
    BY <1>1, <1>3, <1>5, <2>2, <2>3, <2>4
<1>6. CASE q \notin done /\ removePeers({q}) /\ streams' = WithoutPeers(streams, {q})
  <2>1. {q} \ done = {q}
    BY <1>6
  <2>2. /\ Removes({q} \ done)
        /\ \A v \in Known : streams'[v].buf = streams[v].buf
    BY <1>6, RemovedEffect
  <2> QED
    BY <1>6, <2>1, <2>2
<1>7. CASE /\ q \notin done /\ UNCHANGED <<pending, done>> /\ clones' = clones \cup {q}
           /\ streams' = [streams EXCEPT ![job.url].unseeded = @ \ {q}, ![job.url].seeded = @ \cup {q}]
  <2>1. PICK w : w = [s EXCEPT !.unseeded = @ \ {q}, !.seeded = @ \cup {q}]
    OBVIOUS
  <2>2. /\ w \in Stream /\ w.seeded = s.seeded \cup {q} /\ w.unseeded = s.unseeded \ {q}
        /\ w.toAdd = s.toAdd /\ w.buf = s.buf
    BY <1>3, <2>1 DEF Stream
  <2>3. streams' = [streams EXCEPT ![u] = w]
    BY <1>1, <1>2, <1>3, <1>7, <2>1 DEF Shape, Streams
  <2>4. Seeds(q, u) /\ streams'[u] = w
    BY <1>4, <1>7, <2>2, <2>3
  <2> QED
    BY <1>1, <1>3, <1>7, <2>2, <2>4
<1> QED
  BY <1>5, <1>6, <1>7 DEF seedTrack

\* Release takes every peer out of the streams and empties the buffers.
LEMMA ReleaseEffect ==
    ASSUME Shape, Release
    PROVE  \E gone : /\ Removes(gone) /\ gone \subseteq Places
                     /\ \A v \in Known : streams'[v].buf = <<>>
<1>1. PICK all : /\ removePeers(all)
                 /\ all = pending \cup UNION {Tracks(u) : u \in Known}
                 /\ streams' = [u \in Urls |-> IF u \in Known
                          THEN [WithoutPeers(streams, all)[u] EXCEPT !.buf = <<>>] ELSE NoStream]
  BY DEF Release
<1>2. PICK w : w = WithoutPeers(streams, all)
  OBVIOUS
<1>3. /\ w \in Streams
      /\ \A u \in Urls : w[u] = NoStream <=> streams[u] = NoStream
      /\ \A u \in Urls : streams[u] # NoStream =>
            /\ w[u].seeded = streams[u].seeded \ (all \ done)
            /\ w[u].unseeded = streams[u].unseeded \ (all \ done)
            /\ w[u].toAdd = streams[u].toAdd \ (all \ done)
  BY <1>2, WithoutPeersProperties DEF Shape
<1>4. ASSUME NEW v \in Known
      PROVE  streams'[v] \in Stream /\ Fewer(v, all \ done) /\ streams'[v].buf = <<>>
  <2>1. v \in Urls /\ streams[v] # NoStream
    BY DEF Known
  <2>2. PICK s \in Stream : s = w[v]
    BY <1>3, <2>1 DEF Streams
  <2>3. streams'[v] = [s EXCEPT !.buf = <<>>]
    BY <1>1, <1>2, <2>1, <2>2
  <2>4. /\ streams'[v] \in Stream /\ streams'[v].buf = <<>>
        /\ streams'[v].seeded = s.seeded /\ streams'[v].unseeded = s.unseeded
        /\ streams'[v].toAdd = s.toAdd
    <3>1. <<>> \in Seq(Pkts)
      OBVIOUS
    <3> QED
      BY <2>3, <3>1 DEF Stream
  <2> QED
    BY <1>3, <2>1, <2>2, <2>4 DEF Fewer
<1>5. \A v \in Urls : v \notin Known => streams'[v] = NoStream
  BY <1>1
<1>6. streams' \in Streams
  <2>1. streams' = [v \in Urls |-> streams'[v]]
    BY <1>1
  <2>2. \A v \in Urls : streams'[v] \in {NoStream} \cup Stream
    BY <1>4, <1>5
  <2> QED
    BY <2>1, <2>2 DEF Streams
<1>7. Known' = Known
  <2>1. \A v \in Urls : v \in Known <=> streams'[v] # NoStream
    BY <1>4, <1>5, StreamsDiffer
  <2> QED
    BY <2>1 DEF Known
<1>8. /\ pending' = pending \ (all \ done) /\ clones' = clones \ (all \ done)
      /\ done' = done \cup all /\ done' = done \cup (all \ done)
  BY <1>1 DEF removePeers
<1>9. all \subseteq Places
  <2>1. UNION {Tracks(u) : u \in Known} \subseteq OnStreams
    BY DEF OnStreams, Of
  <2>2. pending \cup OnStreams \subseteq Places
    BY DEF Places
  <2> QED
    BY <1>1, <2>1, <2>2
<1> QED
  BY <1>4, <1>6, <1>7, <1>8, <1>9 DEF Removes

-----------------------------------------------------------------------------
(* The shape of the state *)

\* A new writer has the shape.
LEMMA ShapeInit == Init => Shape
<1> SUFFICES ASSUME Init
             PROVE  Shape
  OBVIOUS
<1>1. streams \in Streams /\ Known = {}
  BY DEF Init, Streams, Known
<1>2. sorted \in Seq(Urls) /\ Lists(sorted, Known)
  BY <1>1 DEF Init, Lists
<1>3. peer \in [Peers -> {NoPeer} \cup Connection]
  BY DEF Init
<1>4. changes \in Seq(Change)
  <2>1. changes = <<>> /\ <<>> \in Seq(Change)
    BY DEF Init
  <2> QED
    BY <2>1
<1>5. got \in [Urls -> Nat] /\ vid \in [Urls -> Nat] /\ par \in [Urls -> Pars]
  BY DEF Init, Pars
<1>6. pc = "idle"
  BY DEF Init
<1> QED
  BY <1>1, <1>2, <1>3, <1>4, <1>5, <1>6 DEF Shape

\* Nothing but the streams changes in Shape.
LEMMA ShapeStreams ==
    ASSUME Shape, streams' \in Streams, Known' = Known,
           UNCHANGED <<sorted, peer, changes, got, vid, par, pc, job>>
    PROVE  Shape'
BY DEF Shape

\* What changes a connection only keeps the shape.
LEMMA ShapePeer ==
    ASSUME Shape, UNCHANGED <<streams, sorted, changes, got, vid, par, pc, job>>,
           peer' \in [Peers -> {NoPeer} \cup Connection]
    PROVE  Shape'
<1>1. Known' = Known
  BY DEF Known
<1> QED
  BY <1>1 DEF Shape

\* An action of one connection.
PeerChange(p) ==
    /\ peer' \in [Peers -> {NoPeer} \cup Connection] /\ peer'[p] \in Connection
    /\ \A q \in Peers : q # p => peer'[q] = peer[q]

\* A connection that is made is of a new peer, and not open.
LEMMA ConnectPeer ==
    ASSUME Shape, NEW p \in Peers, NEW u \in Urls, Connect(p, u)
    PROVE  PeerChange(p) /\ peer[p] = NoPeer /\ peer'[p].state # "open"
<1>1. streams[u].par.type \in Types
  BY DEF Connect, Asked, Shape, Streams, Known, Stream, Pars
<1>2. PICK state \in {"negotiating", "failed"} :
         peer' = [peer EXCEPT ![p] = [state |-> state, target |-> u, type |-> streams[u].par.type,
                                      lost |-> FALSE, late |-> FALSE, asked |-> 0]]
  BY DEF Connect, addConnection
<1>3. PICK c : c = [state |-> state, target |-> u, type |-> streams[u].par.type,
                    lost |-> FALSE, late |-> FALSE, asked |-> 0]
  OBVIOUS
<1>4. c \in Connection /\ c.state # "open"
  BY <1>1, <1>3 DEF Connection
<1>5. peer' = [peer EXCEPT ![p] = c]
  BY <1>2, <1>3
<1> QED
  BY <1>4, <1>5 DEF Shape, PeerChange, Connect, Asked

\* A peer that chooses a stream is open.
LEMMA ChoosePeer ==
    ASSUME Shape, NEW p \in Peers, NEW u \in Urls, ChooseStream(p, u)
    PROVE  PeerChange(p) /\ peer'[p].state = "open" /\ peer'[p].late = peer[p].late
<1>1. peer[p] # NoPeer /\ peer[p].state = "open"
  BY DEF ChooseStream, NoPeer
<1>2. peer \in [Peers -> {NoPeer} \cup Connection]
  BY DEF Shape
<1>3. PICK c \in Connection : c = peer[p]
  BY <1>1, <1>2
<1>4. PICK d : d = [c EXCEPT !.asked = @ + 1]
  OBVIOUS
<1>5. peer' = [peer EXCEPT ![p] = d]
  BY <1>3, <1>4 DEF ChooseStream
<1>6. d \in Connection /\ d.state = c.state /\ d.late = c.late
  BY <1>4 DEF Connection
<1> QED
  BY <1>1, <1>2, <1>3, <1>5, <1>6 DEF PeerChange

\* A peer whose channel opens is open then.
LEMMA OpensPeer ==
    ASSUME Shape, NEW p \in Peers, ChannelOpens(p)
    PROVE  PeerChange(p) /\ peer'[p].state = "open" /\ peer'[p].late = peer[p].late
<1>1. peer[p] # NoPeer
  BY DEF ChannelOpens, NoPeer
<1>2. peer \in [Peers -> {NoPeer} \cup Connection]
  BY DEF Shape
<1>3. PICK c \in Connection : c = peer[p]
  BY <1>1, <1>2
<1>4. PICK d : d = [c EXCEPT !.state = "open"]
  OBVIOUS
<1>5. peer' = [peer EXCEPT ![p] = d]
  BY <1>3, <1>4 DEF ChannelOpens
<1>6. d \in Connection /\ d.state = "open" /\ d.late = c.late
  BY <1>4 DEF Connection
<1> QED
  BY <1>2, <1>3, <1>5, <1>6 DEF PeerChange

\* A connection that is lost is one there was.
LEMMA LostPeer ==
    ASSUME Shape, NEW p \in Peers, ConnectionLost(p)
    PROVE  /\ PeerChange(p) /\ peer'[p].state = peer[p].state /\ peer'[p].late = peer[p].late
           /\ peer[p] # NoPeer
<1>1. peer[p] # NoPeer
  BY DEF ConnectionLost
<1>2. peer \in [Peers -> {NoPeer} \cup Connection]
  BY DEF Shape
<1>3. PICK c \in Connection : c = peer[p]
  BY <1>1, <1>2
<1>4. PICK d : d = [c EXCEPT !.lost = TRUE]
  OBVIOUS
<1>5. peer' = [peer EXCEPT ![p] = d]
  BY <1>3, <1>4 DEF ConnectionLost
<1>6. d \in Connection /\ d.state = c.state /\ d.late = c.late
  BY <1>4 DEF Connection
<1> QED
  BY <1>1, <1>2, <1>3, <1>5, <1>6 DEF PeerChange

\* Insert notes whether the peer was done before it came.
LEMMA InsertPeer ==
    ASSUME Shape, NEW p \in Peers, peer[p] # NoPeer, Insert(p)
    PROVE  PeerChange(p) /\ peer'[p].state = peer[p].state /\ peer'[p].late = (p \in done)
<1>1. peer \in [Peers -> {NoPeer} \cup Connection]
  BY DEF Shape
<1>2. PICK c \in Connection : c = peer[p]
  BY <1>1
<1>3. PICK late \in BOOLEAN : late = (p \in done)
  <2>1. (p \in done) \in BOOLEAN
    OBVIOUS
  <2> QED
    BY <2>1
<1>4. PICK d : d = [c EXCEPT !.late = late]
  OBVIOUS
<1>5. peer' = [peer EXCEPT ![p] = d]
  BY <1>2, <1>3, <1>4 DEF Insert
<1>6. d \in Connection /\ d.state = c.state /\ d.late = late
  BY <1>4 DEF Connection
<1> QED
  BY <1>1, <1>2, <1>3, <1>5, <1>6 DEF PeerChange

\* A packet of a source, and what it does.
LEMMA ReceiveEffect ==
    ASSUME Shape, Noted, NEW u \in Urls, Receive(u)
    PROVE  /\ \E kind \in {"key", "delta", "audio"}, p \in Pars : Packet(u, kind, p)
           /\ PacketAdds(u) \/ PacketKeeps \/ PacketUpdates(u)
           /\ streams' \in Streams /\ sorted' \in Seq(Urls) /\ Lists(sorted', Known')
<1>1. par[u] \in Pars /\ par[u].v \in Nat
  BY DEF Shape, Pars
<1>2. PICK kind \in {"key", "delta", "audio"}, p \in Pars : Packet(u, kind, p)
  <2>1. CASE \E kind \in {"key", "delta", "audio"} : Packet(u, kind, par[u])
    BY <1>1, <2>1
  <2>2. CASE \E type \in Types, res \in Sizes :
               Packet(u, "key", [type |-> type, res |-> res, v |-> par[u].v + 1])
    <3>1. PICK type \in Types, res \in Sizes :
               Packet(u, "key", [type |-> type, res |-> res, v |-> par[u].v + 1])
      BY <2>2
    <3>2. [type |-> type, res |-> res, v |-> par[u].v + 1] \in Pars
      BY <1>1 DEF Pars
    <3> QED
      BY <3>1, <3>2
  <2> QED
    BY <2>1, <2>2 DEF Receive
<1>3. pending \in SUBSET Peers
  BY DEF Noted, Places, Reached
<1> QED
  BY <1>2, <1>3, PacketEffect

\* Every step keeps the shape.
LEMMA ShapeStep ==
    ASSUME Shape, Noted, Buffers, [Next]_vars
    PROVE  Shape'
<1>1. ASSUME NEW p \in Peers, NEW u \in Urls, Connect(p, u)
      PROVE  Shape'
  <2>1. peer' \in [Peers -> {NoPeer} \cup Connection]
    BY <1>1, ConnectPeer DEF PeerChange
  <2> QED
    BY <1>1, <2>1, ShapePeer DEF Connect, addConnection, input, queues
<1>2. ASSUME NEW p \in Peers, NEW u \in Urls, ChooseStream(p, u)
      PROVE  Shape'
  <2>1. peer' \in [Peers -> {NoPeer} \cup Connection]
    BY <1>2, ChoosePeer DEF PeerChange
  <2>2. changes' \in Seq(Change)
    <3>1. changes \in Seq(Change)
      BY DEF Shape
    <3>2. [peer |-> p, url |-> u] \in Change
      BY DEF Change
    <3>3. changes' = Append(changes, [peer |-> p, url |-> u])
      BY <1>2 DEF ChooseStream
    <3> QED
      BY <3>1, <3>2, <3>3
  <2>3. UNCHANGED <<streams, sorted, got, vid, par, pc, job>>
    BY <1>2 DEF ChooseStream, input
  <2>4. Known' = Known
    BY <2>3 DEF Known
  <2> QED
    BY <2>1, <2>2, <2>3, <2>4 DEF Shape
<1>3. ASSUME NEW p \in Peers, ChannelOpens(p)
      PROVE  Shape'
  <2>1. peer' \in [Peers -> {NoPeer} \cup Connection]
    BY <1>3, OpensPeer DEF PeerChange
  <2> QED
    BY <1>3, <2>1, ShapePeer DEF ChannelOpens, input
<1>4. ASSUME NEW p \in Peers, ConnectionLost(p)
      PROVE  Shape'
  <2>1. peer' \in [Peers -> {NoPeer} \cup Connection]
    BY <1>4, LostPeer DEF PeerChange
  <2> QED
    BY <1>4, <2>1, ShapePeer DEF ConnectionLost, input
<1>5. ASSUME NEW p \in Peers, Insert(p)
      PROVE  Shape'
  <2>1. peer[p] # NoPeer
    BY <1>5 DEF Noted, Reached, Insert
  <2>2. peer' \in [Peers -> {NoPeer} \cup Connection]
    BY <1>5, <2>1, InsertPeer DEF PeerChange
  <2>3. streams' \in Streams /\ Known' = Known
    <3>1. CASE peer[p].target \in Known
      BY <1>5, <3>1, InsertEffect
    <3>2. CASE peer[p].target \notin Known
      <4>1. removePeers({p}) /\ streams' = WithoutPeers(streams, {p})
        BY <1>5, <3>2 DEF Insert
      <4> QED
        BY <4>1, RemovedEffect DEF Removes
    <3> QED
      BY <3>1, <3>2
  <2>4. UNCHANGED <<sorted, changes, got, vid, par, pc, job>>
    BY <1>5 DEF Insert, input
  <2> QED
    BY <2>2, <2>3, <2>4 DEF Shape
<1>6. ASSUME NEW p \in Peers, ClosePeer(p)
      PROVE  Shape'
  <2>1. streams' \in Streams /\ Known' = Known
    BY <1>6, RemovedEffect DEF ClosePeer, Removes
  <2> QED
    BY <1>6, <2>1, ShapeStreams DEF ClosePeer, input
<1>7. ASSUME NEW p \in Peers, processPendingTracks(p)
      PROVE  Shape'
  <2>1. streams' \in Streams /\ Known' = Known
    BY <1>7, JoinEffect DEF Joins, Shape, Known
  <2>2. UNCHANGED <<sorted, peer, changes, got, vid, par, pc>> /\ pc = "pending"
    BY <1>7 DEF processPendingTracks, queues, input
  <2>3. /\ job' \in [url : Urls, pkt : Pkts, todo : SUBSET Peers]
        /\ job'.url = job.url
    BY <1>7, <2>2 DEF processPendingTracks, Shape
  <2> QED
    BY <2>1, <2>2, <2>3 DEF Shape
<1>8. ASSUME NEW p \in Peers, seedTrack(p)
      PROVE  Shape'
  <2>1. streams' \in Streams /\ Known' = Known
    BY <1>8, SeedEffect DEF Seeds, Removes
  <2>2. UNCHANGED <<sorted, peer, changes, got, vid, par>> /\ pc = "seed"
    BY <1>8 DEF seedTrack, queues, input
  <2>3. pc' = "idle" \/ UNCHANGED <<pc, job>>
    BY <1>8 DEF seedTrack
  <2> QED
    BY <2>1, <2>2, <2>3 DEF Shape
<1>9. ASSUME NEW u \in Urls, addSource(u)
      PROVE  Shape'
  BY <1>9, ShapePeer DEF addSource, input, queues, Shape
<1>10. ASSUME NEW u \in Urls, removeSource(u)
       PROVE  Shape'
  <2>1. UNCHANGED <<peer, changes, got, vid, par, pc, job>> /\ pc = "idle"
    BY <1>10 DEF removeSource, queues, input, Ready
  <2>2. CASE u \in Known /\ RemoveStream(u)
    <3>1. streams' \in Streams /\ sorted' \in Seq(Urls) /\ Lists(sorted', Known')
      BY <2>2, RemoveStreamEffect
    <3> QED
      BY <2>1, <3>1 DEF Shape
  <2>3. CASE UNCHANGED <<sorted, streams, pending, released>>
    BY <2>1, <2>3, ShapePeer DEF Shape
  <2> QED
    BY <1>10, <2>2, <2>3 DEF removeSource
<1>11. ASSUME NEW u \in Urls, Receive(u)
       PROVE  Shape'
  <2>1. par[u] \in Pars /\ got[u] \in Nat /\ vid[u] \in Nat /\ par[u].v \in Nat
    BY DEF Shape, Pars
  <2>2. PICK kind \in {"key", "delta", "audio"}, p \in Pars : Packet(u, kind, p)
    BY <1>11, ReceiveEffect
  <2>4. streams' \in Streams /\ sorted' \in Seq(Urls) /\ Lists(sorted', Known')
    BY <1>11, ReceiveEffect
  <2>5. PICK pkt : /\ pkt = [url |-> u, id |-> got[u] + 1, kind |-> kind, t |-> 2 * (got[u] + 1),
                             vid |-> vid[u] + IF kind = "audio" THEN 0 ELSE 1]
                   /\ got' = [got EXCEPT ![u] = pkt.id] /\ vid' = [vid EXCEPT ![u] = pkt.vid]
                   /\ par' = [par EXCEPT ![u] = p]
                   /\ pc' = "store" /\ job' = [url |-> u, pkt |-> pkt, todo |-> {}]
    BY <2>2 DEF Packet
  <2>6. pkt \in Pkts
    <3>1. /\ got[u] + 1 \in Nat \ {0} /\ 2 * (got[u] + 1) \in Nat
          /\ vid[u] + (IF kind = "audio" THEN 0 ELSE 1) \in Nat
      BY <2>1
    <3> QED
      BY <2>5, <3>1 DEF Pkts
  <2>7. pkt.id \in Nat /\ pkt.vid \in Nat
    BY <2>6 DEF Pkts
  <2>8. got' \in [Urls -> Nat] /\ vid' \in [Urls -> Nat] /\ par' \in [Urls -> Pars]
    BY <2>5, <2>7 DEF Shape
  <2>9. job' \in [url : Urls, pkt : Pkts, todo : SUBSET Peers]
    BY <2>5, <2>6
  <2>10. UNCHANGED <<peer, changes>>
    BY <1>11 DEF Receive, queues
  <2> QED
    BY <2>4, <2>5, <2>8, <2>9, <2>10 DEF Shape
<1>12. CASE Move
  <2>1. streams' \in Streams /\ Known' = Known
    BY <1>12, MoveEffect
  <2>2. changes' \in Seq(Change)
    BY <1>12 DEF Move, Shape
  <2>3. UNCHANGED <<sorted, peer, got, vid, par, pc, job>>
    BY <1>12 DEF Move, input
  <2> QED
    BY <2>1, <2>2, <2>3 DEF Shape
<1>13. CASE Drop
  <2>1. UNCHANGED <<streams, sorted, peer, changes, got, vid, par>> /\ pc' = "idle"
    BY <1>13 DEF Drop, queues, input
  <2>2. Known' = Known
    BY <2>1 DEF Known
  <2> QED
    BY <2>1, <2>2 DEF Shape
<1>14. CASE Store
  <2>1. UNCHANGED <<sorted, peer, changes, got, vid, par>> /\ pc = "store" /\ pc' = "pending"
    BY <1>14 DEF Store, queues, input
  <2>2. job.url \in Known
    BY <1>14, <2>1 DEF Store, Strm, Shape, Known
  <2>3. /\ job \in [url : Urls, pkt : Pkts, todo : SUBSET Peers]
        /\ job' = [job EXCEPT !.todo = streams[job.url].toAdd]
        /\ streams[job.url].toAdd \in SUBSET Peers
    BY <1>14, <2>1, <2>2 DEF Store, Strm, Shape, Known, Streams, Stream
  <2>4. job' \in [url : Urls, pkt : Pkts, todo : SUBSET Peers] /\ job'.url = job.url
    BY <2>3
  <2>5. streams' \in Streams /\ Known' = Known
    BY <1>14, StoreEffect
  <2> QED
    BY <2>1, <2>2, <2>4, <2>5 DEF Shape
<1>15. CASE processExistingTracks
  <2>1. UNCHANGED <<streams, sorted, peer, changes, got, vid, par>> /\ pc = "pending"
    BY <1>15 DEF processExistingTracks, queues, input
  <2>2. pc' = "idle" \/ (pc' = "seed" /\ UNCHANGED job)
    BY <1>15 DEF processExistingTracks
  <2>3. Known' = Known
    BY <2>1 DEF Known
  <2> QED
    BY <2>1, <2>2, <2>3 DEF Shape
<1>16. CASE Release
  <2>1. streams' \in Streams /\ Known' = Known
    BY <1>16, ReleaseEffect DEF Removes
  <2>2. UNCHANGED <<sorted, peer, changes, got, vid, par>> /\ pc' = "closed"
    BY <1>16 DEF Release, queues, input
  <2> QED
    BY <2>1, <2>2 DEF Shape
<1>17. CASE UNCHANGED vars
  <2>1. UNCHANGED <<streams, sorted, peer, changes, got, vid, par, pc, job>>
    BY <1>17 DEF vars, queues, input
  <2> QED
    BY <2>1, ShapePeer DEF Shape
<1> QED
  BY <1>1, <1>2, <1>3, <1>4, <1>5, <1>6, <1>7, <1>8, <1>9, <1>10, <1>11, <1>12, <1>13, <1>14,
     <1>15, <1>16, <1>17 DEF Next

-----------------------------------------------------------------------------
(* The places of the peers *)

\* The places are in Places.
LEMMA PlacesHave ==
    /\ pending \subseteq Places
    /\ \A v \in Known : Of(v) \subseteq Places
    /\ \A i \in DOMAIN changes : changes[i].peer \in Places
    /\ pc = "pending" => job.todo \subseteq Places
<1>1. pending \cup OnStreams \cup Asking \cup Joining = Places
  BY DEF Places
<1>2. \A v \in Known : Of(v) \subseteq OnStreams
  BY DEF OnStreams
<1>3. \A i \in DOMAIN changes : changes[i].peer \in Asking
  BY DEF Asking
<1>4. pc = "pending" => job.todo = Joining
  BY DEF Joining
<1> QED
  BY <1>1, <1>2, <1>3, <1>4

\* Places grows by no more than each of the places does.
LEMMA PlacesGrow ==
    ASSUME NEW more,
           pending' \subseteq Places \cup more,
           \A v \in Known' : Of(v)' \subseteq Places \cup more,
           \A i \in DOMAIN changes' : changes'[i].peer \in Places \cup more,
           pc' = "pending" => job'.todo \subseteq Places \cup more
    PROVE  Places' \subseteq Places \cup more
<1>1. OnStreams' \subseteq Places \cup more
  BY DEF OnStreams
<1>2. Asking' \subseteq Places \cup more
  BY DEF Asking
<1>3. Joining' \subseteq Places \cup more
  BY DEF Joining
<1>4. Places' = pending' \cup OnStreams' \cup Asking' \cup Joining'
  BY DEF Places
<1> QED
  BY <1>1, <1>2, <1>3, <1>4

\* The streams have fewer peers, or the same.
LEMMA FewerOf ==
    ASSUME NEW v, NEW gone, Fewer(v, gone)
    PROVE  Of(v)' \subseteq Of(v)
BY DEF Fewer, Of, Tracks

\* When no place gains a peer, Places does not grow.
LEMMA FewerPlaces ==
    ASSUME Known' = Known, \A v \in Known : Of(v)' \subseteq Places, pending' \subseteq pending,
           UNCHANGED changes, pc' = "pending" => pc = "pending" /\ job'.todo \subseteq job.todo
    PROVE  Places' \subseteq Places
<1>1. /\ pending' \subseteq Places \cup {} /\ \A v \in Known' : Of(v)' \subseteq Places \cup {}
      /\ \A i \in DOMAIN changes' : changes'[i].peer \in Places \cup {}
      /\ pc' = "pending" => job'.todo \subseteq Places \cup {}
  BY PlacesHave
<1> QED
  BY <1>1, PlacesGrow

\* A peer comes to a place by Insert, or by asking for another stream.
LEMMA PlacesStep ==
    ASSUME Shape, Noted, Buffers, [Next]_vars
    PROVE  \/ Places' \subseteq Places
           \/ \E p \in Peers : /\ Insert(p) \/ \E u \in Urls : ChooseStream(p, u)
                               /\ Places' \subseteq Places \cup {p}
<1>1. ASSUME UNCHANGED <<streams, pending, changes, pc, job>>
      PROVE  Places' \subseteq Places
  <2>1. Known' = Known /\ \A v \in Known : Of(v)' = Of(v)
    BY <1>1 DEF Known, Of, Tracks
  <2> QED
    BY <1>1, <2>1, FewerPlaces, PlacesHave
<1>2. ASSUME NEW gone, Removes(gone), UNCHANGED changes, pc' = "pending" => pc = "pending" /\ UNCHANGED job
      PROVE  Places' \subseteq Places
  <2>1. Known' = Known /\ pending' \subseteq pending /\ \A v \in Known : Of(v)' \subseteq Of(v)
    BY <1>2, FewerOf DEF Removes
  <2> QED
    BY <1>2, <2>1, FewerPlaces, PlacesHave
<1>3. ASSUME NEW p \in Peers, NEW u \in Urls, Connect(p, u)
      PROVE  Places' \subseteq Places
  BY <1>1, <1>3 DEF Connect, addConnection, queues
<1>4. ASSUME NEW p \in Peers, NEW u \in Urls, ChooseStream(p, u)
      PROVE  Places' \subseteq Places \cup {p}
  <2>1. UNCHANGED <<streams, pending, pc, job>> /\ changes' = Append(changes, [peer |-> p, url |-> u])
    BY <1>4 DEF ChooseStream
  <2>2. Known' = Known /\ \A v \in Known : Of(v)' = Of(v)
    BY <2>1 DEF Known, Of, Tracks
  <2>3. ASSUME NEW i \in DOMAIN changes'
        PROVE  changes'[i].peer \in Places \cup {p}
    <3>1. changes \in Seq(Change)
      BY DEF Shape
    <3>2. PICK n \in Nat : n = Len(changes) /\ DOMAIN changes = 1 .. n
      BY <3>1
    <3>3. PICK c : c = [peer |-> p, url |-> u]
      OBVIOUS
    <3>4. /\ DOMAIN changes' = 1 .. n + 1 /\ changes'[n + 1] = c
          /\ \A j \in 1 .. n : changes'[j] = changes[j]
      BY <2>1, <3>1, <3>2, <3>3, AppendProperties
    <3>5. CASE i = n + 1
      BY <3>3, <3>4, <3>5
    <3>6. CASE i # n + 1
      <4>1. i \in 1 .. n
        BY <3>2, <3>4, <3>6
      <4> QED
        BY <3>2, <3>4, <4>1, PlacesHave
    <3> QED
      BY <3>5, <3>6
  <2>4. /\ pending' \subseteq Places \cup {p}
        /\ \A v \in Known' : Of(v)' \subseteq Places \cup {p}
        /\ pc' = "pending" => job'.todo \subseteq Places \cup {p}
    BY <2>1, <2>2, PlacesHave
  <2> QED
    BY <2>3, <2>4, PlacesGrow
<1>5. ASSUME NEW p \in Peers, ChannelOpens(p)
      PROVE  Places' \subseteq Places
  BY <1>1, <1>5 DEF ChannelOpens
<1>6. ASSUME NEW p \in Peers, ConnectionLost(p)
      PROVE  Places' \subseteq Places
  BY <1>1, <1>6 DEF ConnectionLost
<1>7. ASSUME NEW p \in Peers, Insert(p)
      PROVE  Places' \subseteq Places \cup {p}
  <2>1. UNCHANGED <<changes, pc, job>>
    BY <1>7 DEF Insert
  <2>2. CASE peer[p].target \in Known
    <3>1. PICK u \in Known : u = peer[p].target
      BY <2>2
    <3>2. /\ Known' = Known /\ \A v \in Known : v # u => Same(v)
          /\ streams'[u].seeded = streams[u].seeded \ {p}
          /\ streams'[u].unseeded = streams[u].unseeded \cup {p}
          /\ streams'[u].toAdd = streams[u].toAdd
      BY <1>7, <2>2, <3>1, InsertEffect
    <3>3. \A v \in Known : v # u => Of(v)' \subseteq Of(v)
      BY <3>2, FewerOf DEF Same
    <3>4. Of(u)' \subseteq Of(u) \cup {p}
      BY <3>2 DEF Of, Tracks
    <3>5. \A v \in Known' : Of(v)' \subseteq Places \cup {p}
      BY <3>1, <3>2, <3>3, <3>4, PlacesHave
    <3>6. pending' = pending
      BY <1>7, <2>2 DEF Insert
    <3> QED
      BY <2>1, <3>5, <3>6, PlacesHave, PlacesGrow
  <2>3. CASE peer[p].target \notin Known
    <3>1. removePeers({p}) /\ streams' = WithoutPeers(streams, {p})
      BY <1>7, <2>3 DEF Insert
    <3>2. Removes({p} \ done)
      BY <3>1, RemovedEffect
    <3> QED
      BY <1>2, <2>1, <3>2
  <2> QED
    BY <2>2, <2>3
<1>8. ASSUME NEW p \in Peers, ClosePeer(p)
      PROVE  Places' \subseteq Places
  <2>1. Removes({p} \ done)
    BY <1>8, RemovedEffect DEF ClosePeer
  <2> QED
    BY <1>2, <1>8, <2>1 DEF ClosePeer
<1>9. ASSUME NEW p \in Peers, processPendingTracks(p)
      PROVE  Places' \subseteq Places
  <2>1. pc = "pending" /\ p \in job.todo /\ UNCHANGED <<pending, changes>>
    BY <1>9 DEF processPendingTracks, queues
  <2>2. p \in Places
    BY <2>1, PlacesHave
  <2>3. job'.todo \subseteq job.todo
    <3>1. job \in [url : Urls, pkt : Pkts, todo : SUBSET Peers] /\ job' = [job EXCEPT !.todo = @ \ {p}]
      BY <1>9, <2>1 DEF Shape, processPendingTracks
    <3> QED
      BY <3>1
  <2>4. Known' = Known /\ \A v \in Known : Of(v)' \subseteq Of(v) \cup {p}
    <3>1. CASE Joins(p, job.url)
      <4>1. Known' = Known
        BY <3>1 DEF Joins
      <4>2. ASSUME NEW v \in Known
            PROVE  /\ streams'[v].unseeded = streams[v].unseeded \ {p}
                   /\ streams'[v].toAdd \subseteq streams[v].toAdd
                   /\ streams'[v].seeded \subseteq streams[v].seeded \cup {p}
        BY <3>1, JoinedProperties
      <4>3. \A v \in Known : Of(v)' \subseteq Of(v) \cup {p}
        BY <4>2 DEF Of, Tracks
      <4> QED
        BY <4>1, <4>3
    <3>2. CASE UNCHANGED streams
      BY <3>2 DEF Known, Of, Tracks
    <3> QED
      BY <1>9, <3>1, <3>2, JoinEffect
  <2>5. \A v \in Known : Of(v)' \subseteq Places
    BY <2>2, <2>4, PlacesHave
  <2> QED
    BY <2>1, <2>3, <2>4, <2>5, FewerPlaces
<1>10. ASSUME NEW p \in Peers, seedTrack(p)
       PROVE  Places' \subseteq Places
  <2>1. UNCHANGED changes /\ pc' # "pending"
    BY <1>10 DEF seedTrack, queues
  <2>2. CASE Removes({p})
    BY <1>2, <2>1, <2>2
  <2>3. CASE /\ Seeds(p, job.url)
             /\ streams'[job.url].seeded \subseteq streams[job.url].seeded \cup {p}
    <3>1. PICK u \in Known : u = job.url
      BY <2>3 DEF Seeds
    <3>2. /\ Known' = Known /\ pending' = pending /\ p \in streams[u].unseeded
          /\ streams'[u].unseeded = streams[u].unseeded \ {p}
          /\ streams'[u].toAdd = streams[u].toAdd
          /\ streams'[u].seeded \subseteq streams[u].seeded \cup {p}
          /\ \A v \in Known : v # u => Same(v)
      BY <2>3, <3>1 DEF Seeds
    <3>3. \A v \in Known : v # u => Of(v)' \subseteq Of(v)
      BY <3>2, FewerOf DEF Same
    <3>4. Of(u)' \subseteq Of(u)
      BY <3>2 DEF Of, Tracks
    <3>5. \A v \in Known : Of(v)' \subseteq Places
      BY <3>1, <3>3, <3>4, PlacesHave
    <3> QED
      BY <2>1, <3>2, <3>5, FewerPlaces
  <2> QED
    BY <1>10, <2>2, <2>3, SeedEffect
<1>11. ASSUME NEW u \in Urls, addSource(u)
       PROVE  Places' \subseteq Places
  BY <1>1, <1>11 DEF addSource, queues
<1>12. ASSUME NEW u \in Urls, removeSource(u)
       PROVE  Places' \subseteq Places
  <2>1. UNCHANGED <<changes, pc, job>>
    BY <1>12 DEF removeSource, queues
  <2>2. CASE UNCHANGED <<streams, pending>>
    BY <1>1, <2>1, <2>2
  <2>3. CASE u \in Known /\ RemoveStream(u)
    <3>1. PICK moved : moved = Of(u)
      OBVIOUS
    <3>2. /\ Known' = Known \ {u}
          /\ \A v \in Known' :
                /\ streams'[v].seeded = streams[v].seeded /\ streams'[v].unseeded = streams[v].unseeded
                /\ streams'[v].toAdd \in {streams[v].toAdd, streams[v].toAdd \cup moved}
          /\ pending' \in {pending, pending \cup moved}
      BY <2>3, <3>1, RemoveStreamEffect DEF Of
    <3>3. moved \subseteq Places
      BY <2>3, <3>1, PlacesHave
    <3>4. \A v \in Known' : Of(v)' \subseteq Of(v) \cup moved
      BY <3>2 DEF Of, Tracks
    <3>5. \A v \in Known' : Of(v)' \subseteq Places \cup {}
      BY <3>2, <3>3, <3>4, PlacesHave
    <3>6. pending' \subseteq Places \cup {}
      BY <3>2, <3>3, PlacesHave
    <3>7. Places' \subseteq Places \cup {}
      BY <2>1, <3>5, <3>6, PlacesHave, PlacesGrow
    <3> QED
      BY <3>7
  <2> QED
    BY <1>12, <2>2, <2>3 DEF removeSource
<1>13. ASSUME NEW u \in Urls, Receive(u)
       PROVE  Places' \subseteq Places
  <2>1. UNCHANGED changes /\ pc' # "pending"
    BY <1>13 DEF Receive, Packet, queues
  <2>2. PacketAdds(u) \/ PacketKeeps \/ PacketUpdates(u)
    BY <1>13, ReceiveEffect
  <2>3. CASE PacketAdds(u)
    <3>1. ASSUME NEW v \in Known'
          PROVE  Of(v)' \subseteq Places \cup {}
      <4>1. CASE v = u
        BY <2>3, <4>1, PlacesHave DEF PacketAdds, Of, Tracks
      <4>2. CASE v # u
        <5>1. v \in Known /\ Fewer(v, {})
          BY <2>3, <4>2 DEF PacketAdds, Same
        <5> QED
          BY <5>1, FewerOf, PlacesHave
      <4> QED
        BY <4>1, <4>2
    <3>2. pending' = {}
      BY <2>3 DEF PacketAdds
    <3>3. Places' \subseteq Places \cup {}
      BY <2>1, <3>1, <3>2, PlacesHave, PlacesGrow
    <3> QED
      BY <3>3
  <2>4. CASE PacketKeeps
    <3>1. Known' = Known /\ pending' = pending /\ \A v \in Known : Of(v)' \subseteq Of(v)
      BY <2>4, FewerOf DEF PacketKeeps, Same
    <3> QED
      BY <2>1, <3>1, FewerPlaces, PlacesHave
  <2>5. CASE PacketUpdates(u)
    <3>1. Known' = Known /\ pending' \subseteq pending
      BY <2>5 DEF PacketUpdates
    <3>2. \A v \in Known : \E gone : Fewer(v, gone)
      BY <2>5 DEF PacketUpdates
    <3>3. \A v \in Known : Of(v)' \subseteq Of(v)
      BY <3>2, FewerOf
    <3> QED
      BY <2>1, <3>1, <3>3, FewerPlaces, PlacesHave
  <2> QED
    BY <2>2, <2>3, <2>4, <2>5
<1>14. CASE Move
  <2>1. UNCHANGED <<pending, pc, job>> /\ changes # <<>> /\ changes' = Tail(changes)
    BY <1>14 DEF Move
  <2>2. changes \in Seq(Change)
    BY DEF Shape
  <2>3. PICK q \in {c.peer : c \in Range(changes)} :
           /\ Known' = Known
           /\ \A v \in Known :
                 /\ streams'[v].seeded = streams[v].seeded
                 /\ streams'[v].unseeded = streams[v].unseeded
                 /\ streams'[v].toAdd \subseteq streams[v].toAdd \cup {q}
    BY <1>14, MoveEffect
  <2>4. q \in Places
    BY <2>3, PlacesHave DEF Range
  <2>5. \A v \in Known' : Of(v)' \subseteq Of(v) \cup {q}
    BY <2>3 DEF Of, Tracks
  <2>6. \A v \in Known' : Of(v)' \subseteq Places \cup {}
    BY <2>3, <2>4, <2>5, PlacesHave
  <2>7. ASSUME NEW i \in DOMAIN changes'
        PROVE  changes'[i].peer \in Places \cup {}
    <3>1. PICK n \in Nat : n = Len(changes) /\ DOMAIN changes = 1 .. n /\ n >= 1
      BY <2>1, <2>2
    <3>2. DOMAIN changes' = 1 .. n - 1 /\ \A j \in 1 .. n - 1 : changes'[j] = changes[j + 1]
      BY <2>1, <2>2, <3>1
    <3>3. i + 1 \in 1 .. n
      BY <3>1, <3>2
    <3> QED
      BY <3>1, <3>2, <3>3, PlacesHave
  <2>8. Places' \subseteq Places \cup {}
    BY <2>1, <2>6, <2>7, PlacesHave, PlacesGrow
  <2> QED
    BY <2>8
<1>15. CASE Drop
  <2>1. UNCHANGED <<streams, pending, changes>> /\ pc' # "pending"
    BY <1>15 DEF Drop, queues
  <2>2. Known' = Known /\ \A v \in Known : Of(v)' = Of(v)
    BY <2>1 DEF Known, Of, Tracks
  <2> QED
    BY <2>1, <2>2, FewerPlaces, PlacesHave
<1>16. CASE Store
  <2>1. job.url \in Known /\ Known' = Known /\ \A v \in Known : Of(v)' \subseteq Of(v)
    BY <1>16, StoreEffect, FewerOf
  <2>2. UNCHANGED <<pending, changes>>
    BY <1>16 DEF Store, queues
  <2>3. job'.todo = streams[job.url].toAdd
    <3>1. job \in [url : Urls, pkt : Pkts, todo : SUBSET Peers] /\ job' = [job EXCEPT !.todo = streams[job.url].toAdd]
      BY <1>16 DEF Shape, Store, Strm
    <3> QED
      BY <3>1
  <2>4. job'.todo \subseteq Places \cup {}
    BY <2>1, <2>3, PlacesHave DEF Of
  <2>5. Places' \subseteq Places \cup {}
    BY <2>1, <2>2, <2>4, PlacesHave, PlacesGrow
  <2> QED
    BY <2>5
<1>17. CASE processExistingTracks
  <2>1. UNCHANGED <<streams, pending, changes>> /\ pc' # "pending"
    BY <1>17 DEF processExistingTracks, queues
  <2>2. Known' = Known /\ \A v \in Known : Of(v)' = Of(v)
    BY <2>1 DEF Known, Of, Tracks
  <2> QED
    BY <2>1, <2>2, FewerPlaces, PlacesHave
<1>18. CASE Release
  <2>1. UNCHANGED changes /\ pc' # "pending"
    BY <1>18 DEF Release, queues
  <2> QED
    BY <1>2, <1>18, <2>1, ReleaseEffect
<1>19. CASE UNCHANGED vars
  BY <1>1, <1>19 DEF vars, queues
<1> QED
  BY <1>3, <1>4, <1>5, <1>6, <1>7, <1>8, <1>9, <1>10, <1>11, <1>12, <1>13, <1>14, <1>15, <1>16,
     <1>17, <1>18, <1>19 DEF Next

-----------------------------------------------------------------------------
(* The peers that can be anywhere *)

\* An action is of one connection, or leaves the connections as they are.
LEMMA PeerStep ==
    ASSUME Shape, Noted, [Next]_vars
    PROVE  \/ UNCHANGED <<peer, connects>> /\ closes' \subseteq closes
           \/ \E p \in Peers, u \in Urls : Connect(p, u) \/ ChooseStream(p, u)
           \/ \E p \in Peers : ChannelOpens(p) \/ ConnectionLost(p) \/ Insert(p)
<1>1. ASSUME NEW p \in Peers, ClosePeer(p) \/ processPendingTracks(p) \/ seedTrack(p)
      PROVE  UNCHANGED <<peer, connects>> /\ closes' \subseteq closes
  BY <1>1 DEF ClosePeer, processPendingTracks, seedTrack, queues
<1>2. ASSUME NEW u \in Urls, addSource(u) \/ removeSource(u) \/ Receive(u)
      PROVE  UNCHANGED <<peer, connects>> /\ closes' \subseteq closes
  BY <1>2 DEF addSource, removeSource, Receive, queues
<1>3. CASE Move \/ Drop \/ Store \/ processExistingTracks \/ Release
  BY <1>3 DEF Move, Drop, Store, processExistingTracks, Release, queues
<1>4. CASE UNCHANGED vars
  BY <1>4 DEF vars, queues
<1> QED
  BY <1>1, <1>2, <1>3, <1>4 DEF Next

\* Who is removed was there; who is closed stays closed.
LEMMA DoneStep ==
    ASSUME Shape, Noted, Buffers, [Next]_vars
    PROVE  /\ done \subseteq done' /\ done' \subseteq done \cup connects \cup closes \cup Places
<1>1. ASSUME NEW p \in Peers, NEW u \in Urls, Connect(p, u) \/ ChooseStream(p, u)
      PROVE  done' = done
  BY <1>1 DEF Connect, addConnection, ChooseStream
<1>2. ASSUME NEW p \in Peers, ChannelOpens(p) \/ ConnectionLost(p) \/ processPendingTracks(p)
      PROVE  done' = done
  BY <1>2 DEF ChannelOpens, ConnectionLost, processPendingTracks
<1>3. ASSUME NEW p \in Peers, Insert(p)
      PROVE  p \in connects /\ done' \in {done, done \cup {p}}
  BY <1>3 DEF Insert, removePeers
<1>4. ASSUME NEW p \in Peers, ClosePeer(p)
      PROVE  p \in closes /\ done' = done \cup {p}
  BY <1>4 DEF ClosePeer, removePeers
<1>5. ASSUME NEW p \in Peers, seedTrack(p)
      PROVE  p \in Places /\ done' \in {done, done \cup {p}}
  <2>1. p \in streams[job.url].unseeded /\ job.url \in Known
    BY <1>5 DEF seedTrack, Strm, Shape
  <2>2. p \in Places
    BY <2>1, PlacesHave DEF Of, Tracks
  <2> QED
    BY <1>5, <2>2 DEF seedTrack, removePeers
<1>6. ASSUME NEW u \in Urls, addSource(u) \/ removeSource(u)
      PROVE  done' = done
  BY <1>6 DEF addSource, removeSource
<1>7. ASSUME NEW u \in Urls, Receive(u)
      PROVE  done \subseteq done' /\ done' \subseteq done \cup Places
  <2>1. PacketAdds(u) \/ PacketKeeps \/ PacketUpdates(u)
    BY <1>7, ReceiveEffect
  <2>2. u \in Known => Of(u) \subseteq Places
    BY PlacesHave
  <2> QED
    BY <2>1, <2>2 DEF PacketAdds, PacketKeeps, PacketUpdates, Of
<1>8. CASE Move \/ Drop \/ Store \/ processExistingTracks
  BY <1>8 DEF Move, Drop, Store, processExistingTracks
<1>9. CASE Release
  BY <1>9, ReleaseEffect DEF Removes
<1>10. CASE UNCHANGED vars
  BY <1>10 DEF vars
<1> QED
  BY <1>1, <1>2, <1>3, <1>4, <1>5, <1>6, <1>7, <1>8, <1>9, <1>10 DEF Next

\* A connection is not forgotten.
LEMMA ReachedStays ==
    ASSUME Shape, Noted, [Next]_vars
    PROVE  Reached \subseteq Reached' /\ Open \subseteq Open'
<1>1. NoPeer \notin Connection /\ NoPeer.state # "open"
  BY DEF NoPeer, Connection
<1>2. ASSUME NEW p \in Peers, PeerChange(p), peer[p].state = "open" => peer'[p].state = "open"
      PROVE  Reached \subseteq Reached' /\ Open \subseteq Open'
  BY <1>1, <1>2 DEF PeerChange, Reached, Open
<1>3. ASSUME NEW p \in Peers, NEW u \in Urls, Connect(p, u)
      PROVE  Reached \subseteq Reached' /\ Open \subseteq Open'
  BY <1>1, <1>2, <1>3, ConnectPeer
<1>4. ASSUME NEW p \in Peers, NEW u \in Urls, ChooseStream(p, u)
      PROVE  Reached \subseteq Reached' /\ Open \subseteq Open'
  BY <1>2, <1>4, ChoosePeer
<1>5. ASSUME NEW p \in Peers, ChannelOpens(p)
      PROVE  Reached \subseteq Reached' /\ Open \subseteq Open'
  BY <1>2, <1>5, OpensPeer
<1>6. ASSUME NEW p \in Peers, ConnectionLost(p)
      PROVE  Reached \subseteq Reached' /\ Open \subseteq Open'
  BY <1>2, <1>6, LostPeer
<1>7. ASSUME NEW p \in Peers, Insert(p)
      PROVE  Reached \subseteq Reached' /\ Open \subseteq Open'
  <2>1. peer[p] # NoPeer
    BY <1>7 DEF Noted, Reached, Insert
  <2> QED
    BY <1>2, <1>7, <2>1, InsertPeer
<1>8. CASE UNCHANGED peer
  BY <1>8 DEF Reached, Open
<1> QED
  BY <1>3, <1>4, <1>5, <1>6, <1>7, <1>8, PeerStep

\* The queues of peers gain those that open or are lost only.
LEMMA QueuesStep ==
    ASSUME Shape, Noted, [Next]_vars
    PROVE  /\ connects' \subseteq connects \cup {p \in Peers : ChannelOpens(p)}
           /\ closes' \subseteq closes \cup {p \in Peers : ConnectionLost(p)}
<1>1. ASSUME NEW p \in Peers, NEW u \in Urls, Connect(p, u) \/ ChooseStream(p, u)
      PROVE  connects' = connects /\ closes' = closes
  BY <1>1 DEF Connect, addConnection, ChooseStream, queues
<1>2. ASSUME NEW p \in Peers, ChannelOpens(p)
      PROVE  connects' = connects \cup {p} /\ closes' = closes
  BY <1>2 DEF ChannelOpens
<1>3. ASSUME NEW p \in Peers, ConnectionLost(p)
      PROVE  connects' = connects /\ closes' = closes \cup {p}
  BY <1>3 DEF ConnectionLost
<1>4. ASSUME NEW p \in Peers, Insert(p)
      PROVE  connects' \subseteq connects /\ closes' = closes
  BY <1>4 DEF Insert
<1> QED
  BY <1>1, <1>2, <1>3, <1>4, PeerStep

\* In a new writer no peer is anywhere.
LEMMA PlacesInit == Init => Places = {} /\ connects = {} /\ closes = {} /\ done = {}
<1> SUFFICES ASSUME Init
             PROVE  Places = {} /\ connects = {} /\ closes = {} /\ done = {}
  OBVIOUS
<1>1. Known = {} /\ changes = <<>> /\ pc = "idle" /\ pending = {}
  BY DEF Init, Known
<1>2. OnStreams = {}
  BY <1>1 DEF OnStreams
<1>3. Asking = {}
  BY <1>1 DEF Asking
<1>4. Joining = {}
  BY <1>1 DEF Joining
<1> QED
  BY <1>1, <1>2, <1>3, <1>4 DEF Init, Places

\* A new writer has nobody to note.
LEMMA NotedInit == Init => Noted
BY PlacesInit DEF Noted

\* Every step keeps every peer that is anywhere noted.
LEMMA NotedStep ==
    ASSUME Shape, Noted, Buffers, [Next]_vars
    PROVE  Noted'
<1>1. Reached \subseteq Reached'
  BY ReachedStays
<1>2. connects \cup closes \cup done \cup Places \subseteq Reached
  BY DEF Noted
<1>3. \A p \in Peers : ChannelOpens(p) \/ ConnectionLost(p) => p \in Reached
  BY DEF ChannelOpens, ConnectionLost, Reached, NoPeer
<1>4. connects' \subseteq Reached /\ closes' \subseteq Reached
  BY <1>2, <1>3, QueuesStep
<1>5. done' \subseteq Reached
  BY <1>2, DoneStep
<1>6. Places' \subseteq Reached
  <2>1. \A p \in Peers : Insert(p) => p \in Reached
    BY <1>2 DEF Insert
  <2>2. \A p \in Peers, u \in Urls : ChooseStream(p, u) => p \in Reached
    BY DEF ChooseStream, Reached, NoPeer
  <2> QED
    BY <1>2, <2>1, <2>2, PlacesStep
<1> QED
  BY <1>1, <1>4, <1>5, <1>6 DEF Noted

\* In a new writer nobody is in a place.
LEMMA PatientInit == Init => Patient
BY PlacesInit DEF Patient

\* Every step keeps peers patient, unless they are eager.
LEMMA PatientStep ==
    ASSUME ~ Eager, Shape, Noted, Buffers, Patient, [Next]_vars
    PROVE  Patient'
<1>1. Open \subseteq Open'
  BY ReachedStays
<1>2. ASSUME NEW p \in Peers, ChannelOpens(p)
      PROVE  Patient'
  <2>1. p \notin Open /\ p \notin Places
    BY <1>2 DEF ChannelOpens, Open, Patient
  <2>2. Places' = Places
    <3>1. UNCHANGED <<streams, pending, changes, pc, job>>
      BY <1>2 DEF ChannelOpens
    <3>2. OnStreams' = OnStreams
      BY <3>1 DEF OnStreams, Of, Tracks, Known
    <3>3. Asking' = Asking
      BY <3>1 DEF Asking
    <3>4. Joining' = Joining
      BY <3>1 DEF Joining
    <3> QED
      BY <3>1, <3>2, <3>3, <3>4 DEF Places
  <2>3. connects' = connects \cup {p}
    BY <1>2 DEF ChannelOpens
  <2>4. p \in Open'
    BY <1>2, OpensPeer DEF Open
  <2> QED
    BY <1>1, <2>1, <2>2, <2>3, <2>4 DEF Patient
<1>3. CASE ~ \E p \in Peers : ChannelOpens(p)
  <2>1. connects' \subseteq connects
    BY <1>3, QueuesStep
  <2>2. \A p \in Peers : Insert(p) => p \in connects /\ p \notin connects'
    BY DEF Insert
  <2>3. \A p \in Peers, u \in Urls : ChooseStream(p, u) => p \in Open /\ p \notin connects
    BY DEF ChooseStream, Open
  <2>4. Places' \subseteq Open \ connects'
    <3>1. connects \subseteq Open /\ Places \subseteq Open \ connects
      BY DEF Patient
    <3>2. CASE Places' \subseteq Places
      BY <2>1, <3>1, <3>2
    <3>3. ASSUME NEW p \in Peers, Insert(p) \/ \E u \in Urls : ChooseStream(p, u),
                 Places' \subseteq Places \cup {p}
          PROVE  Places' \subseteq Open \ connects'
      BY <2>1, <2>2, <2>3, <3>1, <3>3
    <3> QED
      BY <3>2, <3>3, PlacesStep
  <2> QED
    BY <1>1, <2>1, <2>4 DEF Patient
<1> QED
  BY <1>2, <1>3

-----------------------------------------------------------------------------
(* What a step does, in the terms of the peers *)

\* A peer is inserted; peers of a stream that goes are sent to another or wait;
\* a peer that asked is on its way; the seeded peers get a packet.
Inserts(p) ==
    /\ p \in connects /\ peer'[p].late = (p \in done)
    /\ streams' \in Streams /\ Known' = Known /\ UNCHANGED <<pending, done, clones>>
    /\ \E u \in Known :
          /\ \A v \in Known : v # u => Fewer(v, {})
          /\ streams'[u].seeded = streams[u].seeded \ {p}
          /\ streams'[u].unseeded = streams[u].unseeded \cup {p}
          /\ streams'[u].toAdd = streams[u].toAdd
Forwards(u) ==
    /\ u \in Known /\ Known' = Known \ {u} /\ UNCHANGED <<done, clones>>
    /\ \A v \in Known' :
          /\ streams'[v].seeded = streams[v].seeded /\ streams'[v].unseeded = streams[v].unseeded
          /\ streams[v].toAdd \subseteq streams'[v].toAdd
    /\ \/ /\ pending' = pending
          /\ \E v \in Known' : Of(u) \subseteq streams'[v].toAdd
       \/ pending' = pending \cup Of(u) /\ Known' = {} /\ pending' \subseteq told'
Asks ==
    /\ Known' = Known /\ UNCHANGED <<pending, done, clones>>
    /\ \A v \in Known :
          /\ streams'[v].seeded = streams[v].seeded /\ streams'[v].unseeded = streams[v].unseeded
          /\ streams[v].toAdd \subseteq streams'[v].toAdd
Sends ==
    /\ UNCHANGED <<streams, pending, done>>
    /\ \E u \in Known : clones' = clones \cup (streams[u].seeded \ done)
SeedsOne(q) ==
    \E u \in Known :
       /\ Seeds(q, u)
       /\ \/ /\ q \in done /\ streams'[u].seeded = streams[u].seeded
             /\ clones' \in {clones, clones \cup {q}}
          \/ /\ q \notin done /\ streams'[u].seeded = streams[u].seeded \cup {q}
             /\ clones' = clones \cup {q}
JoinsOne(q) == UNCHANGED <<pending, done>> /\ \E u \in Known : Joins(q, u)

Effect ==
    \/ \E gone : Removes(gone)
    \/ \E p \in Peers : Inserts(p) \/ JoinsOne(p) \/ SeedsOne(p)
    \/ \E u \in Urls : Forwards(u) \/ PacketAdds(u) \/ PacketUpdates(u)
    \/ Asks \/ Sends

\* Every step has one of the effects, and tells those it takes out of pending.
LEMMA StepEffect ==
    ASSUME Shape, Noted, Buffers, [Next]_vars
    PROVE  Effect /\ (told \subseteq told' \/ pending' \subseteq told')
<1>1. ASSUME Known' = Known, streams' \in Streams, \A v \in Known : Fewer(v, {}),
             UNCHANGED <<pending, done, clones>>
      PROVE  Removes({})
  BY <1>1 DEF Removes
<1>2. ASSUME UNCHANGED <<streams, pending, done, clones>>
      PROVE  Effect
  <2>1. Known' = Known /\ streams' \in Streams /\ \A v \in Known : Fewer(v, {})
    BY <1>2 DEF Shape, Known, Fewer
  <2> QED
    BY <1>1, <1>2, <2>1 DEF Effect
<1>3. ASSUME NEW p \in Peers, NEW u \in Urls, Connect(p, u) \/ ChooseStream(p, u)
      PROVE  Effect /\ told' = told
  BY <1>2, <1>3 DEF Connect, addConnection, ChooseStream
<1>4. ASSUME NEW p \in Peers, ChannelOpens(p) \/ ConnectionLost(p)
      PROVE  Effect /\ told' = told
  BY <1>2, <1>4 DEF ChannelOpens, ConnectionLost
<1>5. ASSUME NEW p \in Peers, Insert(p)
      PROVE  Effect /\ told \subseteq told'
  <2>1. p \in connects /\ peer[p] # NoPeer
    BY <1>5 DEF Insert, Noted, Reached
  <2>2. CASE peer[p].target \in Known
    <3>1. UNCHANGED <<done, pending, clones>> /\ told \subseteq told'
      BY <1>5, <2>2 DEF Insert, sendAvailableStreamsToPeer
    <3>2. peer'[p].late = (p \in done)
      BY <1>5, <2>1, InsertPeer
    <3>3. PICK u \in Known : u = peer[p].target
      BY <2>2
    <3>4. /\ streams' \in Streams /\ Known' = Known /\ \A v \in Known : v # u => Same(v)
          /\ streams'[u].seeded = streams[u].seeded \ {p}
          /\ streams'[u].unseeded = streams[u].unseeded \cup {p}
          /\ streams'[u].toAdd = streams[u].toAdd
      BY <1>5, <2>2, <3>3, InsertEffect
    <3>5. \A v \in Known : v # u => Fewer(v, {})
      BY <3>4 DEF Same
    <3>6. Inserts(p)
      BY <2>1, <3>1, <3>2, <3>3, <3>4, <3>5 DEF Inserts
    <3> QED
      BY <3>1, <3>6 DEF Effect
  <2>3. CASE peer[p].target \notin Known
    <3>1. removePeers({p}) /\ streams' = WithoutPeers(streams, {p}) /\ told' = told
      BY <1>5, <2>3 DEF Insert
    <3>2. Removes({p} \ done)
      BY <3>1, RemovedEffect
    <3> QED
      BY <3>1, <3>2 DEF Effect
  <2> QED
    BY <2>2, <2>3
<1>6. ASSUME NEW p \in Peers, ClosePeer(p)
      PROVE  Effect /\ told' = told
  <2>1. Removes({p} \ done)
    BY <1>6, RemovedEffect DEF ClosePeer
  <2> QED
    BY <1>6, <2>1 DEF ClosePeer, Effect
<1>7. ASSUME NEW p \in Peers, processPendingTracks(p)
      PROVE  Effect /\ told' = told
  <2>1. UNCHANGED <<told, pending, done>>
    BY <1>7 DEF processPendingTracks
  <2>2. CASE Joins(p, job.url)
    <3>1. JoinsOne(p)
      BY <2>1, <2>2 DEF JoinsOne, Joins
    <3> QED
      BY <2>1, <3>1 DEF Effect
  <2>3. CASE UNCHANGED <<streams, clones>>
    BY <1>2, <2>1, <2>3
  <2> QED
    BY <1>7, <2>2, <2>3, JoinEffect
<1>8. ASSUME NEW p \in Peers, seedTrack(p)
      PROVE  Effect /\ told' = told
  <2>1. told' = told
    BY <1>8 DEF seedTrack
  <2>2. CASE Removes({p})
    BY <2>1, <2>2 DEF Effect
  <2>3. CASE ~ Removes({p})
    <3>1. SeedsOne(p)
      BY <1>8, <2>3, SeedEffect DEF SeedsOne, Seeds
    <3> QED
      BY <2>1, <3>1 DEF Effect
  <2> QED
    BY <2>2, <2>3
<1>9. ASSUME NEW u \in Urls, addSource(u)
      PROVE  Effect /\ told' = told
  BY <1>2, <1>9 DEF addSource
<1>10. ASSUME NEW u \in Urls, removeSource(u)
       PROVE  Effect /\ pending' \subseteq told'
  <2>1. UNCHANGED <<done, clones>> /\ pending' \subseteq told'
    BY <1>10 DEF removeSource, sendAvailableStreams
  <2>2. CASE UNCHANGED <<streams, pending>>
    BY <1>2, <2>1, <2>2
  <2>3. CASE u \in Known /\ RemoveStream(u)
    <3>1. PICK moved : moved = Of(u)
      OBVIOUS
    <3>2. /\ Known' = Known \ {u}
          /\ \A v \in Known' :
                /\ streams'[v].seeded = streams[v].seeded /\ streams'[v].unseeded = streams[v].unseeded
                /\ streams'[v].toAdd \in {streams[v].toAdd, streams[v].toAdd \cup moved}
          /\ \/ pending' = pending /\ \E v \in Known' : moved \subseteq streams'[v].toAdd
             \/ pending' = pending \cup moved /\ Known' = {}
      BY <2>3, <3>1, RemoveStreamEffect DEF Of
    <3>3. \A v \in Known' : streams[v].toAdd \subseteq streams'[v].toAdd
      BY <3>2
    <3>4. Forwards(u)
      BY <2>1, <2>3, <3>1, <3>2, <3>3 DEF Forwards
    <3> QED
      BY <2>1, <3>4 DEF Effect
  <2> QED
    BY <1>10, <2>2, <2>3 DEF removeSource
<1>11. ASSUME NEW u \in Urls, Receive(u)
       PROVE  Effect /\ (told \subseteq told' \/ pending' \subseteq told')
  <2>1. streams' \in Streams /\ (PacketAdds(u) \/ PacketKeeps \/ PacketUpdates(u))
    BY <1>11, ReceiveEffect
  <2>2. CASE PacketAdds(u)
    BY <2>2 DEF PacketAdds, Effect
  <2>3. CASE PacketKeeps
    <3>1. \A v \in Known : Fewer(v, {})
      BY <2>3 DEF PacketKeeps, Same
    <3> QED
      BY <1>1, <2>1, <2>3, <3>1 DEF PacketKeeps, Effect
  <2>4. CASE PacketUpdates(u)
    <3>1. pending' \subseteq told'
      BY <2>4 DEF PacketUpdates
    <3> QED
      BY <2>4, <3>1 DEF Effect
  <2> QED
    BY <2>1, <2>2, <2>3, <2>4
<1>12. CASE Move
  <2>1. UNCHANGED <<told, pending, done, clones>>
    BY <1>12 DEF Move
  <2>2. Asks
    BY <1>12, <2>1, MoveEffect DEF Asks
  <2> QED
    BY <2>1, <2>2 DEF Effect
<1>13. CASE Drop
  BY <1>2, <1>13 DEF Drop
<1>14. CASE Store
  <2>1. UNCHANGED <<told, pending, done, clones>>
    BY <1>14 DEF Store
  <2>2. Removes({})
    BY <1>1, <1>14, <2>1, StoreEffect
  <2> QED
    BY <2>1, <2>2 DEF Effect
<1>15. CASE processExistingTracks
  <2>1. UNCHANGED <<told, streams, pending, done>> /\ clones' = clones \cup (Strm.seeded \ done)
    BY <1>15 DEF processExistingTracks
  <2>2. job.url \in Known
    BY <1>15 DEF processExistingTracks, Shape
  <2>3. Sends
    BY <2>1, <2>2 DEF Sends, Strm
  <2> QED
    BY <2>1, <2>3 DEF Effect
<1>16. CASE Release
  <2>1. told' = told
    BY <1>16 DEF Release
  <2> QED
    BY <1>16, <2>1, ReleaseEffect DEF Effect
<1>17. CASE UNCHANGED vars
  BY <1>2, <1>17 DEF vars
<1> QED
  BY <1>3, <1>4, <1>5, <1>6, <1>7, <1>8, <1>9, <1>10, <1>11, <1>12, <1>13, <1>14, <1>15, <1>16,
     <1>17 DEF Next

-----------------------------------------------------------------------------
(* The places of the connected peers *)

Covered == pc # "closed" => Connected \subseteq pending \cup OnStreams
Apart == \A u, v \in Known : u # v => Tracks(u) \cap Tracks(v) = {}
Waiting == (pending # {} => Known = {}) /\ pending \subseteq told

\* The property, taken apart.
LEMMA InOnePlace == PeersInOnePlace <=> Covered /\ Apart /\ Waiting
BY DEF PeersInOnePlace, Covered, Apart, Waiting, OnStreams, Of

\* In a new writer no peer is in two places.
LEMMA PlaceInit == Init => PeersInOnePlace
<1> SUFFICES ASSUME Init
             PROVE  PeersInOnePlace
  OBVIOUS
<1>1. Known = {} /\ pending = {}
  BY DEF Init, Known
<1>2. Connected = {}
  BY DEF Init, Connected, NoPeer
<1> QED
  BY <1>1, <1>2, InOnePlace DEF Covered, Apart, Waiting

\* A peer is connected from Insert on.
LEMMA ConnectedStep ==
    ASSUME Shape, Noted, Buffers, [Next]_vars
    PROVE  \A x \in Connected' : x \in Connected \/ Insert(x)
<1>1. done \subseteq done'
  BY DoneStep
<1>2. ASSUME NEW p \in Peers, PeerChange(p), connects' = connects,
             peer'[p].state = "open" => peer[p].state = "open"
      PROVE  Connected' \subseteq Connected
  BY <1>1, <1>2 DEF Connected, PeerChange
<1>3. ASSUME NEW p \in Peers, NEW u \in Urls, Connect(p, u)
      PROVE  Connected' \subseteq Connected
  <2>1. connects' = connects
    BY <1>3 DEF Connect, addConnection, queues
  <2> QED
    BY <1>2, <1>3, <2>1, ConnectPeer
<1>4. ASSUME NEW p \in Peers, NEW u \in Urls, ChooseStream(p, u)
      PROVE  Connected' \subseteq Connected
  <2>1. connects' = connects /\ peer[p].state = "open"
    BY <1>4 DEF ChooseStream
  <2> QED
    BY <1>2, <1>4, <2>1, ChoosePeer
<1>5. ASSUME NEW p \in Peers, ChannelOpens(p)
      PROVE  Connected' \subseteq Connected
  <2>1. connects' = connects \cup {p}
    BY <1>5 DEF ChannelOpens
  <2>2. PeerChange(p)
    BY <1>5, OpensPeer
  <2> QED
    BY <1>1, <2>1, <2>2 DEF Connected, PeerChange
<1>6. ASSUME NEW p \in Peers, ConnectionLost(p)
      PROVE  Connected' \subseteq Connected
  <2>1. connects' = connects
    BY <1>6 DEF ConnectionLost
  <2> QED
    BY <1>2, <1>6, <2>1, LostPeer
<1>7. ASSUME NEW p \in Peers, Insert(p)
      PROVE  Connected' \subseteq Connected \cup {p}
  <2>1. peer[p] # NoPeer /\ connects' = connects \ {p}
    BY <1>7 DEF Noted, Reached, Insert
  <2>2. PeerChange(p) /\ peer'[p].state = peer[p].state
    BY <1>7, <2>1, InsertPeer
  <2> QED
    BY <1>1, <2>1, <2>2 DEF Connected, PeerChange
<1>8. CASE UNCHANGED <<peer, connects>>
  BY <1>1, <1>8 DEF Connected
<1> QED
  BY <1>3, <1>4, <1>5, <1>6, <1>7, <1>8, PeerStep

\* Step is over once it is closed.
LEMMA ClosedStays ==
    ASSUME Shape, [Next]_vars, pc = "closed"
    PROVE  pc' = "closed"
<1>1. ASSUME NEW p \in Peers, NEW u \in Urls
      PROVE  ~ Connect(p, u) /\ ~ ChooseStream(p, u)
  BY DEF Connect, Asked, ChooseStream, Ready
<1>2. ASSUME NEW p \in Peers
      PROVE  ~ (\/ ChannelOpens(p) \/ ConnectionLost(p) \/ Insert(p) \/ ClosePeer(p)
                \/ processPendingTracks(p) \/ seedTrack(p))
  BY DEF ChannelOpens, ConnectionLost, Insert, ClosePeer, processPendingTracks, seedTrack, Ready
<1>3. ASSUME NEW u \in Urls
      PROVE  ~ addSource(u) /\ ~ removeSource(u) /\ ~ Receive(u)
  BY DEF addSource, removeSource, Receive, Ready
<1>4. ~ Move /\ ~ Drop /\ ~ Store /\ ~ processExistingTracks /\ ~ Release
  BY DEF Move, Drop, Store, processExistingTracks, Release, Ready
<1> QED
  BY <1>1, <1>2, <1>3, <1>4 DEF Next, vars

InPlace(x) == x \in pending \/ \E v \in Known : x \in Of(v)

\* A peer that is in a place and is not removed is in a place still.
LEMMA PlaceStays ==
    ASSUME Effect, NEW x \in Peers, InPlace(x), x \notin done'
    PROVE  InPlace(x)'
<1>1. ASSUME NEW gone, x \notin gone, NEW v, Fewer(v, gone), x \in Of(v)
      PROVE  x \in Of(v)'
  BY <1>1 DEF Fewer, Of, Tracks
<1>2. ASSUME NEW gone, Removes(gone)
      PROVE  InPlace(x)'
  <2>1. x \notin gone /\ Known' = Known /\ pending' = pending \ gone
    BY <1>2 DEF Removes
  <2>2. CASE x \in pending
    BY <2>1, <2>2 DEF InPlace
  <2>3. CASE \E v \in Known : x \in Of(v)
    <3>1. PICK v \in Known : x \in Of(v)
      BY <2>3
    <3>2. x \in Of(v)'
      BY <1>1, <1>2, <2>1, <3>1 DEF Removes
    <3> QED
      BY <2>1, <3>2 DEF InPlace
  <2> QED
    BY <2>2, <2>3 DEF InPlace
<1>3. ASSUME NEW p \in Peers, Inserts(p)
      PROVE  InPlace(x)'
  <2>1. Known' = Known /\ pending' = pending
    BY <1>3 DEF Inserts
  <2>2. ASSUME NEW v \in Known, x \in Of(v)
        PROVE  x \in Of(v)'
    <3>1. CASE Fewer(v, {})
      BY <1>1, <2>2, <3>1
    <3>2. CASE /\ streams'[v].seeded = streams[v].seeded \ {p}
               /\ streams'[v].unseeded = streams[v].unseeded \cup {p}
               /\ streams'[v].toAdd = streams[v].toAdd
      BY <2>2, <3>2 DEF Of, Tracks
    <3> QED
      BY <1>3, <3>1, <3>2 DEF Inserts
  <2> QED
    BY <2>1, <2>2 DEF InPlace
<1>4. ASSUME NEW q \in Peers, JoinsOne(q)
      PROVE  InPlace(x)'
  <2>1. PICK u \in Known : Joins(q, u)
    BY <1>4 DEF JoinsOne
  <2>2. Known' = Known /\ pending' = pending /\ done' = done
    BY <1>4, <2>1 DEF JoinsOne, Joins
  <2>3. CASE x = q
    <3>1. q \in streams'[u].seeded
      BY <2>1, <2>2, <2>3 DEF Joins
    <3> QED
      BY <2>2, <2>3, <3>1 DEF InPlace, Of, Tracks
  <2>4. CASE x # q
    <3>1. ASSUME NEW v \in Known, x \in Of(v)
          PROVE  x \in Of(v)'
      <4>1. /\ streams'[v].unseeded = streams[v].unseeded \ {q}
            /\ streams[v].toAdd \ {q} \subseteq streams'[v].toAdd
            /\ streams[v].seeded \ {q} \subseteq streams'[v].seeded
        BY <2>1, JoinedProperties
      <4> QED
        BY <2>4, <3>1, <4>1 DEF Of, Tracks
    <3> QED
      BY <2>2, <3>1 DEF InPlace
  <2> QED
    BY <2>3, <2>4
<1>5. ASSUME NEW q \in Peers, SeedsOne(q)
      PROVE  InPlace(x)'
  <2>1. PICK u \in Known : /\ Seeds(q, u)
                           /\ \/ q \in done /\ streams'[u].seeded = streams[u].seeded
                              \/ streams'[u].seeded = streams[u].seeded \cup {q}
    BY <1>5 DEF SeedsOne
  <2>2. /\ Known' = Known /\ pending' = pending /\ done' = done
        /\ \A v \in Known : v # u => Fewer(v, {})
        /\ streams'[u].unseeded = streams[u].unseeded \ {q}
        /\ streams'[u].toAdd = streams[u].toAdd
    BY <2>1 DEF Seeds, Same
  <2>3. ASSUME NEW v \in Known, x \in Of(v)
        PROVE  x \in Of(v)'
    <3>1. CASE v # u
      BY <1>1, <2>2, <2>3, <3>1
    <3>2. CASE v = u
      BY <2>1, <2>2, <2>3, <3>2 DEF Of, Tracks
    <3> QED
      BY <3>1, <3>2
  <2> QED
    BY <2>2, <2>3 DEF InPlace
<1>6. ASSUME NEW v, /\ streams'[v].seeded = streams[v].seeded /\ streams'[v].unseeded = streams[v].unseeded
                    /\ streams[v].toAdd \subseteq streams'[v].toAdd
      PROVE  Of(v) \subseteq Of(v)'
  BY <1>6 DEF Of, Tracks
<1>7. ASSUME NEW u \in Urls, Forwards(u)
      PROVE  InPlace(x)'
  <2>1. Known' = Known \ {u} /\ \A v \in Known' : Of(v) \subseteq Of(v)'
    BY <1>6, <1>7 DEF Forwards
  <2>2. pending \subseteq pending'
    BY <1>7 DEF Forwards
  <2>3. CASE x \in Of(u)
    BY <1>7, <2>3 DEF Forwards, InPlace, Of
  <2> QED
    BY <2>1, <2>2, <2>3 DEF InPlace
<1>8. ASSUME NEW u \in Urls, PacketAdds(u)
      PROVE  InPlace(x)'
  <2>1. /\ Known' = Known \cup {u} /\ streams'[u].seeded = pending
        /\ \A v \in Known : Fewer(v, {})
    BY <1>8 DEF PacketAdds, Same
  <2>2. pending \subseteq Of(u)'
    BY <2>1 DEF Of, Tracks
  <2>3. \A v \in Known : x \in Of(v) => x \in Of(v)'
    BY <1>1, <2>1
  <2> QED
    BY <2>1, <2>2, <2>3 DEF InPlace
<1>9. ASSUME NEW u \in Urls, PacketUpdates(u)
      PROVE  InPlace(x)'
  <2>1. PICK gone : /\ \A v \in Known : v # u => Fewer(v, gone \ done)
                    /\ Fewer(u, gone)
                    /\ pending' = pending \ (gone \ done)
                    /\ done' = done \cup gone
    BY <1>9 DEF PacketUpdates
  <2>2. Known' = Known /\ x \notin gone /\ x \notin gone \ done
    BY <1>9, <2>1 DEF PacketUpdates
  <2>3. \A v \in Known : x \in Of(v) => x \in Of(v)'
    BY <1>1, <2>1, <2>2
  <2> QED
    BY <2>1, <2>2, <2>3 DEF InPlace
<1>10. CASE Asks
  <2>1. Known' = Known /\ pending' = pending /\ \A v \in Known : Of(v) \subseteq Of(v)'
    BY <1>6, <1>10 DEF Asks
  <2> QED
    BY <2>1 DEF InPlace
<1>11. CASE Sends
  BY <1>11 DEF Sends, InPlace, Of, Tracks, Known
<1> QED
  BY <1>2, <1>3, <1>4, <1>5, <1>7, <1>8, <1>9, <1>10, <1>11 DEF Effect

\* Every step keeps the peers covered.
LEMMA CoveredStep ==
    ASSUME Shape, Noted, Buffers, Covered, [Next]_vars
    PROVE  Covered'
<1> SUFFICES ASSUME pc' # "closed", NEW x \in Connected'
             PROVE  InPlace(x)'
  BY DEF Covered, InPlace, OnStreams
<1>1. x \in Peers /\ x \notin done' /\ pc # "closed"
  BY ClosedStays DEF Connected
<1>2. CASE x \in Connected
  <2>1. x \in pending \cup OnStreams
    BY <1>1, <1>2 DEF Covered
  <2>2. InPlace(x)
    BY <2>1 DEF InPlace, OnStreams
  <2> QED
    BY <1>1, <2>2, StepEffect, PlaceStays
<1>3. CASE Insert(x)
  <2>1. peer[x].target \in Known
    <3>1. CASE peer[x].target \notin Known
      BY <1>1, <1>3, <3>1 DEF Insert, removePeers
    <3> QED
      BY <3>1
  <2>2. PICK u \in Known : u = peer[x].target
    BY <2>1
  <2>3. Known' = Known /\ streams'[u].unseeded = streams[u].unseeded \cup {x}
    BY <1>1, <1>3, <2>1, <2>2, InsertEffect
  <2>4. x \in Of(u)'
    BY <2>3 DEF Of, Tracks
  <2> QED
    BY <2>3, <2>4 DEF InPlace
<1> QED
  BY <1>2, <1>3, ConnectedStep

\* A peer is on a stream from Insert on, until it joins another.
LEMMA ApartStep ==
    ASSUME Shape, Noted, Patient, Buffers, Apart, Waiting, [Next]_vars
    PROVE  Apart'
<1>1. ASSUME Known' \subseteq Known, \A v \in Known' : Tracks(v)' \subseteq Tracks(v)
      PROVE  Apart'
  BY <1>1 DEF Apart
<1>2. ASSUME Known' = Known, NEW u \in Known, NEW q, Tracks(u)' \subseteq Tracks(u) \cup {q},
             \A v \in Known : v # u => Tracks(v)' \subseteq Tracks(v) \ {q}
      PROVE  Apart'
  BY <1>2 DEF Apart
<1>3. \A v, gone : Fewer(v, gone) => Tracks(v)' \subseteq Tracks(v)
  BY DEF Fewer, Tracks
<1>4. ASSUME NEW gone, Removes(gone)
      PROVE  Apart'
  BY <1>1, <1>3, <1>4 DEF Removes
<1>5. ASSUME NEW p \in Peers, Inserts(p)
      PROVE  Apart'
  <2>1. PICK u \in Known :
          /\ \A v \in Known : v # u => Fewer(v, {})
          /\ streams'[u].seeded = streams[u].seeded \ {p}
          /\ streams'[u].unseeded = streams[u].unseeded \cup {p}
    BY <1>5 DEF Inserts
  <2>2. p \notin Places /\ Known' = Known
    BY <1>5 DEF Inserts, Patient
  <2>3. \A v \in Known : p \notin Tracks(v)
    BY <2>2, PlacesHave DEF Of
  <2>4. \A v \in Known : v # u => Tracks(v)' \subseteq Tracks(v) \ {p}
    BY <1>3, <2>1, <2>3
  <2>5. Tracks(u)' \subseteq Tracks(u) \cup {p}
    BY <2>1 DEF Tracks
  <2> QED
    BY <1>2, <2>2, <2>4, <2>5
<1>6. ASSUME NEW q \in Peers, JoinsOne(q)
      PROVE  Apart'
  <2>1. PICK u \in Known : Joins(q, u)
    BY <1>6 DEF JoinsOne
  <2>2. Tracks(u)' \subseteq Tracks(u) \cup {q}
    BY <2>1 DEF Joins, Tracks
  <2>3. \A v \in Known : v # u => Tracks(v)' \subseteq Tracks(v) \ {q}
    BY <2>1 DEF Joins, Tracks
  <2>4. Known' = Known
    BY <2>1 DEF Joins
  <2> QED
    BY <1>2, <2>2, <2>3, <2>4
<1>7. ASSUME NEW q \in Peers, SeedsOne(q)
      PROVE  Apart'
  <2>1. PICK u \in Known : /\ Seeds(q, u)
                           /\ streams'[u].seeded \subseteq streams[u].seeded \cup {q}
    BY <1>7 DEF SeedsOne
  <2>2. /\ Known' = Known /\ q \in streams[u].unseeded
        /\ \A v \in Known : v # u => Fewer(v, {})
        /\ streams'[u].unseeded = streams[u].unseeded \ {q}
    BY <2>1 DEF Seeds, Same
  <2>3. Tracks(u)' \subseteq Tracks(u)
    BY <2>1, <2>2 DEF Tracks
  <2> QED
    BY <1>1, <1>3, <2>2, <2>3
<1>8. ASSUME NEW u \in Urls, Forwards(u)
      PROVE  Apart'
  <2>1. Known' \subseteq Known /\ \A v \in Known' : Tracks(v)' = Tracks(v)
    BY <1>8 DEF Forwards, Tracks
  <2> QED
    BY <1>1, <2>1
<1>9. ASSUME NEW u \in Urls, PacketAdds(u)
      PROVE  Apart'
  <2>1. /\ Known' = Known \cup {u} /\ \A v \in Known : Fewer(v, {})
        /\ streams'[u].seeded = pending /\ streams'[u].unseeded = {}
    BY <1>9 DEF PacketAdds, Same
  <2>2. Tracks(u)' = pending
    BY <2>1 DEF Tracks
  <2>3. \A v \in Known : Tracks(v)' \subseteq Tracks(v)
    BY <1>3, <2>1
  <2>4. Known # {} => Tracks(u)' = {}
    BY <2>2 DEF Waiting
  <2> QED
    BY <2>1, <2>3, <2>4 DEF Apart
<1>10. ASSUME NEW u \in Urls, PacketUpdates(u)
       PROVE  Apart'
  <2>1. Known' = Known /\ \A v \in Known : \E gone : Fewer(v, gone)
    BY <1>10 DEF PacketUpdates
  <2> QED
    BY <1>1, <1>3, <2>1
<1>11. CASE Asks
  <2>1. Known' = Known /\ \A v \in Known : Tracks(v)' = Tracks(v)
    BY <1>11 DEF Asks, Tracks
  <2> QED
    BY <1>1, <2>1
<1>12. CASE Sends
  <2>1. Known' = Known /\ \A v \in Known : Tracks(v)' = Tracks(v)
    BY <1>12 DEF Sends, Tracks, Known
  <2> QED
    BY <1>1, <2>1
<1> QED
  BY <1>4, <1>5, <1>6, <1>7, <1>8, <1>9, <1>10, <1>11, <1>12, StepEffect DEF Effect

\* Every step keeps those who wait waiting in one place.
LEMMA WaitingStep ==
    ASSUME Shape, Noted, Buffers, Waiting, [Next]_vars
    PROVE  Waiting'
<1>1. Effect /\ (told \subseteq told' \/ pending' \subseteq told')
  BY StepEffect
<1>2. ASSUME pending' \subseteq pending, Known' \subseteq Known
      PROVE  Waiting'
  BY <1>1, <1>2 DEF Waiting
<1>3. CASE \E gone : Removes(gone)
  BY <1>2, <1>3 DEF Removes
<1>4. ASSUME NEW p \in Peers, Inserts(p) \/ JoinsOne(p) \/ SeedsOne(p)
      PROVE  Waiting'
  BY <1>2, <1>4 DEF Inserts, JoinsOne, SeedsOne, Joins, Seeds
<1>5. ASSUME NEW u \in Urls, Forwards(u)
      PROVE  Waiting'
  <2>1. CASE pending' = pending
    BY <1>2, <1>5, <2>1 DEF Forwards
  <2>2. CASE Known' = {} /\ pending' \subseteq told'
    BY <2>2 DEF Waiting
  <2> QED
    BY <1>1, <1>5, <2>1, <2>2 DEF Forwards
<1>6. ASSUME NEW u \in Urls, PacketAdds(u)
      PROVE  Waiting'
  BY <1>6 DEF PacketAdds, Waiting
<1>7. ASSUME NEW u \in Urls, PacketUpdates(u)
      PROVE  Waiting'
  BY <1>2, <1>7 DEF PacketUpdates
<1>8. CASE Asks
  BY <1>2, <1>8 DEF Asks
<1>9. CASE Sends
  <2>1. Known' = Known /\ pending' = pending
    BY <1>9 DEF Sends, Known
  <2> QED
    BY <1>2, <2>1
<1> QED
  BY <1>1, <1>3, <1>4, <1>5, <1>6, <1>7, <1>8, <1>9 DEF Effect

-----------------------------------------------------------------------------
(* The channels of the closed peers *)

\* A peer that came late has come late for good.
LEMMA LateStep ==
    ASSUME Shape, Noted, [Next]_vars
    PROVE  \A p \in done : peer[p].late => peer'[p].late
<1>1. done \subseteq Reached
  BY DEF Noted
<1>2. ASSUME NEW p \in Peers, PeerChange(p), p \in done /\ peer[p].late => peer'[p].late
      PROVE  \A q \in done : peer[q].late => peer'[q].late
  BY <1>1, <1>2 DEF PeerChange, Reached
<1>3. ASSUME NEW p \in Peers, NEW u \in Urls, Connect(p, u)
      PROVE  \A q \in done : peer[q].late => peer'[q].late
  <2>1. p \notin done
    BY <1>1, <1>3, ConnectPeer DEF Reached
  <2> QED
    BY <1>2, <1>3, <2>1, ConnectPeer
<1>4. ASSUME NEW p \in Peers, NEW u \in Urls, ChooseStream(p, u)
      PROVE  \A q \in done : peer[q].late => peer'[q].late
  BY <1>2, <1>4, ChoosePeer
<1>5. ASSUME NEW p \in Peers, ChannelOpens(p)
      PROVE  \A q \in done : peer[q].late => peer'[q].late
  BY <1>2, <1>5, OpensPeer
<1>6. ASSUME NEW p \in Peers, ConnectionLost(p)
      PROVE  \A q \in done : peer[q].late => peer'[q].late
  BY <1>2, <1>6, LostPeer
<1>7. ASSUME NEW p \in Peers, Insert(p)
      PROVE  \A q \in done : peer[q].late => peer'[q].late
  <2>1. peer[p] # NoPeer
    BY <1>7 DEF Noted, Reached, Insert
  <2> QED
    BY <1>2, <1>7, <2>1, InsertPeer
<1>8. CASE UNCHANGED peer
  BY <1>8
<1> QED
  BY <1>3, <1>4, <1>5, <1>6, <1>7, <1>8, PeerStep

\* A new writer has no channels to fill.
LEMMA DrainedInit == Init => Drained
BY DEF Init, Drained, Known

\* Every step keeps it that a closed peer with channels to fill came late.
LEMMA DrainedStep ==
    ASSUME Shape, Noted, Drained, Buffers, [Next]_vars
    PROVE  Drained'
<1>1. \A p \in done : peer[p].late => peer'[p].late
  BY LateStep
<1>2. ASSUME \A p \in done' \cap clones' : p \in done /\ peer[p].late,
             \A v \in Known' : \A p \in streams'[v].unseeded \cap done' : p \in done /\ peer[p].late
      PROVE  Drained'
  BY <1>1, <1>2 DEF Drained
<1>3. ASSUME NEW gone, Removes(gone)
      PROVE  Drained'
  <2>1. /\ Known' = Known /\ clones' = clones \ gone /\ done' = done \cup gone
        /\ \A v \in Known : streams'[v].unseeded = streams[v].unseeded \ gone
    BY <1>3 DEF Removes, Fewer
  <2> QED
    BY <1>2, <2>1 DEF Drained
<1>4. ASSUME NEW q \in Peers, Inserts(q)
      PROVE  Drained'
  <2>1. /\ Known' = Known /\ clones' = clones /\ done' = done /\ peer'[q].late = (q \in done)
        /\ \A v \in Known : streams'[v].unseeded \subseteq streams[v].unseeded \cup {q}
    BY <1>4 DEF Inserts, Fewer
  <2> QED
    BY <1>1, <2>1 DEF Drained
<1>5. ASSUME NEW q \in Peers, JoinsOne(q)
      PROVE  Drained'
  <2>1. /\ Known' = Known /\ done' = done /\ clones' \subseteq clones \cup ({q} \ done)
        /\ \A v \in Known : streams'[v].unseeded \subseteq streams[v].unseeded
    BY <1>5 DEF JoinsOne, Joins
  <2> QED
    BY <1>2, <2>1 DEF Drained
<1>6. ASSUME NEW q \in Peers, SeedsOne(q)
      PROVE  Drained'
  <2>1. PICK u \in Known : /\ Seeds(q, u)
                           /\ clones' \subseteq clones \cup {q}
    BY <1>6 DEF SeedsOne
  <2>2. /\ Known' = Known /\ done' = done /\ q \in streams[u].unseeded
        /\ \A v \in Known : streams'[v].unseeded \subseteq streams[v].unseeded
    BY <2>1 DEF Seeds, Same, Fewer
  <2>3. q \in done => peer[q].late
    BY <2>1, <2>2 DEF Drained
  <2> QED
    BY <1>2, <2>1, <2>2, <2>3 DEF Drained
<1>7. ASSUME NEW u \in Urls, Forwards(u)
      PROVE  Drained'
  <2>1. /\ Known' \subseteq Known /\ done' = done /\ clones' = clones
        /\ \A v \in Known' : streams'[v].unseeded = streams[v].unseeded
    BY <1>7 DEF Forwards
  <2> QED
    BY <1>2, <2>1 DEF Drained
<1>8. ASSUME NEW u \in Urls, PacketAdds(u)
      PROVE  Drained'
  <2>1. /\ Known' = Known \cup {u} /\ done' = done /\ clones' = clones
        /\ streams'[u].unseeded = {}
        /\ \A v \in Known : streams'[v].unseeded \subseteq streams[v].unseeded
    BY <1>8 DEF PacketAdds, Same, Fewer
  <2> QED
    BY <1>2, <2>1 DEF Drained
<1>9. ASSUME NEW u \in Urls, PacketUpdates(u)
      PROVE  Drained'
  <2>1. PICK gone : /\ done' = done \cup gone /\ clones' = clones \ (gone \ done)
                    /\ Fewer(u, gone) /\ \A v \in Known : v # u => Fewer(v, gone \ done)
    BY <1>9 DEF PacketUpdates
  <2>2. Known' = Known
    BY <1>9 DEF PacketUpdates
  <2>3. \A v \in Known : streams'[v].unseeded \subseteq streams[v].unseeded \ (gone \ done)
    BY <2>1 DEF Fewer
  <2> QED
    BY <1>2, <2>1, <2>2, <2>3 DEF Drained
<1>10. CASE Asks
  BY <1>2, <1>10 DEF Asks, Drained
<1>11. CASE Sends
  <2>1. /\ Known' = Known /\ streams' = streams /\ done' = done
        /\ \A p \in clones' : p \in clones \/ p \notin done
    BY <1>11 DEF Sends, Known
  <2> QED
    BY <1>2, <2>1 DEF Drained
<1> QED
  BY <1>3, <1>4, <1>5, <1>6, <1>7, <1>8, <1>9, <1>10, <1>11, StepEffect DEF Effect

-----------------------------------------------------------------------------
(* The packets *)

\* A new writer has no buffers.
LEMMA BuffersInit == Init => Buffers
<1> SUFFICES ASSUME Init
             PROVE  Buffers
  OBVIOUS
<1>1. Known = {} /\ pc = "idle" /\ released = {} /\ got = [u \in Urls |-> 0]
  BY DEF Init, Known
<1>2. Held = {}
  BY <1>1 DEF Held, Buffered
<1>3. Received = {}
  BY <1>1 DEF Received
<1> QED
  BY <1>1, <1>2, <1>3 DEF Buffers

\* The buffers are as they were, and no packet comes.
LEMMA BuffersFrame ==
    ASSUME Buffers, Known' = Known, \A v \in Known : streams'[v].buf = streams[v].buf,
           UNCHANGED <<got, released>>, UNCHANGED <<pc, job>> \/ (pc # "store" /\ pc' # "store")
    PROVE  Buffers'
<1>1. \A v \in Urls : Buffered(v)' = Buffered(v)
  BY DEF Buffered, Known
<1>2. Held' = Held
  BY <1>1 DEF Held
<1>3. Received' = Received /\ InHand' = InHand
  BY DEF Received, InHand
<1>4. \A u \in Known' : BufferOf(u, streams'[u].buf)
  BY DEF Buffers
<1>5. pc' = "store" => job'.pkt.url = job'.url /\ job'.pkt.id = got'[job'.url]
  BY DEF Buffers
<1> QED
  BY <1>2, <1>3, <1>4, <1>5 DEF Buffers

\* Packets of different sources differ.
LEMMA BufferedApart ==
    ASSUME Buffers
    PROVE  /\ \A u \in Urls : \A x \in Buffered(u) : x[1] = u
           /\ \A u, v \in Urls : u # v => Buffered(u) \cap Buffered(v) = {}
<1>1. ASSUME NEW u \in Urls, NEW x \in Buffered(u)
      PROVE  x[1] = u
  <2>1. u \in Known /\ x \in Ids(streams[u].buf)
    BY <1>1 DEF Buffered
  <2>2. PICK p \in Range(streams[u].buf) : x = <<p.url, p.id>>
    BY <2>1 DEF Ids
  <2>3. p.url = u
    BY <2>1, <2>2 DEF Buffers, BufferOf
  <2> QED
    BY <2>2, <2>3
<1> QED
  BY <1>1

\* The packets of one buffer are given back.
LEMMA BufferFreed ==
    ASSUME Buffers, NEW u \in Urls, \A v \in Urls : v # u => Buffered(v)' = Buffered(v),
           Buffered(u)' = {}, released' = released \cup Buffered(u)
    PROVE  released' \cap Held' = {} /\ released' \cup Held' = released \cup Held
<1>1. Held' \cup Buffered(u) = Held
  BY DEF Held
<1>2. Held' \cap Buffered(u) = {}
  BY BufferedApart DEF Held
<1>3. released \cap Held = {}
  BY DEF Buffers
<1> QED
  BY <1>1, <1>2, <1>3

\* Packet: the packet in hand is a new one.
LEMMA PacketReceived ==
    ASSUME Shape, NEW u \in Urls, NEW kind \in {"key", "delta", "audio"}, NEW p \in Pars,
           Packet(u, kind, p)
    PROVE  /\ Received' = Received \cup {<<u, got[u] + 1>>}
           /\ <<u, got[u] + 1>> \notin Received
           /\ pc' = "store" /\ InHand' = {<<u, got[u] + 1>>}
           /\ job'.pkt.url = job'.url /\ job'.pkt.id = got'[job'.url]
<1>1. PICK pkt : /\ pkt = [url |-> u, id |-> got[u] + 1, kind |-> kind, t |-> 2 * (got[u] + 1),
                           vid |-> vid[u] + IF kind = "audio" THEN 0 ELSE 1]
                 /\ got' = [got EXCEPT ![u] = pkt.id]
                 /\ pc' = "store" /\ job' = [url |-> u, pkt |-> pkt, todo |-> {}]
  BY DEF Packet
<1>2. pkt.url = u /\ pkt.id = got[u] + 1
  BY <1>1
<1>3. got \in [Urls -> Nat] /\ got[u] \in Nat
  BY DEF Shape
<1>4. got'[u] = got[u] + 1 /\ \A v \in Urls : v # u => got'[v] = got[v]
  BY <1>1, <1>2, <1>3
<1>5. job'.url = u /\ job'.pkt = pkt
  BY <1>1
<1>6. \A i : i \in 1 .. got[u] + 1 <=> i \in 1 .. got[u] \/ i = got[u] + 1
  BY <1>3
<1>7. Received' = Received \cup {<<u, got[u] + 1>>}
  <2>1. ASSUME NEW x \in Received'
        PROVE  x \in Received \cup {<<u, got[u] + 1>>}
    <3>1. PICK v \in Urls : x \in {v} \X (1 .. got'[v])
      BY <2>1 DEF Received
    <3>2. PICK i \in 1 .. got'[v] : x = <<v, i>>
      BY <3>1
    <3>3. CASE v = u /\ i = got[u] + 1
      BY <3>2, <3>3
    <3>4. CASE v # u \/ i # got[u] + 1
      <4>1. i \in 1 .. got[v]
        BY <1>4, <1>6, <3>2, <3>4
      <4>2. x \in {v} \X (1 .. got[v])
        BY <3>2, <4>1
      <4> QED
        BY <4>2 DEF Received
    <3> QED
      BY <3>3, <3>4
  <2>2. ASSUME NEW x \in Received
        PROVE  x \in Received'
    <3>1. PICK v \in Urls : x \in {v} \X (1 .. got[v])
      BY <2>2 DEF Received
    <3>2. PICK i \in 1 .. got[v] : x = <<v, i>>
      BY <3>1
    <3>3. i \in 1 .. got'[v]
      BY <1>4, <1>6, <3>2
    <3>4. x \in {v} \X (1 .. got'[v])
      BY <3>2, <3>3
    <3> QED
      BY <3>4 DEF Received
  <2>3. <<u, got[u] + 1>> \in Received'
    <3>1. <<u, got[u] + 1>> \in {u} \X (1 .. got'[u])
      BY <1>3, <1>4
    <3> QED
      BY <3>1 DEF Received
  <2> QED
    BY <2>1, <2>2, <2>3
<1>8. <<u, got[u] + 1>> \notin Received
  <2> SUFFICES ASSUME NEW v \in Urls, <<u, got[u] + 1>> \in {v} \X (1 .. got[v])
               PROVE  FALSE
    BY DEF Received
  <2> QED
    BY <1>3
<1>9. InHand' = {<<u, got[u] + 1>>}
  BY <1>1, <1>2, <1>5 DEF InHand
<1> QED
  BY <1>1, <1>2, <1>4, <1>5, <1>7, <1>8, <1>9

\* Appending adds one element to those of a list.
LEMMA AppendRange ==
    ASSUME NEW S, NEW ps \in Seq(S), NEW p \in S
    PROVE  Range(Append(ps, p)) = Range(ps) \cup {p}
<1>1. PICK n \in Nat : n = Len(ps) /\ DOMAIN ps = 1 .. n
  OBVIOUS
<1>2. PICK t : t = Append(ps, p)
  OBVIOUS
<1>3. DOMAIN t = 1 .. n + 1 /\ t[n + 1] = p /\ \A i \in 1 .. n : t[i] = ps[i]
  BY <1>1, <1>2, AppendProperties
<1>4. \A i : i \in 1 .. n + 1 <=> i \in 1 .. n \/ i = n + 1
  BY <1>1
<1> QED
  BY <1>1, <1>2, <1>3, <1>4 DEF Range

\* Store: of the buffer and the packet in hand, what is not left is given back.
LEMMA BuffersStore ==
    ASSUME Shape, Buffers, Store
    PROVE  Buffers'
<1>1. PICK u \in Known : u = job.url
  BY StoreEffect
<1>2. u \in Urls /\ pc = "store" /\ pc' = "pending" /\ got' = got
  BY DEF Known, Store, input
<1>3. PICK pkt : pkt = job.pkt
  OBVIOUS
<1>4. pkt \in Pkts /\ pkt.url = u /\ pkt.id = got[u]
  BY <1>1, <1>2, <1>3 DEF Shape, Buffers
<1>5. PICK buf \in Seq(Pkts) : buf = streams[u].buf
  BY <1>1 DEF Shape, Streams, Stream, Known
<1>6. PICK all : all = Range(buf) \cup {pkt} /\ all = Range(Append(buf, pkt))
  BY <1>4, AppendRange
<1>7. PICK after : after = streams'[u].buf
  OBVIOUS
<1>8. /\ Known' = Known /\ \A v \in Known : v # u => streams'[v].buf = streams[v].buf
      /\ after # <<>> /\ Key(after[1]) /\ Range(after) \subseteq all
      /\ released' = released \cup {<<q.url, q.id>> : q \in all \ Range(after)}
  BY <1>1, <1>3, <1>5, <1>6, <1>7, StoreEffect DEF Leaves
<1>9. BufferOf(u, buf) /\ released \cap Held = {} /\ released \cup Held = Received \ InHand
  BY <1>5 DEF Buffers
<1>10. InHand = {<<u, pkt.id>>}
  BY <1>1, <1>2, <1>3 DEF InHand
<1>11. Buffered(u) = Ids(buf) /\ Buffered(u)' = Ids(after)
  BY <1>1, <1>5, <1>7, <1>8 DEF Buffered
<1>12. <<u, pkt.id>> \notin Held
  BY <1>9, <1>10
<1>13. <<u, pkt.id>> \notin Ids(buf)
  BY <1>2, <1>11, <1>12 DEF Held
<1>14. \A p, q \in all : p.id = q.id => p = q
  <2>1. \A q \in Range(buf) : q.id # pkt.id
    BY <1>9, <1>13 DEF Ids, BufferOf
  <2> QED
    BY <1>6, <1>9, <2>1 DEF BufferOf
<1>15. \A p \in all : p.url = u
  BY <1>4, <1>6, <1>9 DEF BufferOf
<1>16. BufferOf(u, after)
  BY <1>8, <1>14, <1>15 DEF BufferOf
<1>17. PICK freed : freed = {<<q.url, q.id>> : q \in all \ Range(after)}
  OBVIOUS
<1>18. freed \cap Ids(after) = {}
  <2>1. ASSUME NEW x \in freed, x \in Ids(after)
        PROVE  FALSE
    <3>1. PICK p \in all \ Range(after) : x = <<p.url, p.id>>
      BY <1>17, <2>1
    <3>2. PICK q \in Range(after) : x = <<q.url, q.id>>
      BY <2>1 DEF Ids
    <3>3. p.id = q.id
      BY <3>1, <3>2
    <3> QED
      BY <1>8, <1>14, <3>1, <3>2, <3>3
  <2> QED
    BY <2>1
<1>19. freed \cup Ids(after) = Ids(buf) \cup InHand
  <2>1. {<<q.url, q.id>> : q \in all} = Ids(buf) \cup InHand
    BY <1>4, <1>6, <1>10 DEF Ids
  <2>2. freed \cup Ids(after) = {<<q.url, q.id>> : q \in all}
    BY <1>8, <1>17 DEF Ids
  <2> QED
    BY <2>1, <2>2
<1>20. \A v \in Urls : v # u => Buffered(v)' = Buffered(v)
  BY <1>8 DEF Buffered
<1>21. PICK others : others = UNION {Buffered(v) : v \in Urls \ {u}}
  OBVIOUS
<1>22. Held = others \cup Ids(buf) /\ Held' = others \cup Ids(after)
  <2>1. Held = others \cup Buffered(u)
    BY <1>2, <1>21 DEF Held
  <2>2. Held' = others \cup Buffered(u)'
    BY <1>2, <1>20, <1>21 DEF Held
  <2> QED
    BY <1>11, <2>1, <2>2
<1>23. freed \cap others = {}
  <2>1. \A x \in freed : x[1] = u
    BY <1>15, <1>17
  <2>2. \A x \in others : x[1] # u
    BY <1>21, BufferedApart
  <2> QED
    BY <2>1, <2>2
<1>24. released' \cap Held' = {} /\ released' \cup Held' = Received
  <2>1. released' = released \cup freed
    BY <1>8, <1>17
  <2>2. InHand \subseteq Received
    <3>1. got[u] \in Nat /\ got[u] # 0
      BY <1>2, <1>4 DEF Shape, Pkts
    <3>2. <<u, got[u]>> \in {u} \X (1 .. got[u])
      BY <3>1
    <3> QED
      BY <1>2, <1>4, <1>10, <3>2 DEF Received
  <2>3. released \cap InHand = {}
    BY <1>9
  <2> QED
    BY <1>9, <1>18, <1>19, <1>22, <1>23, <2>1, <2>2, <2>3
<1>25. Received' = Received /\ InHand' = {}
  BY <1>2 DEF Received, InHand
<1>26. \A v \in Known' : BufferOf(v, streams'[v].buf)
  <2>1. \A v \in Known : BufferOf(v, streams[v].buf)
    BY DEF Buffers
  <2> QED
    BY <1>7, <1>8, <1>16, <2>1
<1> QED
  BY <1>2, <1>24, <1>25, <1>26 DEF Buffers

\* Every step keeps the buffers.
LEMMA BuffersStep ==
    ASSUME Shape, Noted, Buffers, [Next]_vars
    PROVE  Buffers'
<1>1. ASSUME UNCHANGED <<streams, got, released>>,
             UNCHANGED <<pc, job>> \/ (pc # "store" /\ pc' # "store")
      PROVE  Buffers'
  <2>1. Known' = Known
    BY <1>1 DEF Known
  <2> QED
    BY <1>1, <2>1, BuffersFrame
<1>2. ASSUME NEW p \in Peers, NEW u \in Urls, Connect(p, u) \/ ChooseStream(p, u)
      PROVE  Buffers'
  BY <1>1, <1>2 DEF Connect, addConnection, ChooseStream, input
<1>3. ASSUME NEW p \in Peers, ChannelOpens(p) \/ ConnectionLost(p)
      PROVE  Buffers'
  BY <1>1, <1>3 DEF ChannelOpens, ConnectionLost, input
<1>4. ASSUME NEW p \in Peers, Insert(p)
      PROVE  Buffers'
  <2>1. UNCHANGED <<got, released, pc, job>>
    BY <1>4 DEF Insert, input
  <2>2. Known' = Known /\ \A v \in Known : streams'[v].buf = streams[v].buf
    <3>1. CASE peer[p].target \in Known
      BY <1>4, <3>1, InsertEffect DEF Same
    <3>2. CASE peer[p].target \notin Known
      <4>1. removePeers({p}) /\ streams' = WithoutPeers(streams, {p})
        BY <1>4, <3>2 DEF Insert
      <4> QED
        BY <4>1, RemovedEffect DEF Removes
    <3> QED
      BY <3>1, <3>2
  <2> QED
    BY <2>1, <2>2, BuffersFrame
<1>5. ASSUME NEW p \in Peers, ClosePeer(p)
      PROVE  Buffers'
  <2>1. UNCHANGED <<got, released, pc, job>>
    BY <1>5 DEF ClosePeer, input
  <2>2. Known' = Known /\ \A v \in Known : streams'[v].buf = streams[v].buf
    BY <1>5, RemovedEffect DEF ClosePeer, Removes
  <2> QED
    BY <2>1, <2>2, BuffersFrame
<1>6. ASSUME NEW p \in Peers, processPendingTracks(p)
      PROVE  Buffers'
  <2>1. UNCHANGED <<got, released, pc>> /\ pc = "pending"
    BY <1>6 DEF processPendingTracks, input
  <2>2. CASE Joins(p, job.url)
    BY <2>1, <2>2, BuffersFrame DEF Joins
  <2>3. CASE UNCHANGED streams
    BY <1>1, <2>1, <2>3
  <2> QED
    BY <1>6, <2>2, <2>3, JoinEffect
<1>7. ASSUME NEW p \in Peers, seedTrack(p)
      PROVE  Buffers'
  <2>1. UNCHANGED <<got, released>> /\ pc = "seed" /\ pc' # "store"
    BY <1>7 DEF seedTrack, input
  <2>2. CASE Removes({p}) /\ \A v \in Known : streams'[v].buf = streams[v].buf
    BY <2>1, <2>2, BuffersFrame DEF Removes
  <2>3. CASE Seeds(p, job.url)
    <3>1. PICK u : u = job.url
      OBVIOUS
    <3>2. Known' = Known /\ \A v \in Known : streams'[v].buf = streams[v].buf
      BY <2>3, <3>1 DEF Seeds, Same
    <3> QED
      BY <2>1, <3>2, BuffersFrame
  <2> QED
    BY <1>7, <2>2, <2>3, SeedEffect
<1>8. ASSUME NEW u \in Urls, addSource(u)
      PROVE  Buffers'
  BY <1>1, <1>8 DEF addSource, input
<1>9. ASSUME NEW u \in Urls, removeSource(u)
      PROVE  Buffers'
  <2>1. UNCHANGED <<got, pc, job>>
    BY <1>9 DEF removeSource, input
  <2>2. CASE UNCHANGED <<streams, released>>
    BY <1>1, <2>1, <2>2
  <2>3. CASE u \in Known /\ RemoveStream(u)
    <3>1. /\ Known' = Known \ {u} /\ released' = released \cup Buffered(u)
          /\ \A v \in Known' : streams'[v].buf = streams[v].buf
      BY <2>3, RemoveStreamEffect
    <3>2. Buffered(u)' = {} /\ \A v \in Urls : v # u => Buffered(v)' = Buffered(v)
      BY <3>1 DEF Buffered
    <3>3. released' \cap Held' = {} /\ released' \cup Held' = released \cup Held
      BY <3>1, <3>2, BufferFreed
    <3>4. Received' = Received /\ InHand' = InHand
      BY <2>1 DEF Received, InHand
    <3>5. \A v \in Known' : BufferOf(v, streams'[v].buf)
      BY <3>1 DEF Buffers
    <3> QED
      BY <2>1, <3>3, <3>4, <3>5 DEF Buffers
  <2> QED
    BY <1>9, <2>2, <2>3 DEF removeSource
<1>10. ASSUME NEW u \in Urls, Receive(u)
       PROVE  Buffers'
  <2>1. PICK new : new = <<u, got[u] + 1>>
    OBVIOUS
  <2>2. /\ Received' = Received \cup {new} /\ new \notin Received
        /\ pc' = "store" /\ InHand' = {new}
        /\ job'.pkt.url = job'.url /\ job'.pkt.id = got'[job'.url]
    BY <1>10, <2>1, ReceiveEffect, PacketReceived
  <2>3. InHand = {}
    BY <1>10 DEF Receive, Ready, InHand
  <2>4. /\ released' \cap Held' = {} /\ released' \cup Held' = released \cup Held
        /\ \A v \in Known' : BufferOf(v, streams'[v].buf)
    <3>1. BufferOf(u, <<>>)
      BY DEF BufferOf, Range
    <3>2. Ids(<<>>) = {}
      BY DEF Ids, Range
    <3>3. \A v \in Known : BufferOf(v, streams[v].buf)
      BY DEF Buffers
    <3>4. CASE PacketAdds(u)
      <4>1. /\ u \notin Known /\ Known' = Known \cup {u} /\ released' = released
            /\ streams'[u].buf = <<>> /\ \A v \in Known : streams'[v].buf = streams[v].buf
        BY <3>4 DEF PacketAdds, Same
      <4>2. Buffered(u) = {} /\ Buffered(u)' = {} /\ \A v \in Urls : v # u => Buffered(v)' = Buffered(v)
        BY <3>2, <4>1 DEF Buffered
      <4>3. released' = released \cup Buffered(u)
        BY <4>1, <4>2
      <4> QED
        BY <3>1, <3>3, <4>1, <4>2, <4>3, BufferFreed
    <3>5. CASE PacketKeeps
      <4>1. Known' = Known /\ released' = released /\ \A v \in Known : streams'[v].buf = streams[v].buf
        BY <3>5 DEF PacketKeeps, Same
      <4>2. \A v \in Urls : Buffered(v)' = Buffered(v)
        BY <4>1 DEF Buffered, Known
      <4>3. Held' = Held
        BY <4>2 DEF Held
      <4> QED
        BY <3>3, <4>1, <4>3 DEF Buffers
    <3>6. CASE PacketUpdates(u)
      <4>1. /\ Known' = Known /\ released' = released \cup Buffered(u) /\ u \in Known
            /\ streams'[u].buf = <<>> /\ \A v \in Known : v # u => streams'[v].buf = streams[v].buf
        BY <3>6 DEF PacketUpdates
      <4>2. Buffered(u)' = {} /\ \A v \in Urls : v # u => Buffered(v)' = Buffered(v)
        BY <3>2, <4>1 DEF Buffered
      <4> QED
        BY <3>1, <3>3, <4>1, <4>2, BufferFreed
    <3> QED
      BY <1>10, <3>4, <3>5, <3>6, ReceiveEffect
  <2>5. released \cup Held = Received
    BY <2>3 DEF Buffers
  <2>6. released' \cup Held' = Received' \ InHand'
    BY <2>2, <2>4, <2>5
  <2> QED
    BY <2>2, <2>4, <2>6 DEF Buffers
<1>11. CASE Move
  <2>1. UNCHANGED <<got, released, pc, job>>
    BY <1>11 DEF Move, input
  <2>2. Known' = Known /\ \A v \in Known : streams'[v].buf = streams[v].buf
    BY <1>11, MoveEffect
  <2> QED
    BY <2>1, <2>2, BuffersFrame
<1>12. CASE Drop
  <2>1. UNCHANGED <<streams, got>> /\ pc = "store" /\ pc' = "idle"
    BY <1>12 DEF Drop, input
  <2>2. Known' = Known /\ Received' = Received /\ InHand' = {}
    BY <2>1 DEF Known, Received, InHand
  <2>3. Held' = Held
    BY <2>1 DEF Held, Buffered, Known
  <2>4. PICK u, pkt : u = job.url /\ pkt = job.pkt
    OBVIOUS
  <2>5. u \in Urls /\ pkt \in Pkts /\ pkt.url = u /\ pkt.id = got[u]
    BY <2>1, <2>4 DEF Shape, Buffers
  <2>6. released' = released \cup {<<u, pkt.id>>}
    <3>1. Range(<<pkt>>) = {pkt}
      BY DEF Range
    <3>2. Ids(<<pkt>>) = {<<u, pkt.id>>}
      BY <2>5, <3>1 DEF Ids
    <3> QED
      BY <1>12, <2>4, <3>2 DEF Drop, Pkt
  <2>7. InHand = {<<u, pkt.id>>}
    BY <2>1, <2>4 DEF InHand
  <2>8. <<u, pkt.id>> \in Received
    <3>1. got[u] \in Nat /\ got[u] # 0
      BY <2>5 DEF Shape, Pkts
    <3>2. <<u, got[u]>> \in {u} \X (1 .. got[u])
      BY <3>1
    <3> QED
      BY <2>5, <3>2 DEF Received
  <2>9. released \cap Held = {} /\ released \cup Held = Received \ {<<u, pkt.id>>}
    BY <2>7 DEF Buffers
  <2>10. released' \cap Held' = {} /\ released' \cup Held' = Received' \ InHand'
    BY <2>2, <2>3, <2>6, <2>8, <2>9
  <2>11. \A v \in Known' : BufferOf(v, streams'[v].buf)
    BY <2>1, <2>2 DEF Buffers
  <2> QED
    BY <2>1, <2>10, <2>11 DEF Buffers
<1>13. CASE Store
  BY <1>13, BuffersStore
<1>14. CASE processExistingTracks
  <2>1. UNCHANGED <<streams, got, released>> /\ pc = "pending" /\ pc' # "store"
    BY <1>14 DEF processExistingTracks, input
  <2> QED
    BY <1>1, <2>1
<1>15. CASE Release
  <2>1. UNCHANGED got /\ pc = "idle" /\ pc' = "closed" /\ released' = released \cup Held
    BY <1>15 DEF Release, Ready, input, Held
  <2>2. Known' = Known /\ \A v \in Known : streams'[v].buf = <<>>
    BY <1>15, ReleaseEffect DEF Removes
  <2>3. Held' = {}
    <3>1. \A v \in Urls : Buffered(v)' = {}
      BY <2>2 DEF Buffered, Ids, Range
    <3> QED
      BY <3>1 DEF Held
  <2>4. Received' = Received /\ InHand' = {} /\ InHand = {}
    BY <2>1 DEF Received, InHand
  <2>5. \A v \in Known' : BufferOf(v, streams'[v].buf)
    BY <2>2 DEF BufferOf, Range
  <2>6. released \cup Held = Received
    BY <2>4 DEF Buffers
  <2> QED
    BY <2>1, <2>3, <2>4, <2>5, <2>6 DEF Buffers
<1>16. CASE UNCHANGED vars
  BY <1>1, <1>16 DEF vars, input
<1> QED
  BY <1>2, <1>3, <1>4, <1>5, <1>6, <1>7, <1>8, <1>9, <1>10, <1>11, <1>12, <1>13, <1>14, <1>15,
     <1>16 DEF Next

-----------------------------------------------------------------------------
(* The packets a peer is offered, in their order *)

\* The parts of a packet.
LEMMA PacketsOf ==
    ASSUME NEW buf \in Seq(Pkts)
    PROVE  \A p \in Range(buf) :
              p \in Pkts /\ p.url \in Urls /\ p.id \in Nat /\ p.t \in Nat /\ p.vid \in Nat
<1>1. \A p \in Range(buf) : p \in Pkts
  BY DEF Range
<1> QED
  BY <1>1 DEF Pkts

\* Packets in their order differ, and the first of them has the least number.
LEMMA RisesApart ==
    ASSUME NEW buf \in Seq(Pkts), Rises(buf)
    PROVE  /\ \A p, r \in Range(buf) : p.id = r.id => p = r
           /\ \A p \in Range(buf) : buf # <<>> /\ buf[1] \in Range(buf) /\ buf[1].id <= p.id
<1>1. PICK n \in Nat : DOMAIN buf = 1 .. n /\ n = Len(buf)
  OBVIOUS
<1>2. \A p : p \in Range(buf) <=> \E i \in 1 .. n : p = buf[i]
  BY <1>1 DEF Range
<1>3. \A i \in 1 .. n : buf[i].id \in Nat
  BY <1>2, PacketsOf
<1>4. \A i, j \in 1 .. n : i < j => buf[i].id < buf[j].id
  BY <1>1 DEF Rises
<1>5. \A i, j \in 1 .. n : i < j \/ j < i \/ i = j
  OBVIOUS
<1>6. \A i, j \in 1 .. n : buf[i].id = buf[j].id => i = j
  BY <1>3, <1>4, <1>5
<1>7. ASSUME NEW i \in 1 .. n
      PROVE  buf # <<>> /\ 1 \in 1 .. n /\ buf[1].id <= buf[i].id
  <2>1. 1 \in 1 .. n /\ (1 < i \/ i = 1)
    BY <1>1
  <2>2. 1 < i => buf[1].id < buf[i].id
    BY <1>4, <2>1
  <2> QED
    BY <1>1, <1>3, <2>1, <2>2
<1> QED
  BY <1>2, <1>6, <1>7

\* What is picked has the elements at the indices, in the order they had.
LEMMA PickedProperties ==
    ASSUME NEW S, NEW ps \in Seq(S), NEW I \in SUBSET (1 .. Len(ps))
    PROVE  /\ Picked(ps, I) \in Seq(S)
           /\ Range(Picked(ps, I)) = {ps[i] : i \in I}
           /\ Rises(ps) => Rises(Picked(ps, I))
<1>1. PICK n \in Nat : n = Len(ps) /\ DOMAIN ps = 1 .. n /\ \A i \in 1 .. n : ps[i] \in S
  OBVIOUS
<1>2. I \in SUBSET (1 .. n)
  BY <1>1
<1>3. PICK m \in Nat : m = Cardinality(I) /\ \E f \in [1 .. m -> I] :
         /\ \A k \in 1 .. m, i \in I : Rank(I, i) = k <=> i = f[k]
         /\ \A k, l \in 1 .. m : k < l => f[k] < f[l]
         /\ \A i \in I : \E k \in 1 .. m : f[k] = i
  BY <1>2, RankProperties, Zenon
<1>4. PICK f \in [1 .. m -> I] :
         /\ \A k \in 1 .. m, i \in I : Rank(I, i) = k <=> i = f[k]
         /\ \A k, l \in 1 .. m : k < l => f[k] < f[l]
         /\ \A i \in I : \E k \in 1 .. m : f[k] = i
  BY <1>3
<1>5. PICK w : w = Picked(ps, I)
  OBVIOUS
<1>6. w = [k \in 1 .. m |-> ps[f[k]]]
  <2>1. \A k \in 1 .. m : f[k] = CHOOSE i \in I : Cardinality({j \in I : j <= i}) = k
    <3> SUFFICES ASSUME NEW k \in 1 .. m
                 PROVE  f[k] = CHOOSE i \in I : Cardinality({j \in I : j <= i}) = k
      OBVIOUS
    <3>1. f[k] \in I /\ \A i \in I : Rank(I, i) = k <=> i = f[k]
      BY <1>4
    <3>2. f[k] \in I /\ \A i \in I : Cardinality({j \in I : j <= i}) = k <=> i = f[k]
      BY <3>1, Zenon DEF Rank
    <3> QED
      BY <3>2, Zenon
  <2>2. /\ w = [k \in 1 .. m |-> ps[CHOOSE i \in I : Cardinality({j \in I : j <= i}) = k]]
        /\ DOMAIN w = 1 .. m
    BY <1>3, <1>5, Zenon DEF Picked
  <2>3. \A k \in 1 .. m : w[k] = ps[f[k]]
    BY <2>1, <2>2, Zenon
  <2> QED
    BY <2>2, <2>3, Zenon
<1>7. \A k \in 1 .. m : f[k] \in I /\ f[k] \in 1 .. n
  BY <1>2
<1>8. w \in Seq(S)
  BY <1>1, <1>6, <1>7
<1>9. DOMAIN w = 1 .. m /\ \A k \in 1 .. m : w[k] = ps[f[k]]
  BY <1>6
<1>10. Range(w) = {ps[i] : i \in I}
  <2>1. Range(w) = {w[k] : k \in 1 .. m}
    BY <1>9 DEF Range
  <2>2. \A k \in 1 .. m : w[k] \in {ps[i] : i \in I}
    BY <1>7, <1>9
  <2>3. \A i \in I : \E k \in 1 .. m : w[k] = ps[i]
    BY <1>4, <1>9
  <2> QED
    BY <2>1, <2>2, <2>3
<1>11. ASSUME Rises(ps)
       PROVE  Rises(w)
  BY <1>1, <1>4, <1>7, <1>9, <1>11 DEF Rises
<1> QED
  BY <1>5, <1>8, <1>10, <1>11

\* Of packets in their order, those from the i-th on are those that are not before it.
LEMMA FromOrder ==
    ASSUME NEW w \in Seq(Pkts), Rises(w), NEW i \in 1 .. Len(w)
    PROVE  /\ From(w, i) \in Seq(Pkts) /\ Rises(From(w, i))
           /\ Range(From(w, i)) = {p \in Range(w) : p.id >= w[i].id}
<1>1. PICK n \in Nat : n = Len(w) /\ DOMAIN w = 1 .. n /\ i \in 1 .. n
  OBVIOUS
<1>2. PICK t : t = From(w, i)
  OBVIOUS
<1>3. /\ t \in Seq(Pkts) /\ Len(t) = n - i + 1
      /\ \A j \in 1 .. n - i + 1 : t[j] = w[i + j - 1]
  BY <1>1, <1>2, SubSeqProperties DEF From
<1>4. DOMAIN t = 1 .. n - i + 1
  BY <1>3
<1>5. \A j \in 1 .. n : w[j].id \in Nat
  <2>1. \A j \in 1 .. n : w[j] \in Pkts
    BY <1>1
  <2> QED
    BY <2>1 DEF Pkts
<1>6. \A j, k \in 1 .. n : j < k => w[j].id < w[k].id
  BY <1>1 DEF Rises
<1>7. \A j \in 1 .. n : w[j].id >= w[i].id <=> j >= i
  <2> SUFFICES ASSUME NEW j \in 1 .. n PROVE w[j].id >= w[i].id <=> j >= i
    OBVIOUS
  <2>1. j < i \/ i < j \/ i = j
    BY <1>1
  <2> QED
    BY <1>1, <1>5, <1>6, <2>1
<1>8. ASSUME NEW j \in 1 .. n - i + 1
      PROVE  t[j] \in {p \in Range(w) : p.id >= w[i].id}
  <2>1. i + j - 1 \in 1 .. n /\ i + j - 1 >= i
    BY <1>1
  <2>2. t[j] = w[i + j - 1] /\ w[i + j - 1] \in Range(w)
    BY <1>1, <1>3, <2>1 DEF Range
  <2> QED
    BY <1>7, <2>1, <2>2
<1>9. ASSUME NEW p \in Range(w), p.id >= w[i].id
      PROVE  p \in Range(t)
  <2>1. PICK j \in 1 .. n : p = w[j]
    BY <1>1 DEF Range
  <2>2. j >= i
    BY <1>7, <1>9, <2>1
  <2>3. j - i + 1 \in 1 .. n - i + 1 /\ i + (j - i + 1) - 1 = j
    BY <1>1, <2>2
  <2> QED
    BY <1>3, <1>4, <2>1, <2>3 DEF Range
<1>10. Range(t) = {p \in Range(w) : p.id >= w[i].id}
  BY <1>4, <1>8, <1>9 DEF Range
<1> QED
  BY <1>2, <1>3, <1>10, FromProperties

\* One after the other.
LEMMA ConcatOrder ==
    ASSUME NEW v \in Seq(Pkts), NEW w \in Seq(Pkts), Rises(v), Rises(w),
           \A p \in Range(v), q \in Range(w) : p.id < q.id
    PROVE  v \o w \in Seq(Pkts) /\ Rises(v \o w) /\ Range(v \o w) = Range(v) \cup Range(w)
<1>1. PICK m \in Nat, n \in Nat : m = Len(v) /\ n = Len(w) /\ DOMAIN v = 1 .. m /\ DOMAIN w = 1 .. n
  OBVIOUS
<1>2. PICK t : t = v \o w
  OBVIOUS
<1>3. /\ t \in Seq(Pkts) /\ Len(t) = m + n
      /\ \A i \in 1 .. m + n : t[i] = IF i <= m THEN v[i] ELSE w[i - m]
  BY <1>1, <1>2, ConcatProperties
<1>4. DOMAIN t = 1 .. m + n
  BY <1>3
<1>5. /\ \A i \in 1 .. m : i \in 1 .. m + n /\ t[i] = v[i]
      /\ \A i \in 1 .. n : i + m \in 1 .. m + n /\ t[i + m] = w[i]
      /\ \A i \in 1 .. m + n : i \in 1 .. m \/ (i - m \in 1 .. n /\ i = (i - m) + m)
  <2>1. \A i \in 1 .. m : i \in 1 .. m + n /\ i <= m
    BY <1>1
  <2>2. \A i \in 1 .. n : i + m \in 1 .. m + n /\ ~ (i + m <= m) /\ i + m - m = i
    BY <1>1
  <2>3. \A i \in 1 .. m + n : i \in 1 .. m \/ (i - m \in 1 .. n /\ i = (i - m) + m)
    BY <1>1
  <2> QED
    BY <1>3, <2>1, <2>2, <2>3
<1>6. Range(t) = Range(v) \cup Range(w)
  <2>1. ASSUME NEW i \in 1 .. m + n
        PROVE  t[i] \in Range(v) \cup Range(w)
    <3>1. CASE i \in 1 .. m
      BY <1>1, <1>5, <3>1 DEF Range
    <3>2. CASE i - m \in 1 .. n /\ i = (i - m) + m
      <4>1. t[i] = w[i - m]
        BY <1>5, <3>2
      <4> QED
        BY <1>1, <3>2, <4>1 DEF Range
    <3> QED
      BY <1>5, <3>1, <3>2
  <2>2. Range(v) \subseteq Range(t)
    BY <1>1, <1>4, <1>5 DEF Range
  <2>3. Range(w) \subseteq Range(t)
    BY <1>1, <1>4, <1>5 DEF Range
  <2>4. Range(t) \subseteq Range(v) \cup Range(w)
    BY <1>4, <2>1 DEF Range
  <2> QED
    BY <2>2, <2>3, <2>4
<1>7. Rises(t)
  <2> SUFFICES ASSUME NEW i \in 1 .. m + n, NEW j \in 1 .. m + n, i < j
               PROVE  t[i].id < t[j].id
    BY <1>4 DEF Rises
  <2>1. CASE j \in 1 .. m
    <3>1. i \in 1 .. m
      BY <1>1, <2>1
    <3> QED
      BY <1>1, <1>5, <2>1, <3>1 DEF Rises
  <2>2. CASE i \in 1 .. m /\ j - m \in 1 .. n /\ j = (j - m) + m
    <3>1. t[i] = v[i] /\ t[j] = w[j - m]
      BY <1>5, <2>2
    <3> QED
      BY <1>1, <2>2, <3>1 DEF Range
  <2>3. CASE i - m \in 1 .. n /\ i = (i - m) + m /\ j - m \in 1 .. n /\ j = (j - m) + m
    <3>1. t[i] = w[i - m] /\ t[j] = w[j - m] /\ i - m < j - m
      <4>1. i - m < j - m
        BY <1>1
      <4> QED
        BY <1>5, <2>3, <4>1
    <3> QED
      BY <1>1, <2>3, <3>1 DEF Rises
  <2> QED
    BY <1>5, <2>1, <2>2, <2>3
<1> QED
  BY <1>2, <1>3, <1>6, <1>7

\* What GetBuffer returns: of the packets from some keyframe on, the video packets
\* before ts, and those from ts on.
LEMMA GetBufferProperties ==
    ASSUME NEW buf \in Seq(Pkts), Rises(buf), buf # <<>>, Key(buf[1]),
           \A p \in Range(buf) : p.t = 2 * p.id, NEW ts \in Int
    PROVE  LET b == GetBuffer(buf, ts) IN
           /\ b.seed \in Seq(Pkts) /\ b.rest \in Seq(Pkts) /\ Rises(b.seed) /\ Rises(b.rest)
           /\ \E k \in Range(buf) :
                 /\ Key(k)
                 /\ Range(b.seed) = {p \in Range(buf) : Video(p) /\ p.id >= k.id /\ p.t < ts}
                 /\ Range(b.rest) = {p \in Range(buf) : p.id >= k.id /\ p.t >= ts}
<1>1. PICK n \in Nat : n = Len(buf) /\ DOMAIN buf = 1 .. n /\ 1 \in 1 .. n
  OBVIOUS
<1>2. \A p \in Range(buf) : p \in Pkts /\ p.id \in Nat /\ p.t \in Nat /\ p.t = 2 * p.id
  BY PacketsOf
<1>3. PICK b : b = GetBuffer(buf, ts)
  OBVIOUS
<1>4. PICK running : running = {i \in Groups(buf) : buf[i].t <= ts}
  OBVIOUS
<1>5. Groups(buf) = {i \in 1 .. n : Key(buf[i])}
  BY <1>1 DEF Groups
<1>6. CASE running = {}
  <2>1. b = [seed |-> <<>>, rest |-> buf]
    BY <1>3, <1>4, <1>6 DEF GetBuffer
  <2>2. buf[1] \in Range(buf) /\ ~ (buf[1].t <= ts)
    BY <1>1, <1>4, <1>5, <1>6 DEF Range
  <2>3. \A p \in Range(buf) : p.id >= buf[1].id
    <3> SUFFICES ASSUME NEW j \in 1 .. n PROVE buf[j].id >= buf[1].id
      BY <1>1 DEF Range
    <3>1. buf[j] \in Range(buf)
      BY <1>1 DEF Range
    <3>2. CASE j = 1
      BY <1>2, <3>1, <3>2
    <3>3. CASE j # 1
      <4>1. buf[1].id < buf[j].id
        BY <1>1, <3>3 DEF Rises
      <4> QED
        BY <1>2, <2>2, <3>1, <4>1
    <3> QED
      BY <3>2, <3>3
  <2>4. \A p \in Range(buf) : p.t >= ts /\ ~ (p.t < ts)
    BY <1>2, <2>2, <2>3
  <2>5. PICK none \in Seq(Pkts) : none = <<>> /\ Rises(none) /\ Range(none) = {}
    <3>1. PICK none \in Seq(Pkts) : none = <<>>
      <4>1. <<>> \in Seq(Pkts)
        OBVIOUS
      <4> QED
        BY <4>1
    <3>2. DOMAIN none = {}
      BY <3>1
    <3>3. Rises(none) /\ Range(none) = {}
      BY <3>2 DEF Rises, Range
    <3> QED
      BY <3>1, <3>3
  <2>6. b.seed = none /\ b.rest = buf
    BY <2>1, <2>5
  <2>7. Range(b.seed) = {p \in Range(buf) : Video(p) /\ p.id >= buf[1].id /\ p.t < ts}
    BY <2>4, <2>5, <2>6
  <2>8. Range(b.rest) = {p \in Range(buf) : p.id >= buf[1].id /\ p.t >= ts}
    BY <2>3, <2>4, <2>6
  <2> QED
    BY <1>3, <2>2, <2>5, <2>6, <2>7, <2>8
<1>7. CASE running # {}
  <2>1. PICK i \in running : i = Max(running)
    <3>1. running \in SUBSET Nat /\ \A j \in running : j <= n
      BY <1>1, <1>4, <1>5
    <3> QED
      BY <1>1, <1>7, <3>1, MaxProperties
  <2>2. i \in 1 .. n /\ Key(buf[i])
    BY <1>4, <1>5
  <2>3. PICK k : k = buf[i] /\ k \in Range(buf)
    BY <1>1, <2>2 DEF Range
  <2>4. PICK some : some = From(buf, i)
    OBVIOUS
  <2>5. /\ some \in Seq(Pkts) /\ Rises(some)
        /\ Range(some) = {p \in Range(buf) : p.id >= k.id}
    BY <1>1, <2>2, <2>3, <2>4, FromOrder
  <2>6. PICK A, B : /\ A = {j \in 1 .. Len(some) : some[j].t < ts /\ Video(some[j])}
                    /\ B = {j \in 1 .. Len(some) : some[j].t >= ts}
    OBVIOUS
  <2>7. b = [seed |-> Picked(some, A), rest |-> Picked(some, B)]
    BY <1>3, <1>4, <1>7, <2>1, <2>4, <2>6 DEF GetBuffer
  <2>8. b.seed = Picked(some, A) /\ b.rest = Picked(some, B)
    BY <2>7
  <2>9. A \in SUBSET (1 .. Len(some)) /\ B \in SUBSET (1 .. Len(some))
    BY <2>6
  <2>10. /\ b.seed \in Seq(Pkts) /\ b.rest \in Seq(Pkts) /\ Rises(b.seed) /\ Rises(b.rest)
         /\ Range(b.seed) = {some[j] : j \in A} /\ Range(b.rest) = {some[j] : j \in B}
    BY <2>5, <2>8, <2>9, PickedProperties
  <2>11. \A p : p \in Range(some) <=> \E j \in 1 .. Len(some) : p = some[j]
    BY <2>5 DEF Range
  <2>12. {some[j] : j \in A} = {p \in Range(some) : p.t < ts /\ Video(p)}
    BY <2>6, <2>11
  <2>13. {some[j] : j \in B} = {p \in Range(some) : p.t >= ts}
    BY <2>6, <2>11
  <2>14. Range(b.seed) = {p \in Range(buf) : Video(p) /\ p.id >= k.id /\ p.t < ts}
    BY <2>5, <2>10, <2>12
  <2>15. Range(b.rest) = {p \in Range(buf) : p.id >= k.id /\ p.t >= ts}
    BY <2>5, <2>10, <2>13
  <2> QED
    BY <1>3, <2>2, <2>3, <2>10, <2>14, <2>15
<1> QED
  BY <1>6, <1>7

\* All the video packets of a buffer from a keyframe on, in their order.
Starts(buf, ps) ==
    /\ ps \in Seq(Pkts) /\ Rises(ps)
    /\ \E k \in Range(buf) : Key(k) /\ Videos(ps) = {p \in Videos(buf) : p.id >= k.id}

\* seedTrack sends such a run.
LEMMA SeedStarts ==
    ASSUME NEW buf \in Seq(Pkts), Rises(buf), buf # <<>>, Key(buf[1]),
           \A p \in Range(buf) : p.t = 2 * p.id, NEW ts \in Int
    PROVE  Starts(buf, GetBuffer(buf, ts).seed \o GetBuffer(buf, ts).rest)
<1>1. PICK s, r : s = GetBuffer(buf, ts).seed /\ r = GetBuffer(buf, ts).rest
  OBVIOUS
<1>2. /\ s \in Seq(Pkts) /\ r \in Seq(Pkts) /\ Rises(s) /\ Rises(r)
      /\ \E k \in Range(buf) :
            /\ Key(k)
            /\ Range(s) = {p \in Range(buf) : Video(p) /\ p.id >= k.id /\ p.t < ts}
            /\ Range(r) = {p \in Range(buf) : p.id >= k.id /\ p.t >= ts}
  BY <1>1, GetBufferProperties
<1>3. PICK k \in Range(buf) :
            /\ Key(k)
            /\ Range(s) = {p \in Range(buf) : Video(p) /\ p.id >= k.id /\ p.t < ts}
            /\ Range(r) = {p \in Range(buf) : p.id >= k.id /\ p.t >= ts}
  BY <1>2
<1>4. \A p \in Range(buf) : p.id \in Nat /\ p.t \in Nat /\ p.t = 2 * p.id
  BY PacketsOf
<1>5. \A p \in Range(s), q \in Range(r) : p.id < q.id
  BY <1>3, <1>4
<1>6. s \o r \in Seq(Pkts) /\ Rises(s \o r) /\ Range(s \o r) = Range(s) \cup Range(r)
  BY <1>2, <1>5, ConcatOrder
<1>7. Videos(s \o r) = {p \in Videos(buf) : p.id >= k.id}
  <2>1. \A p \in Range(buf) : p.t < ts \/ p.t >= ts
    BY <1>4
  <2> QED
    BY <1>3, <1>6, <2>1 DEF Videos
<1> QED
  BY <1>1, <1>3, <1>6, <1>7 DEF Starts

\* A peer that may join gets such a run, or nothing when the packet is a keyframe.
LEMMA JoinStarts ==
    ASSUME NEW buf \in Seq(Pkts), Rises(buf), buf # <<>>, Key(buf[1]),
           \A p \in Range(buf) : p.t = 2 * p.id, NEW ts \in Int, NEW pkt,
           canAddTrackToPeer(buf, pkt, ts).ok
    PROVE  LET c == canAddTrackToPeer(buf, pkt, ts) IN
           (c.buf = <<>> /\ Key(pkt)) \/ Starts(buf, c.buf)
<1>1. PICK b : b = GetBuffer(buf, ts)
  OBVIOUS
<1>2. PICK s, r : s = b.seed /\ r = b.rest
  OBVIOUS
<1>3. /\ s \in Seq(Pkts) /\ r \in Seq(Pkts) /\ Rises(s) /\ Rises(r)
      /\ \E k \in Range(buf) :
            /\ Key(k)
            /\ Range(s) = {p \in Range(buf) : Video(p) /\ p.id >= k.id /\ p.t < ts}
            /\ Range(r) = {p \in Range(buf) : p.id >= k.id /\ p.t >= ts}
  BY <1>1, <1>2, GetBufferProperties
<1>4. PICK k \in Range(buf) :
            /\ Key(k)
            /\ Range(s) = {p \in Range(buf) : Video(p) /\ p.id >= k.id /\ p.t < ts}
            /\ Range(r) = {p \in Range(buf) : p.id >= k.id /\ p.t >= ts}
  BY <1>3
<1>5. \A p \in Range(buf) : p.id \in Nat /\ p.t \in Nat /\ p.t = 2 * p.id
  BY PacketsOf
<1>6. PICK seeds, rests :
         /\ seeds = {i \in 1 .. Len(s) : i > Len(s) - Lookback /\ Key(s[i])}
         /\ rests = {i \in 1 .. Len(r) : Key(r[i]) /\ Units(SubSeq(r, 1, i - 1)) < Lookback}
  OBVIOUS
<1>7. PICK c : c = canAddTrackToPeer(buf, pkt, ts)
  OBVIOUS
<1>8. c = IF r = <<>> THEN [ok |-> Key(pkt), buf |-> <<>>]
          ELSE IF seeds # {} THEN [ok |-> TRUE, buf |-> From(s, Min(seeds)) \o r]
          ELSE IF rests # {} THEN [ok |-> TRUE, buf |-> From(r, Min(rests))]
          ELSE [ok |-> FALSE, buf |-> <<>>]
  BY <1>1, <1>2, <1>6, <1>7 DEF canAddTrackToPeer
<1>9. CASE r = <<>>
  BY <1>7, <1>8, <1>9
<1>10. CASE r # <<>> /\ seeds # {}
  <2>1. PICK i \in seeds : i = Min(seeds)
    <3>1. seeds \in SUBSET Nat
      BY <1>6
    <3> QED
      BY <1>10, <3>1, MinProperties
  <2>2. i \in 1 .. Len(s) /\ Key(s[i]) /\ s[i] \in Range(s)
    BY <1>3, <1>6 DEF Range
  <2>3. PICK h : h = s[i] /\ h \in Range(buf) /\ h.id >= k.id /\ h.t < ts
    BY <1>4, <2>2
  <2>4. PICK f : f = From(s, i)
    OBVIOUS
  <2>5. f \in Seq(Pkts) /\ Rises(f) /\ Range(f) = {p \in Range(s) : p.id >= h.id}
    BY <1>3, <2>2, <2>3, <2>4, FromOrder
  <2>6. \A p \in Range(f), q \in Range(r) : p.id < q.id
    BY <1>4, <1>5, <2>5
  <2>7. f \o r \in Seq(Pkts) /\ Rises(f \o r) /\ Range(f \o r) = Range(f) \cup Range(r)
    BY <1>3, <2>5, <2>6, ConcatOrder
  <2>8. Videos(f \o r) = {p \in Videos(buf) : p.id >= h.id}
    <3>1. \A p \in Range(buf) : (p.t < ts \/ p.t >= ts) /\ (p.id >= h.id => p.id >= k.id)
                                /\ (p.t >= ts => p.id >= h.id)
      BY <1>4, <1>5, <2>3
    <3> QED
      BY <1>4, <2>5, <2>7, <3>1 DEF Videos
  <2>9. c.buf = f \o r
    BY <1>8, <1>10, <2>1, <2>4
  <2> QED
    BY <1>7, <2>2, <2>3, <2>7, <2>8, <2>9 DEF Starts
<1>11. CASE r # <<>> /\ seeds = {} /\ rests # {}
  <2>1. PICK i \in rests : i = Min(rests)
    <3>1. rests \in SUBSET Nat
      BY <1>6
    <3> QED
      BY <1>11, <3>1, MinProperties
  <2>2. i \in 1 .. Len(r) /\ Key(r[i]) /\ r[i] \in Range(r)
    BY <1>3, <1>6 DEF Range
  <2>3. PICK h : h = r[i] /\ h \in Range(buf) /\ h.id >= k.id /\ h.t >= ts
    BY <1>4, <2>2
  <2>4. PICK f : f = From(r, i)
    OBVIOUS
  <2>5. f \in Seq(Pkts) /\ Rises(f) /\ Range(f) = {p \in Range(r) : p.id >= h.id}
    BY <1>3, <2>2, <2>3, <2>4, FromOrder
  <2>6. Videos(f) = {p \in Videos(buf) : p.id >= h.id}
    <3>1. \A p \in Range(buf) : p.id >= h.id => p.id >= k.id /\ p.t >= ts
      BY <1>4, <1>5, <2>3
    <3> QED
      BY <1>4, <2>5, <3>1 DEF Videos
  <2>7. c.buf = f
    BY <1>8, <1>11, <2>1, <2>4
  <2> QED
    BY <1>7, <2>2, <2>3, <2>5, <2>6, <2>7 DEF Starts
<1>12. CASE r # <<>> /\ seeds = {} /\ rests = {}
  BY <1>7, <1>8, <1>12
<1> QED
  BY <1>9, <1>10, <1>11, <1>12

-----------------------------------------------------------------------------
(* What a peer is offered, packet by packet *)

Show(p) == [url |-> p.url, vid |-> p.vid, key |-> Key(p)]
Follows(q, r) ==
    q.key \/ (q.url = r.url /\ q.vid >= r.vid /\ \A v \in r.vid + 1 .. q.vid - 1 : <<q.url, v>> \in cut)
Decodable(f) == \A i \in 2 .. Len(f) : Follows(f[i], f[i - 1])

\* The property, feed by feed.
LEMMA DecodableFeeds == FeedIsDecodable <=> \A p \in Peers : Decodable(feed[p])
  BY DEF FeedIsDecodable, Decodable, Follows

\* The video packets of what is offered come after the last one, in their order.
LEMMA OfferedVideos ==
    ASSUME NEW q, NEW ps \in Seq(Pkts), Rises(ps)
    PROVE  \E w \in Seq(Pkts) :
              /\ Rises(w) /\ Range(w) = Videos(ps)
              /\ Offered(q, ps) = IF w = <<>> THEN feed[q]
                                  ELSE <<Last(feed[q])>> \o [i \in 1 .. Len(w) |-> Show(w[i])]
<1>1. PICK I : I = {i \in 1 .. Len(ps) : Video(ps[i])}
  OBVIOUS
<1>2. PICK w : w = Picked(ps, I)
  OBVIOUS
<1>3. w \in Seq(Pkts) /\ Rises(w) /\ Range(w) = {ps[i] : i \in I}
  BY <1>1, <1>2, PickedProperties
<1>4. Range(w) = Videos(ps)
  <2>1. \A p : p \in Range(ps) <=> \E i \in 1 .. Len(ps) : p = ps[i]
    BY DEF Range
  <2> QED
    BY <1>1, <1>3, <2>1 DEF Videos
<1>5. PICK shown : shown = [i \in 1 .. Len(w) |-> Show(w[i])]
  OBVIOUS
<1>6. Offered(q, ps) = IF shown = <<>> THEN feed[q] ELSE <<Last(feed[q])>> \o shown
  BY <1>1, <1>2, <1>5 DEF Offered, Show
<1>7. shown = <<>> <=> w = <<>>
  BY <1>3, <1>5
<1> QED
  BY <1>3, <1>4, <1>5, <1>6, <1>7

\* A feed of packets that each follow the one before.
LEMMA ShownFeed ==
    ASSUME NEW h \in Shown, NEW w \in Seq(Pkts), w # <<>>,
           NEW f, f = <<h>> \o [i \in 1 .. Len(w) |-> Show(w[i])],
           Follows(Show(w[1]), h),
           \A i \in 1 .. Len(w) - 1 : Follows(Show(w[i + 1]), Show(w[i]))
    PROVE  f \in Seq(Shown) /\ f # <<>> /\ Decodable(f) /\ Last(f) = Show(w[Len(w)])
<1>1. PICK n \in Nat : n = Len(w) /\ n # 0 /\ \A i \in 1 .. n : w[i] \in Pkts
  OBVIOUS
<1>2. \A i \in 1 .. n : Show(w[i]) \in Shown
  BY <1>1 DEF Show, Shown, Pkts, Key
<1>3. PICK s : s = [i \in 1 .. Len(w) |-> Show(w[i])]
  OBVIOUS
<1>4. s \in Seq(Shown) /\ Len(s) = n /\ \A i \in 1 .. n : s[i] = Show(w[i])
  BY <1>1, <1>2, <1>3
<1>5. PICK e : e = <<h>>
  OBVIOUS
<1>6. e \in Seq(Shown) /\ Len(e) = 1 /\ e[1] = h /\ f = e \o s
  BY <1>3, <1>5
<1>7. /\ f \in Seq(Shown) /\ Len(f) = 1 + n
      /\ \A i \in 1 .. 1 + n : f[i] = IF i <= 1 THEN e[i] ELSE s[i - 1]
  <2>1. /\ e \o s \in Seq(Shown) /\ Len(e \o s) = Len(e) + Len(s)
        /\ \A i \in 1 .. Len(e) + Len(s) : (e \o s)[i] = IF i <= Len(e) THEN e[i] ELSE s[i - Len(e)]
    BY <1>4, <1>6, ConcatProperties
  <2> QED
    BY <1>4, <1>6, <2>1
<1>8. f[1] = h /\ \A i \in 2 .. 1 + n : f[i] = Show(w[i - 1]) /\ i - 1 \in 1 .. n
  <2>1. 1 \in 1 .. 1 + n /\ 1 <= 1
    BY <1>1
  <2>2. \A i \in 2 .. 1 + n : i \in 1 .. 1 + n /\ ~ (i <= 1) /\ i - 1 \in 1 .. n
    BY <1>1
  <2> QED
    BY <1>4, <1>6, <1>7, <2>1, <2>2
<1>9. ASSUME NEW i \in 2 .. Len(f)
      PROVE  Follows(f[i], f[i - 1])
  <2>1. i \in 2 .. 1 + n /\ f[i] = Show(w[i - 1])
    BY <1>7, <1>8
  <2>2. CASE i = 2
    <3>1. i - 1 = 1
      BY <2>2
    <3> QED
      BY <1>8, <2>1, <3>1
  <2>3. CASE i # 2
    <3>1. i - 1 \in 2 .. 1 + n /\ i - 2 \in 1 .. Len(w) - 1 /\ i - 1 - 1 = i - 2 /\ i - 2 + 1 = i - 1
      BY <1>1, <2>1, <2>3
    <3>2. f[i - 1] = Show(w[i - 2])
      BY <1>8, <3>1
    <3>3. Follows(Show(w[i - 2 + 1]), Show(w[i - 2]))
      BY <3>1
    <3> QED
      BY <2>1, <3>1, <3>2, <3>3
  <2> QED
    BY <2>2, <2>3
<1>10. Decodable(f)
  BY <1>9 DEF Decodable
<1>11. Last(f) = Show(w[Len(w)]) /\ f # <<>>
  <2>1. Len(f) \in 2 .. 1 + n /\ Len(f) - 1 = n
    BY <1>1, <1>7
  <2>2. f[Len(f)] = Show(w[Len(f) - 1])
    BY <1>8, <2>1
  <2>3. Len(f) # 0
    BY <2>1
  <2> QED
    BY <1>1, <1>7, <2>1, <2>2, <2>3 DEF Last
<1> QED
  BY <1>7, <1>10, <1>11

\* A run of video packets from a keyframe on can be decoded whatever came before,
\* and nothing that is stored is missing after it.
LEMMA StartFeed ==
    ASSUME NEW q, Last(feed[q]) \in Shown, NEW u, NEW n \in Int, NEW buf \in Seq(Pkts),
           Rises(buf), Numbered(Range(buf)), Complete(u, buf, n),
           \A p \in Range(buf) : p.url = u /\ p.vid <= n,
           NEW ps, Starts(buf, ps)
    PROVE  LET f == Offered(q, ps) IN
           /\ f \in Seq(Shown) /\ f # <<>> /\ Decodable(f)
           /\ Last(f).url = u /\ Last(f).vid <= n
           /\ \A v \in Last(f).vid + 1 .. n : <<u, v>> \in cut
<1>1. PICK k \in Range(buf) : Key(k) /\ Videos(ps) = {p \in Videos(buf) : p.id >= k.id}
  BY DEF Starts
<1>2. PICK w \in Seq(Pkts) :
         /\ Rises(w) /\ Range(w) = Videos(ps)
         /\ Offered(q, ps) = IF w = <<>> THEN feed[q]
                             ELSE <<Last(feed[q])>> \o [i \in 1 .. Len(w) |-> Show(w[i])]
  BY OfferedVideos DEF Starts
<1>3. \A p \in Range(buf) : p \in Pkts /\ p.id \in Nat /\ p.vid \in Nat /\ p.url = u
  BY PacketsOf
<1>4. PICK m \in Nat : m = Len(w) /\ DOMAIN w = 1 .. m
  OBVIOUS
<1>5. \A p : p \in Range(w) <=> \E i \in 1 .. m : p = w[i]
  BY <1>4 DEF Range
<1>6. \A p : p \in Range(w) <=> p \in Range(buf) /\ Video(p) /\ p.id >= k.id
  BY <1>1, <1>2 DEF Videos
<1>7. k \in Range(w)
  BY <1>1, <1>3, <1>6 DEF Video, Key
<1>8. \A i, j \in 1 .. m : (i < j <=> w[i].id < w[j].id) /\ (w[i].id = w[j].id => i = j)
  <2> SUFFICES ASSUME NEW i \in 1 .. m, NEW j \in 1 .. m
               PROVE  (i < j <=> w[i].id < w[j].id) /\ (w[i].id = w[j].id => i = j)
    OBVIOUS
  <2>1. w[i].id \in Nat /\ w[j].id \in Nat
    BY <1>3, <1>5, <1>6
  <2>2. i < j \/ j < i \/ i = j
    OBVIOUS
  <2>3. (i < j => w[i].id < w[j].id) /\ (j < i => w[j].id < w[i].id)
    BY <1>2, <1>4 DEF Rises
  <2> QED
    BY <2>1, <2>2, <2>3
<1>9. \A p, r \in Range(buf) : p.id = r.id => p = r
  BY RisesApart
<1>10. buf # <<>> /\ buf[1] \in Range(buf) /\ \A p \in Range(buf) : buf[1].vid <= p.vid
  <2>1. buf # <<>> /\ buf[1] \in Range(buf) /\ \A p \in Range(buf) : buf[1].id <= p.id
    BY RisesApart
  <2>2. ASSUME NEW p \in Range(buf)
        PROVE  buf[1].vid <= p.vid
    <3>1. buf[1].id < p.id \/ buf[1] = p
      BY <1>3, <1>9, <2>1
    <3> QED
      BY <1>3, <2>1, <3>1 DEF Numbered
  <2> QED
    BY <2>1, <2>2
\* a number above that of a packet is that of a later one, or was cut
<1>11. ASSUME NEW i \in 1 .. m, NEW v \in w[i].vid + 1 .. n
       PROVE  <<u, v>> \in cut \/ \E j \in 1 .. m : i < j /\ w[j].vid = v
  <2>1. w[i] \in Range(buf) /\ w[i].id >= k.id /\ w[i].vid \in Nat /\ buf[1].vid <= w[i].vid
    BY <1>3, <1>5, <1>6, <1>10
  <2>2. v \in buf[1].vid .. n
    BY <1>3, <1>10, <2>1
  <2>3. <<u, v>> \in cut \/ \E p \in Videos(buf) : p.vid = v
    BY <1>10, <2>2 DEF Complete
  <2>4. ASSUME NEW p \in Videos(buf), p.vid = v
        PROVE  \E j \in 1 .. m : i < j /\ w[j].vid = v
    <3>1. p \in Range(buf) /\ Video(p) /\ p.id \in Nat /\ w[i].id \in Nat /\ k.id \in Nat
      BY <1>3, <2>1 DEF Videos
    <3>2. ~ (p.id < w[i].id)
      <4>1. p.id < w[i].id => p.vid <= w[i].vid
        BY <2>1, <3>1 DEF Numbered
      <4> QED
        BY <2>1, <2>4, <4>1
    <3>3. p.id # w[i].id
      <4>1. p.id = w[i].id => p = w[i]
        BY <1>9, <2>1, <3>1
      <4> QED
        BY <2>1, <2>4, <4>1
    <3>4. w[i].id < p.id /\ p.id >= k.id
      BY <2>1, <3>1, <3>2, <3>3
    <3>5. PICK j \in 1 .. m : p = w[j]
      BY <1>5, <1>6, <3>1, <3>4
    <3> QED
      BY <1>8, <2>4, <3>4, <3>5
  <2> QED
    BY <2>3, <2>4
<1>12. m # 0 /\ w # <<>> /\ 1 \in 1 .. m /\ m \in 1 .. m
  <2>1. m # 0
    BY <1>5, <1>7
  <2> QED
    BY <1>4, <2>1
<1>13. Follows(Show(w[1]), Last(feed[q]))
  <2>1. PICK i \in 1 .. m : k = w[i]
    BY <1>5, <1>7
  <2>2. w[1].id >= k.id /\ w[1].id \in Nat /\ k.id \in Nat
    BY <1>3, <1>5, <1>6, <1>12
  <2>3. ~ (1 < i)
    BY <1>8, <1>12, <2>1, <2>2
  <2>4. w[1] = k
    BY <2>1, <2>3
  <2> QED
    BY <1>1, <2>4 DEF Follows, Show
<1>14. ASSUME NEW i \in 1 .. m - 1
       PROVE  Follows(Show(w[i + 1]), Show(w[i]))
  <2>1. i \in 1 .. m /\ i + 1 \in 1 .. m /\ i < i + 1
    BY <1>4
  <2>2. /\ w[i] \in Range(buf) /\ w[i + 1] \in Range(buf) /\ Video(w[i + 1])
        /\ w[i].url = u /\ w[i + 1].url = u /\ w[i].vid \in Nat /\ w[i + 1].vid \in Nat
        /\ w[i + 1].vid <= n
    BY <1>3, <1>5, <1>6, <2>1
  <2>3. w[i].vid < w[i + 1].vid
    <3>1. w[i].id < w[i + 1].id
      BY <1>8, <2>1
    <3> QED
      BY <2>2, <3>1 DEF Numbered
  <2>4. ASSUME NEW v \in w[i].vid + 1 .. w[i + 1].vid - 1
        PROVE  <<u, v>> \in cut
    <3>1. v \in w[i].vid + 1 .. n
      BY <2>2
    <3>2. ASSUME NEW j \in 1 .. m, i < j, w[j].vid = v
          PROVE  FALSE
      <4>1. j = i + 1 \/ i + 1 < j
        BY <2>1, <3>2
      <4>2. w[j].vid < w[i + 1].vid
        BY <2>2, <3>2
      <4>3. i + 1 < j => w[i + 1].vid <= w[j].vid
        <5>1. i + 1 < j => w[i + 1].id < w[j].id
          BY <1>8, <2>1
        <5>2. w[j] \in Range(buf)
          BY <1>5, <1>6
        <5> QED
          BY <2>2, <5>1, <5>2 DEF Numbered
      <4> QED
        BY <2>2, <3>2, <4>1, <4>2, <4>3
    <3> QED
      BY <1>11, <2>1, <3>1, <3>2
  <2> QED
    BY <2>2, <2>3, <2>4 DEF Follows, Show
<1>15. PICK f : f = Offered(q, ps)
  OBVIOUS
<1>16. f = <<Last(feed[q])>> \o [i \in 1 .. Len(w) |-> Show(w[i])]
  BY <1>2, <1>12, <1>15
<1>17. f \in Seq(Shown) /\ f # <<>> /\ Decodable(f) /\ Last(f) = Show(w[m])
  <2>1. \A i \in 1 .. Len(w) - 1 : Follows(Show(w[i + 1]), Show(w[i]))
    BY <1>4, <1>14
  <2>2. f \in Seq(Shown) /\ f # <<>> /\ Decodable(f) /\ Last(f) = Show(w[Len(w)])
    BY <1>12, <1>13, <1>16, <2>1, ShownFeed
  <2> QED
    BY <1>4, <2>2
<1>18. Last(f).url = u /\ Last(f).vid = w[m].vid /\ w[m].vid <= n
  BY <1>3, <1>5, <1>6, <1>12, <1>17 DEF Show
<1>19. \A v \in Last(f).vid + 1 .. n : <<u, v>> \in cut
  <2> SUFFICES ASSUME NEW v \in w[m].vid + 1 .. n PROVE <<u, v>> \in cut
    BY <1>18
  <2>1. \A j \in 1 .. m : ~ (m < j)
    BY <1>4
  <2> QED
    BY <1>11, <1>12, <2>1
<1> QED
  BY <1>15, <1>17, <1>18, <1>19

\* One packet: nothing changes if it is not video.
LEMMA OneFeed ==
    ASSUME NEW q, Last(feed[q]) \in Shown, NEW p \in Pkts
    PROVE  LET f == Offered(q, <<p>>) IN
           /\ ~ Video(p) => f = feed[q]
           /\ Video(p) /\ Follows(Show(p), Last(feed[q])) =>
                 f \in Seq(Shown) /\ f # <<>> /\ Decodable(f) /\ Last(f) = Show(p)
<1>1. PICK ps : ps = <<p>>
  OBVIOUS
<1>2. ps \in Seq(Pkts) /\ Rises(ps) /\ Range(ps) = {p}
  <2>1. ps \in Seq(Pkts) /\ Len(ps) = 1 /\ ps[1] = p /\ DOMAIN ps = 1 .. 1
    BY <1>1
  <2>2. \A i, j \in 1 .. 1 : ~ (i < j)
    OBVIOUS
  <2> QED
    BY <2>1, <2>2 DEF Rises, Range
<1>3. PICK w \in Seq(Pkts) :
         /\ Rises(w) /\ Range(w) = Videos(ps)
         /\ Offered(q, ps) = IF w = <<>> THEN feed[q]
                             ELSE <<Last(feed[q])>> \o [i \in 1 .. Len(w) |-> Show(w[i])]
  BY <1>1, <1>2, OfferedVideos
<1>4. PICK m \in Nat : m = Len(w) /\ DOMAIN w = 1 .. m
  OBVIOUS
<1>5. \A r : r \in Range(w) <=> \E i \in 1 .. m : r = w[i]
  BY <1>4 DEF Range
<1>6. \A r : r \in Range(w) <=> r = p /\ Video(p)
  BY <1>2, <1>3 DEF Videos
<1>7. CASE ~ Video(p)
  <2>1. m = 0
    <3>1. m # 0 => 1 \in 1 .. m
      BY <1>4
    <3> QED
      BY <1>5, <1>6, <1>7, <3>1
  <2>2. w = <<>>
    BY <1>4, <2>1
  <2> QED
    BY <1>1, <1>3, <1>7, <2>2
<1>8. CASE Video(p) /\ Follows(Show(p), Last(feed[q]))
  <2>1. \A i \in 1 .. m : w[i] = p
    BY <1>5, <1>6
  <2>2. m # 0
    <3>1. PICK i \in 1 .. m : p = w[i]
      BY <1>5, <1>6, <1>8
    <3> QED
      BY <3>1
  <2>3. ~ (m > 1)
    <3> SUFFICES ASSUME m > 1 PROVE FALSE
      OBVIOUS
    <3>1. 1 \in 1 .. m /\ 2 \in 1 .. m
      OBVIOUS
    <3>2. w[1].id < w[2].id /\ w[1] = p /\ w[2] = p
      <4>1. \A j, k \in 1 .. m : j < k => w[j].id < w[k].id
        BY <1>3, <1>4 DEF Rises
      <4>2. w[1] = p /\ w[2] = p
        BY <2>1, <3>1
      <4> QED
        BY <3>1, <4>1, <4>2
    <3>3. p.id \in Nat
      BY DEF Pkts
    <3> QED
      BY <3>2, <3>3
  <2>4. m = 1 /\ w # <<>> /\ w[1] = p
    BY <1>4, <2>1, <2>2, <2>3
  <2>5. PICK f : f = Offered(q, <<p>>)
    OBVIOUS
  <2>6. f = <<Last(feed[q])>> \o [i \in 1 .. Len(w) |-> Show(w[i])]
    BY <1>1, <1>3, <2>4, <2>5
  <2>7. /\ Follows(Show(w[1]), Last(feed[q]))
        /\ \A i \in 1 .. Len(w) - 1 : Follows(Show(w[i + 1]), Show(w[i]))
    BY <1>4, <1>8, <2>4
  <2>8. f \in Seq(Shown) /\ f # <<>> /\ Decodable(f) /\ Last(f) = Show(w[Len(w)])
    BY <2>4, <2>6, <2>7, ShownFeed
  <2> QED
    BY <1>4, <1>8, <2>4, <2>5, <2>8
<1> QED
  BY <1>7, <1>8

-----------------------------------------------------------------------------
(* The order of the buffers *)

\* An empty buffer is in order.
LEMMA EmptyOrder ==
    ASSUME NEW u
    PROVE  OrderOf(u, <<>>) /\ OrderOf(u, <<>>)'
<1>1. PICK none : none = <<>>
  OBVIOUS
<1>2. DOMAIN none = {}
  BY <1>1
<1>3. Rises(none) /\ Range(none) = {}
  BY <1>2 DEF Rises, Range
<1> QED
  BY <1>1, <1>3 DEF OrderOf, Numbered, Complete

\* The buffers are as they were or empty, and no packet comes.
LEMMA OrderedFrame ==
    ASSUME Ordered, UNCHANGED <<got, vid, cut>>,
           \A v \in Known' : \/ streams'[v].buf = <<>>
                             \/ v \in Known /\ streams'[v].buf = streams[v].buf,
           \/ pc' = pc /\ job'.url = job.url /\ job'.pkt = job.pkt
           \/ pc # "store" /\ pc' \notin {"store", "pending"}
    PROVE  Ordered'
<1>1. \A v : Stored(v)' = Stored(v)
  BY DEF Stored, At
<1>2. ASSUME NEW v, NEW buf, OrderOf(v, buf)
      PROVE  OrderOf(v, buf)'
  BY <1>1, <1>2 DEF OrderOf, Complete
<1>3. ASSUME NEW v \in Known'
      PROVE  OrderOf(v, streams[v].buf)'
  <2>1. PICK buf : buf = streams'[v].buf
    OBVIOUS
  <2>2. OrderOf(v, <<>>)
    BY EmptyOrder
  <2>3. OrderOf(v, buf)
    BY <2>1, <2>2 DEF Ordered
  <2>4. OrderOf(v, buf)'
    BY <1>2, <2>3
  <2> QED
    BY <2>1, <2>4 DEF OrderOf, Complete
<1>4. pc' \in {"store", "pending"} =>
         job'.pkt.url = job'.url /\ job'.pkt.vid = vid'[job'.url] /\ job'.pkt.t = 2 * job'.pkt.id
  BY DEF Ordered
<1>5. ASSUME pc' = "store", job'.url \in Known'
      PROVE  Later(job'.pkt, streams'[job'.url].buf)
  <2>1. PICK u \in Known' : u = job'.url /\ u = job.url /\ job'.pkt = job.pkt /\ pc = "store"
    BY <1>5
  <2>2. CASE streams'[u].buf = <<>>
    <3>1. Range(<<>>) = {}
      BY DEF Range
    <3> QED
      BY <2>1, <2>2, <3>1 DEF Later
  <2>3. CASE u \in Known /\ streams'[u].buf = streams[u].buf
    BY <2>1, <2>3 DEF Ordered
  <2> QED
    BY <2>2, <2>3
<1> QED
  BY <1>3, <1>4, <1>5 DEF Ordered

\* A packet that is dropped comes to no buffer, or to an empty one.
LEMMA DropOrder ==
    ASSUME Ordered, Drop
    PROVE  Ordered'
<1>1. /\ UNCHANGED <<streams, got, vid, cut>> /\ pc = "store" /\ pc' = "idle"
      /\ job.url \in Known => streams[job.url].buf = <<>>
  BY DEF Drop, Strm, Known, Stores, input
<1>2. Known' = Known
  BY <1>1 DEF Known
<1>3. ASSUME NEW v \in Known
      PROVE  OrderOf(v, streams[v].buf)'
  <2>1. CASE v = job.url
    <3>1. OrderOf(v, <<>>)'
      BY EmptyOrder
    <3> QED
      BY <1>1, <2>1, <3>1 DEF OrderOf, Complete
  <2>2. CASE v # job.url
    <3>1. Stored(v)' = Stored(v)
      BY <1>1, <2>2 DEF Stored, At
    <3>2. OrderOf(v, streams[v].buf)
      BY DEF Ordered
    <3> QED
      BY <1>1, <3>1, <3>2 DEF OrderOf, Complete
  <2> QED
    BY <2>1, <2>2
<1> QED
  BY <1>1, <1>2, <1>3 DEF Ordered

\* The packet that comes: the next of its source.
LEMMA ReceivedPacket ==
    ASSUME Shape, Noted, NEW u \in Urls, Receive(u)
    PROVE  /\ pc = "idle" /\ pc' = "store" /\ job'.url = u /\ UNCHANGED <<feed, cut>>
           /\ \A v \in Urls : v # u => got'[v] = got[v] /\ vid'[v] = vid[v]
           /\ job'.pkt \in Pkts /\ job'.pkt.url = u /\ job'.pkt.t = 2 * job'.pkt.id
           /\ job'.pkt.id = got[u] + 1 /\ got'[u] = got[u] + 1
           /\ job'.pkt.vid = vid'[u]
           /\ vid'[u] = IF Video(job'.pkt) THEN vid[u] + 1 ELSE vid[u]
<1>1. PICK kind \in {"key", "delta", "audio"}, p \in Pars : Packet(u, kind, p)
  BY ReceiveEffect
<1>2. PICK pkt : /\ pkt = [url |-> u, id |-> got[u] + 1, kind |-> kind, t |-> 2 * (got[u] + 1),
                           vid |-> vid[u] + IF kind = "audio" THEN 0 ELSE 1]
                 /\ got' = [got EXCEPT ![u] = pkt.id] /\ vid' = [vid EXCEPT ![u] = pkt.vid]
                 /\ pc' = "store" /\ job' = [url |-> u, pkt |-> pkt, todo |-> {}]
  BY <1>1 DEF Packet
<1>3. got \in [Urls -> Nat] /\ vid \in [Urls -> Nat] /\ got[u] \in Nat /\ vid[u] \in Nat
  BY DEF Shape
<1>4. /\ pkt.url = u /\ pkt.id = got[u] + 1 /\ pkt.kind = kind /\ pkt.t = 2 * pkt.id
      /\ pkt.vid = IF kind = "audio" THEN vid[u] ELSE vid[u] + 1
  BY <1>2, <1>3
<1>5. pkt \in Pkts
  <2>1. got[u] + 1 \in Nat \ {0} /\ 2 * (got[u] + 1) \in Nat
    BY <1>3
  <2>2. (vid[u] + IF kind = "audio" THEN 0 ELSE 1) \in Nat
    BY <1>3
  <2> QED
    BY <1>2, <2>1, <2>2 DEF Pkts
<1>6. Video(pkt) <=> kind # "audio"
  BY <1>4 DEF Video
<1>7. job'.url = u /\ job'.pkt = pkt /\ pc' = "store"
  BY <1>2
<1>8. /\ \A v \in Urls : v # u => got'[v] = got[v] /\ vid'[v] = vid[v]
      /\ got'[u] = pkt.id /\ vid'[u] = pkt.vid
  BY <1>2, <1>3
<1>9. pc = "idle" /\ UNCHANGED <<feed, cut>>
  BY DEF Receive, Ready
<1> QED
  BY <1>4, <1>5, <1>6, <1>7, <1>8, <1>9

\* What a packet leaves of a stream before it is stored.
LEMMA ReceivedStream ==
    ASSUME Shape, Noted, NEW u \in Urls, Receive(u), NEW v \in Known'
    PROVE  /\ \/ streams'[v].buf = <<>>
              \/ v \in Known /\ streams'[v].buf = streams[v].buf
           /\ \/ v = u /\ streams'[v].buf = <<>>
              \/ v \in Known /\ streams'[v].seeded \subseteq streams[v].seeded
           /\ done \subseteq done'
<1>1. PacketAdds(u) \/ PacketKeeps \/ PacketUpdates(u)
  BY ReceiveEffect
<1>2. CASE PacketAdds(u)
  BY <1>2 DEF PacketAdds, Same, Fewer
<1>3. CASE PacketKeeps
  BY <1>3 DEF PacketKeeps, Same, Fewer
<1>4. CASE PacketUpdates(u)
  BY <1>4 DEF PacketUpdates, Fewer
<1> QED
  BY <1>1, <1>2, <1>3, <1>4

\* A packet that comes is later than any in the buffer of its stream.
LEMMA ReceiveOrder ==
    ASSUME Shape, Noted, Ordered, NEW u \in Urls, Receive(u)
    PROVE  Ordered'
<1>1. /\ pc = "idle" /\ pc' = "store" /\ job'.url = u /\ UNCHANGED <<feed, cut>>
      /\ \A v \in Urls : v # u => got'[v] = got[v] /\ vid'[v] = vid[v]
      /\ job'.pkt.url = u /\ job'.pkt.t = 2 * job'.pkt.id
      /\ job'.pkt.id = got[u] + 1 /\ got'[u] = got[u] + 1
      /\ job'.pkt.vid = vid'[u]
      /\ vid'[u] = IF Video(job'.pkt) THEN vid[u] + 1 ELSE vid[u]
  BY ReceivedPacket
<1>2. got[u] \in Nat /\ vid[u] \in Nat
  BY DEF Shape
<1>3. ASSUME NEW v \in Known', NEW buf, buf = streams'[v].buf
      PROVE  OrderOf(v, buf)' /\ (v = u => Later(job'.pkt, buf))
  <2>1. CASE buf = <<>>
    <3>1. Range(<<>>) = {}
      BY DEF Range
    <3> QED
      BY <2>1, <3>1, EmptyOrder DEF Later
  <2>2. CASE v \in Known /\ buf = streams[v].buf
    <3>1. OrderOf(v, buf) /\ v \in Urls
      BY <2>2 DEF Ordered, Known
    <3>2. Stored(v) = vid[v] /\ Stored(v)' = vid[v]
      <4>1. v = u => Stored(v)' = vid[v]
        BY <1>1, <1>2 DEF Stored, At
      <4>2. v # u => Stored(v)' = vid[v]
        BY <1>1, <3>1 DEF Stored, At
      <4> QED
        BY <1>1, <4>1, <4>2 DEF Stored, At
    <3>3. buf \in Seq(Pkts)
      BY <2>2 DEF Shape, Streams, Stream, Known
    <3>4. \A p \in Range(buf) : /\ p.id \in Nat /\ p.vid \in Nat
                                /\ p.t = 2 * p.id /\ p.id <= got[v] /\ p.vid <= vid[v]
      BY <3>1, <3>3, PacketsOf DEF OrderOf
    <3>5. \A p \in Range(buf) : p.t = 2 * p.id /\ p.id <= got'[v] /\ p.vid <= vid'[v]
      <4>1. CASE v = u
        BY <1>1, <1>2, <3>4, <4>1
      <4>2. CASE v # u
        BY <1>1, <3>1, <3>4, <4>2
      <4> QED
        BY <4>1, <4>2
    <3>6. OrderOf(v, buf)'
      BY <1>1, <3>1, <3>2, <3>5 DEF OrderOf, Complete
    <3>7. v = u => Later(job'.pkt, buf)
      BY <1>1, <1>2, <3>4 DEF Later
    <3> QED
      BY <3>6, <3>7
  <2> QED
    BY <1>3, <2>1, <2>2, ReceivedStream
<1>4. \A v \in Known' : OrderOf(v, streams[v].buf)'
  <2> SUFFICES ASSUME NEW v \in Known' PROVE OrderOf(v, streams[v].buf)'
    OBVIOUS
  <2>1. PICK buf : buf = streams'[v].buf
    OBVIOUS
  <2>2. OrderOf(v, buf)'
    BY <1>3, <2>1
  <2> QED
    BY <2>1, <2>2 DEF OrderOf, Complete
<1>5. u \in Known' => Later(job'.pkt, streams'[u].buf)
  BY <1>3
<1> QED
  BY <1>1, <1>4, <1>5 DEF Ordered

\* A later packet at the end.
LEMMA AppendRises ==
    ASSUME NEW S, NEW buf \in Seq(S), NEW p \in S, Rises(buf), \A q \in Range(buf) : q.id < p.id
    PROVE  Rises(Append(buf, p))
<1>1. PICK n \in Nat : n = Len(buf) /\ DOMAIN buf = 1 .. n
  OBVIOUS
<1>2. PICK t : t = Append(buf, p)
  OBVIOUS
<1>3. DOMAIN t = 1 .. n + 1 /\ t[n + 1] = p /\ \A i \in 1 .. n : t[i] = buf[i]
  BY <1>1, <1>2, AppendProperties
<1>4. ASSUME NEW i \in 1 .. n + 1, NEW j \in 1 .. n + 1, i < j
      PROVE  t[i].id < t[j].id
  <2>1. i \in 1 .. n /\ t[i] = buf[i] /\ buf[i] \in Range(buf)
    <3>1. i \in 1 .. n
      BY <1>1, <1>4
    <3> QED
      BY <1>1, <1>3, <3>1 DEF Range
  <2>2. CASE j = n + 1
    BY <1>3, <2>1, <2>2
  <2>3. CASE j \in 1 .. n
    BY <1>1, <1>3, <1>4, <2>1, <2>3 DEF Rises
  <2> QED
    BY <1>1, <2>2, <2>3
<1> QED
  BY <1>2, <1>3, <1>4 DEF Rises

\* What goes from the middle of a buffer is known to be cut, and what goes from its
\* front is no longer missed.
LEMMA StoreOrder ==
    ASSUME Shape, Buffers, Ordered, Store
    PROVE  Ordered'
<1>1. PICK u \in Known : u = job.url
  BY StoreEffect
<1>2. /\ u \in Urls /\ pc = "store" /\ pc' = "pending" /\ UNCHANGED <<got, vid>>
      /\ job'.url = u /\ job'.pkt = job.pkt
  <2>1. job \in [url : Urls, pkt : Pkts, todo : SUBSET Peers]
    BY DEF Shape, Store
  <2>2. job' = [job EXCEPT !.todo = Strm.toAdd]
    BY DEF Store
  <2>3. job'.url = job.url /\ job'.pkt = job.pkt
    BY <2>1, <2>2
  <2> QED
    BY <1>1, <2>3 DEF Known, Store, input
<1>3. PICK pkt : pkt = job.pkt
  OBVIOUS
<1>4. PICK buf \in Seq(Pkts) : buf = streams[u].buf
  BY <1>1 DEF Shape, Streams, Stream, Known
<1>5. /\ pkt \in Pkts /\ pkt.url = u /\ pkt.id = got[u] /\ pkt.vid = vid[u]
      /\ pkt.t = 2 * pkt.id /\ pkt.id \in Nat /\ pkt.vid \in Nat
      /\ got[u] \in Nat /\ vid[u] \in Nat
  BY <1>1, <1>2, <1>3 DEF Shape, Buffers, Ordered, Pkts
<1>6. OrderOf(u, buf) /\ Later(pkt, buf)
  BY <1>1, <1>2, <1>3, <1>4 DEF Ordered
<1>7. Stored(u) = IF Video(pkt) THEN vid[u] - 1 ELSE vid[u]
  BY <1>1, <1>2, <1>3 DEF Stored, At
<1>8. \A v : Stored(v)' = vid[v]
  BY <1>2 DEF Stored, At
<1>9. PICK all : all = Append(buf, pkt)
  OBVIOUS
<1>10. /\ all \in Seq(Pkts) /\ all # <<>> /\ Rises(all) /\ Range(all) = Range(buf) \cup {pkt}
       /\ all[1] = IF buf = <<>> THEN pkt ELSE buf[1]
  <2>1. PICK n \in Nat : n = Len(buf)
    OBVIOUS
  <2>2. /\ all \in Seq(Pkts) /\ Len(all) = n + 1 /\ all[n + 1] = pkt
        /\ \A i \in 1 .. n : all[i] = buf[i]
    BY <1>5, <1>9, <2>1, AppendProperties
  <2>3. all # <<>>
    BY <2>2
  <2>4. Rises(all)
    BY <1>5, <1>6, <1>9, AppendRises DEF OrderOf, Later
  <2>5. Range(all) = Range(buf) \cup {pkt}
    BY <1>5, <1>9, AppendRange
  <2>6. all[1] = IF buf = <<>> THEN pkt ELSE buf[1]
    <3>1. buf = <<>> => n + 1 = 1
      BY <2>1
    <3>2. buf # <<>> => 1 \in 1 .. n
      BY <2>1
    <3> QED
      BY <2>2, <3>1, <3>2
  <2> QED
    BY <2>2, <2>3, <2>4, <2>5, <2>6
<1>11. \A p \in Range(all) : p.id \in Nat /\ p.vid \in Nat
  BY <1>10, PacketsOf
<1>12. Numbered(Range(all))
  <2> SUFFICES ASSUME NEW p \in Range(all), NEW q \in Range(all), p.id < q.id
               PROVE  p.vid <= q.vid /\ (Video(q) => p.vid < q.vid)
    BY DEF Numbered
  <2>1. CASE p \in Range(buf) /\ q \in Range(buf)
    BY <1>6, <2>1 DEF OrderOf, Numbered
  <2>2. CASE p \in Range(buf) /\ q = pkt
    BY <1>6, <2>2 DEF Later
  <2>3. CASE p = pkt
    <3>1. q = pkt \/ q.id < pkt.id
      BY <1>6, <1>10 DEF Later
    <3> QED
      BY <1>5, <1>11, <2>3, <3>1
  <2> QED
    BY <1>10, <2>1, <2>2, <2>3
<1>13. PICK after, dropped : after = streams'[u].buf /\ dropped = Range(all) \ Range(after)
  OBVIOUS
<1>14. /\ Known' = Known /\ \A v \in Known : v # u => streams'[v].buf = streams[v].buf
       /\ Leaves(all, after, Pkts)
       /\ cut' = cut \cup {<<q.url, q.vid>> : q \in {r \in dropped : Video(r) /\ r.id > after[1].id}}
  BY <1>1, <1>3, <1>4, <1>9, <1>13, StoreEffect
<1>15. /\ after \in Seq(Pkts) /\ after # <<>> /\ Key(after[1]) /\ Rises(after)
       /\ Range(after) \subseteq Range(all) /\ after[1] \in Range(after)
  <2>1. /\ after \in Seq(Pkts) /\ after # <<>> /\ Key(after[1]) /\ Rises(after)
        /\ Range(after) \subseteq Range(all)
    BY <1>10, <1>14 DEF Leaves
  <2>2. after[1] \in Range(after)
    <3>1. 1 \in DOMAIN after
      BY <2>1
    <3> QED
      BY <3>1 DEF Range
  <2> QED
    BY <2>1, <2>2
<1>16. PICK h : h = after[1] /\ h \in Range(after) /\ h \in Range(all) /\ Video(h)
  BY <1>15 DEF Key, Video
<1>17. all[1].vid <= h.vid
  <2>1. all[1] \in Range(all) /\ all[1].id <= h.id
    BY <1>10, <1>16, RisesApart
  <2>2. all[1].id < h.id \/ all[1] = h
    <3>1. all[1].id = h.id => all[1] = h
      BY <1>10, <1>16, <2>1, RisesApart
    <3> QED
      BY <1>11, <1>16, <2>1, <3>1
  <2> QED
    BY <1>11, <1>12, <1>16, <2>1, <2>2 DEF Numbered
<1>18. ASSUME NEW v \in h.vid .. vid[u]
       PROVE  <<u, v>> \in cut \/ \E p \in Videos(all) : p.vid = v
  <2>1. h.vid \in Nat /\ all[1].vid \in Nat /\ v \in Nat /\ v >= all[1].vid /\ v <= vid[u]
    <3>1. all[1] \in Range(all)
      BY <1>10, <1>16, RisesApart
    <3> QED
      BY <1>5, <1>11, <1>16, <1>17, <3>1
  <2>2. CASE buf = <<>>
    <3>1. Range(all) = {pkt}
      <4>1. Range(<<>>) = {}
        BY DEF Range
      <4> QED
        BY <1>10, <2>2, <4>1
    <3>2. h = pkt /\ v = pkt.vid
      BY <1>5, <1>16, <2>1, <3>1
    <3> QED
      BY <1>16, <3>1, <3>2 DEF Videos
  <2>3. CASE buf # <<>> /\ v <= Stored(u)
    <3>1. v \in buf[1].vid .. Stored(u)
      <4>1. Stored(u) \in Int
        BY <1>5, <1>7
      <4> QED
        BY <1>10, <2>1, <2>3, <4>1
    <3>2. <<u, v>> \in cut \/ \E p \in Videos(buf) : p.vid = v
      BY <1>6, <2>3, <3>1 DEF OrderOf, Complete
    <3> QED
      BY <1>10, <3>2 DEF Videos
  <2>4. CASE ~ (v <= Stored(u))
    <3>1. Video(pkt) /\ v = pkt.vid
      BY <1>5, <1>7, <2>1, <2>4
    <3> QED
      BY <1>10, <3>1 DEF Videos
  <2> QED
    BY <2>2, <2>3, <2>4
<1>19. ASSUME NEW v \in h.vid .. vid[u]
       PROVE  <<u, v>> \in cut' \/ \E p \in Videos(after) : p.vid = v
  <2>1. CASE <<u, v>> \in cut
    BY <1>14, <2>1
  <2>2. ASSUME NEW p \in Videos(all), p.vid = v
        PROVE  <<u, v>> \in cut' \/ p \in Videos(after)
    <3>1. p \in Range(all) /\ Video(p) /\ p.id \in Nat /\ h.id \in Nat /\ h.vid \in Nat /\ h.vid <= p.vid
      BY <1>5, <1>11, <1>16, <2>2 DEF Videos
    <3>2. p.url = u
      <4>1. \A q \in Range(buf) : q.url = u
        BY <1>1, <1>4 DEF Buffers, BufferOf
      <4> QED
        BY <1>5, <1>10, <3>1, <4>1
    <3>3. ~ (p.id < h.id)
      <4>1. p.id < h.id => p.vid < h.vid
        BY <1>12, <1>16, <3>1 DEF Numbered
      <4> QED
        BY <1>11, <3>1, <4>1
    <3>4. p.id = h.id => p = h
      BY <1>10, <1>16, <3>1, RisesApart
    <3>5. CASE p \in Range(after)
      BY <3>1, <3>5 DEF Videos
    <3>6. CASE p \notin Range(after)
      <4>1. p.id > h.id
        BY <1>16, <3>1, <3>3, <3>4, <3>6
      <4>2. p \in {r \in dropped : Video(r) /\ r.id > after[1].id}
        BY <1>13, <1>16, <3>1, <3>6, <4>1
      <4> QED
        BY <1>14, <2>2, <3>2, <4>2
    <3> QED
      BY <3>5, <3>6
  <2> QED
    BY <1>18, <2>1, <2>2
<1>20. OrderOf(u, after)'
  <2>1. Rises(after) /\ Numbered(Range(after))
    BY <1>12, <1>15 DEF Numbered
  <2>2. \A p \in Range(after) : p.t = 2 * p.id /\ p.id <= got[u] /\ p.vid <= vid[u]
    <3>1. \A p \in Range(buf) : p.t = 2 * p.id /\ p.id <= got[u] /\ p.vid <= vid[u]
      BY <1>6 DEF OrderOf
    <3>2. pkt.t = 2 * pkt.id /\ pkt.id <= got[u] /\ pkt.vid <= vid[u]
      BY <1>5
    <3> QED
      BY <1>10, <1>15, <3>1, <3>2
  <2>3. \A v \in after[1].vid .. vid[u] : <<u, v>> \in cut' \/ \E p \in Videos(after) : p.vid = v
    BY <1>16, <1>19
  <2>4. Complete(u, after, Stored(u))'
    BY <1>2, <1>8, <2>3 DEF Complete
  <2> QED
    BY <1>2, <2>1, <2>2, <2>4 DEF OrderOf
<1>21. ASSUME NEW v \in Known, v # u
       PROVE  OrderOf(v, streams[v].buf)'
  <2>1. PICK other : other = streams[v].buf /\ other = streams'[v].buf
    BY <1>14, <1>21
  <2>2. OrderOf(v, other) /\ Stored(v) = vid[v] /\ cut \subseteq cut'
    BY <1>1, <1>2, <1>14, <1>21, <2>1 DEF Ordered, Stored, At
  <2>3. OrderOf(v, other)'
    BY <1>2, <1>8, <2>2 DEF OrderOf, Complete
  <2> QED
    BY <2>1, <2>3 DEF OrderOf, Complete
<1>22. OrderOf(u, streams[u].buf)'
  BY <1>13, <1>20 DEF OrderOf, Complete
<1>23. \A v \in Known' : OrderOf(v, streams[v].buf)'
  BY <1>14, <1>21, <1>22
<1>24. job'.pkt.url = job'.url /\ job'.pkt.vid = vid'[job'.url] /\ job'.pkt.t = 2 * job'.pkt.id
  BY <1>2, <1>3, <1>5
<1> QED
  BY <1>2, <1>23, <1>24 DEF Ordered

\* A step that sends nothing and stores nothing: streams lose peers, or packets.
Quiet ==
    /\ UNCHANGED <<feed, got, vid, cut>> /\ done \subseteq done'
    /\ UNCHANGED <<pc, job>> \/ (pc = "idle" /\ pc' = "closed")
    /\ \A v \in Known' : /\ v \in Known /\ streams'[v].seeded \subseteq streams[v].seeded
                         /\ \/ streams'[v].buf = streams[v].buf
                            \/ streams'[v].buf = <<>> /\ pc' = "closed"
OnPackets ==
    \/ \E u \in Urls : Receive(u)
    \/ Drop \/ Store \/ processExistingTracks
    \/ \E q \in Peers : processPendingTracks(q) \/ seedTrack(q)

\* Only the packets are sent and stored.
LEMMA QuietStep ==
    ASSUME Shape, Noted, [Next]_vars
    PROVE  Quiet \/ OnPackets
<1>1. ASSUME UNCHANGED <<feed, input, cut, pc, job>>, done \subseteq done', Known' \subseteq Known,
             \A v \in Known' : /\ streams'[v].seeded \subseteq streams[v].seeded
                               /\ streams'[v].buf = streams[v].buf
      PROVE  Quiet
  BY <1>1 DEF Quiet, input
<1>2. ASSUME UNCHANGED <<streams, done, feed, input, cut, pc, job>>
      PROVE  Quiet
  <2>1. Known' = Known
    BY <1>2 DEF Known
  <2> QED
    BY <1>1, <1>2, <2>1
<1>3. ASSUME NEW p \in Peers, NEW u \in Urls, Connect(p, u) \/ ChooseStream(p, u)
      PROVE  Quiet
  BY <1>2, <1>3 DEF Connect, addConnection, ChooseStream
<1>4. ASSUME NEW p \in Peers, ChannelOpens(p) \/ ConnectionLost(p)
      PROVE  Quiet
  BY <1>2, <1>4 DEF ChannelOpens, ConnectionLost
<1>5. ASSUME NEW p \in Peers, Insert(p)
      PROVE  Quiet
  <2>1. UNCHANGED <<feed, input, cut, pc, job>>
    BY <1>5 DEF Insert
  <2>2. CASE peer[p].target \in Known
    <3>1. done' = done
      BY <1>5, <2>2 DEF Insert
    <3>2. Known' = Known /\ \A v \in Known : /\ streams'[v].seeded \subseteq streams[v].seeded
                                             /\ streams'[v].buf = streams[v].buf
      BY <1>5, <2>2, InsertEffect DEF Same, Fewer
    <3> QED
      BY <1>1, <2>1, <3>1, <3>2
  <2>3. CASE peer[p].target \notin Known
    <3>1. removePeers({p}) /\ streams' = WithoutPeers(streams, {p})
      BY <1>5, <2>3 DEF Insert
    <3>2. Removes({p} \ done) /\ \A v \in Known : streams'[v].buf = streams[v].buf
      BY <3>1, RemovedEffect
    <3> QED
      BY <1>1, <2>1, <3>2 DEF Removes, Fewer
  <2> QED
    BY <2>2, <2>3
<1>6. ASSUME NEW p \in Peers, ClosePeer(p)
      PROVE  Quiet
  <2>1. Removes({p} \ done) /\ \A v \in Known : streams'[v].buf = streams[v].buf
    BY <1>6, RemovedEffect DEF ClosePeer
  <2> QED
    BY <1>1, <1>6, <2>1 DEF ClosePeer, Removes, Fewer
<1>7. ASSUME NEW u \in Urls, addSource(u)
      PROVE  Quiet
  BY <1>2, <1>7 DEF addSource
<1>8. ASSUME NEW u \in Urls, removeSource(u)
      PROVE  Quiet
  <2>1. UNCHANGED <<feed, input, cut, pc, job, done>>
    BY <1>8 DEF removeSource
  <2>2. CASE streams' = streams
    BY <1>2, <2>1, <2>2
  <2>3. CASE u \in Known /\ RemoveStream(u)
    <3>1. Known' \subseteq Known /\ \A v \in Known' : /\ streams'[v].seeded = streams[v].seeded
                                                      /\ streams'[v].buf = streams[v].buf
      BY <2>3, RemoveStreamEffect
    <3> QED
      BY <1>1, <2>1, <3>1
  <2> QED
    BY <1>8, <2>2, <2>3 DEF removeSource
<1>9. CASE Move
  <2>1. UNCHANGED <<feed, input, cut, pc, job, done>>
    BY <1>9 DEF Move
  <2>2. Known' = Known /\ \A v \in Known : /\ streams'[v].seeded = streams[v].seeded
                                           /\ streams'[v].buf = streams[v].buf
    BY <1>9, MoveEffect
  <2> QED
    BY <1>1, <2>1, <2>2
<1>10. CASE Release
  <2>1. UNCHANGED <<feed, got, vid, cut>> /\ pc = "idle" /\ pc' = "closed"
    BY <1>10 DEF Release, Ready, input
  <2>2. PICK gone : Removes(gone) /\ \A v \in Known : streams'[v].buf = <<>>
    BY <1>10, ReleaseEffect
  <2> QED
    BY <2>1, <2>2 DEF Quiet, Removes, Fewer
<1>11. CASE UNCHANGED vars
  BY <1>2, <1>11 DEF vars
<1> QED
  BY <1>3, <1>4, <1>5, <1>6, <1>7, <1>8, <1>9, <1>10, <1>11 DEF Next, OnPackets

\* The buffers stay in order.
LEMMA OrderedStep ==
    ASSUME Shape, Noted, Buffers, Ordered, [Next]_vars
    PROVE  Ordered'
<1>1. CASE Quiet
  <2>1. UNCHANGED <<got, vid, cut>>
    BY <1>1 DEF Quiet
  <2>2. \A v \in Known' : \/ streams'[v].buf = <<>>
                          \/ v \in Known /\ streams'[v].buf = streams[v].buf
    BY <1>1 DEF Quiet
  <2>3. \/ pc' = pc /\ job'.url = job.url /\ job'.pkt = job.pkt
        \/ pc # "store" /\ pc' \notin {"store", "pending"}
    BY <1>1 DEF Quiet
  <2> QED
    BY <2>1, <2>2, <2>3, OrderedFrame
<1>2. ASSUME NEW u \in Urls, Receive(u)
      PROVE  Ordered'
  BY <1>2, ReceiveOrder
<1>3. CASE Drop
  BY <1>3, DropOrder
<1>4. CASE Store
  BY <1>4, StoreOrder
<1>5. CASE processExistingTracks
  <2>1. UNCHANGED <<streams, got, vid, cut>> /\ pc = "pending" /\ pc' \in {"idle", "seed"}
    BY <1>5 DEF processExistingTracks, input
  <2>2. Known' = Known
    BY <2>1 DEF Known
  <2> QED
    BY <2>1, <2>2, OrderedFrame
<1>6. ASSUME NEW q \in Peers, processPendingTracks(q)
      PROVE  Ordered'
  <2>1. /\ UNCHANGED <<got, vid, cut, pc>>
        /\ job' = [job EXCEPT !.todo = @ \ {q}] /\ pc = "pending"
    BY <1>6 DEF processPendingTracks, input
  <2>2. job'.url = job.url /\ job'.pkt = job.pkt
    <3>1. job \in [url : Urls, pkt : Pkts, todo : SUBSET Peers]
      BY <2>1 DEF Shape
    <3> QED
      BY <2>1, <3>1
  <2>3. Known' = Known /\ \A v \in Known : streams'[v].buf = streams[v].buf
    BY <1>6, JoinEffect DEF Joins, Known
  <2> QED
    BY <2>1, <2>2, <2>3, OrderedFrame
<1>7. ASSUME NEW q \in Peers, seedTrack(q)
      PROVE  Ordered'
  <2>1. UNCHANGED <<got, vid, cut>> /\ pc = "seed" /\ pc' \in {"idle", "seed"}
    BY <1>7 DEF seedTrack, input
  <2>2. Known' = Known /\ \A v \in Known : streams'[v].buf = streams[v].buf
    <3>1. CASE Removes({q}) /\ \A v \in Known : streams'[v].buf = streams[v].buf
      BY <3>1 DEF Removes
    <3>2. CASE Seeds(q, job.url)
      <4>1. PICK u : u = job.url
        OBVIOUS
      <4> QED
        BY <3>2, <4>1 DEF Seeds, Same
    <3> QED
      BY <1>7, <3>1, <3>2, SeedEffect
  <2> QED
    BY <2>1, <2>2, OrderedFrame
<1> QED
  BY <1>1, <1>2, <1>3, <1>4, <1>5, <1>6, <1>7, QuietStep DEF OnPackets

\* Nothing is stored before a keyframe, so that a buffer with a packet in hand is
\* never empty.
LEMMA LoadedStep ==
    ASSUME Shape, Shape', Noted, Buffers, Loaded, [Next]_vars
    PROVE  Loaded'
<1> SUFFICES ASSUME pc' \in {"pending", "seed"}
             PROVE  streams'[job'.url].buf # <<>>
  BY DEF Loaded
<1>1. job'.url \in Known'
  BY DEF Shape
<1>2. CASE Quiet
  BY <1>1, <1>2 DEF Quiet, Loaded
<1>3. CASE (\E u \in Urls : Receive(u)) \/ Drop
  BY <1>3, ReceivedPacket DEF Drop
<1>4. CASE Store
  <2>1. job \in [url : Urls, pkt : Pkts, todo : SUBSET Peers] /\ job' = [job EXCEPT !.todo = Strm.toAdd]
    BY <1>4 DEF Shape, Store
  <2>2. job'.url = job.url
    BY <2>1
  <2> QED
    BY <1>4, <2>2, StoreEffect DEF Leaves
<1>5. CASE processExistingTracks
  BY <1>5 DEF processExistingTracks, Loaded
<1>6. ASSUME NEW q \in Peers, processPendingTracks(q)
      PROVE  streams'[job'.url].buf # <<>>
  <2>1. job \in [url : Urls, pkt : Pkts, todo : SUBSET Peers] /\ job' = [job EXCEPT !.todo = @ \ {q}]
    BY <1>6 DEF Shape, processPendingTracks
  <2>2. job'.url = job.url /\ job.url \in Known /\ pc = "pending"
    BY <1>6, <2>1 DEF Shape, processPendingTracks
  <2> QED
    BY <1>6, <2>2, JoinEffect DEF Joins, Loaded
<1>7. ASSUME NEW q \in Peers, seedTrack(q)
      PROVE  streams'[job'.url].buf # <<>>
  <2>1. job' = job /\ pc = "seed" /\ job.url \in Known
    BY <1>7 DEF seedTrack, Shape
  <2> QED
    BY <1>7, <2>1, SeedEffect DEF Seeds, Loaded
<1> QED
  BY <1>2, <1>3, <1>4, <1>5, <1>6, <1>7, QuietStep DEF OnPackets

-----------------------------------------------------------------------------
(* What the peers are offered *)

\* Nothing stored of a source is missing after r.
Current(r, u) ==
    r.url = u /\ r.vid <= vid[u] /\ \A v \in r.vid + 1 .. vid[u] : <<u, v>> \in cut

\* A peer is offered what it can decode, up to the last video packet of u.
Begins(q, u) ==
    \E f \in Seq(Shown) :
        f # <<>> /\ Decodable(f) /\ Current(Last(f), u) /\ feed' = [feed EXCEPT ![q] = f]

\* Every peer has a last video packet.
LEMMA LastShown ==
    ASSUME Feeds, NEW q \in Peers
    PROVE  Last(feed[q]) \in Shown
<1>1. PICK f \in Seq(Shown) : f = feed[q] /\ f # <<>>
  BY DEF Feeds
<1>2. Len(f) \in 1 .. Len(f)
  BY <1>1
<1> QED
  BY <1>1, <1>2 DEF Last

\* Once the packet in hand is stored, a run of the buffer brings a peer up to date.
LEMMA StartBegins ==
    ASSUME Shape, Buffers, Ordered, Feeds, pc \in {"pending", "seed"}, NEW q \in Peers,
           NEW ps, Starts(streams[job.url].buf, ps), feed' = [feed EXCEPT ![q] = Offered(q, ps)]
    PROVE  Begins(q, job.url)
<1>1. PICK u \in Known : u = job.url
  BY DEF Shape
<1>2. PICK buf \in Seq(Pkts) : buf = streams[u].buf
  BY <1>1 DEF Shape, Streams, Stream, Known
<1>3. OrderOf(u, buf) /\ Stored(u) = vid[u] /\ vid[u] \in Int
  BY <1>1, <1>2 DEF Ordered, Stored, At, Shape, Known
<1>4. \A p \in Range(buf) : p.url = u /\ p.vid <= vid[u]
  BY <1>1, <1>2, <1>3 DEF Buffers, BufferOf, OrderOf
<1>5. PICK f : f = Offered(q, ps)
  OBVIOUS
<1>6. Last(feed[q]) \in Shown
  BY LastShown
<1>7. /\ Rises(buf) /\ Numbered(Range(buf)) /\ Complete(u, buf, vid[u])
      /\ Starts(buf, ps)
  BY <1>1, <1>2, <1>3 DEF OrderOf
<1>8. /\ f \in Seq(Shown) /\ f # <<>> /\ Decodable(f)
      /\ Last(f).url = u /\ Last(f).vid <= vid[u]
      /\ \A v \in Last(f).vid + 1 .. vid[u] : <<u, v>> \in cut
  BY <1>3, <1>4, <1>5, <1>6, <1>7, StartFeed
<1> QED
  BY <1>1, <1>5, <1>8 DEF Begins, Current

\* What a peer that is to join gets: a run of the buffer, or nothing if it is closed or
\* the packet in hand, which it gets next, is a keyframe.
LEMMA JoinFeed ==
    ASSUME Shape, Buffers, Ordered, Loaded, Feeds, NEW q \in Peers, processPendingTracks(q)
    PROVE  \/ UNCHANGED <<streams, feed>>
           \/ Joins(q, job.url) /\ feed' = feed /\ (q \in done \/ Key(job.pkt))
           \/ Joins(q, job.url) /\ q \notin done /\ Begins(q, job.url)
<1>1. PICK u \in Known : u = job.url /\ pc = "pending"
  BY DEF Shape, processPendingTracks
<1>2. PICK buf \in Seq(Pkts) : buf = streams[u].buf /\ buf # <<>> /\ Key(buf[1])
  BY <1>1 DEF Shape, Streams, Stream, Known, Loaded, Buffers, BufferOf
<1>3. PICK c :
         /\ \E ts \in Head(buf).t - 1 .. job.pkt.t + 1 : c = canAddTrackToPeer(buf, job.pkt, ts)
         /\ IF ~ c.ok THEN UNCHANGED <<streams, feed, clones>>
            ELSE /\ streams' = moveTrackToStream(q, c.buf)
                 /\ IF q \in done \/ c.buf = <<>> THEN UNCHANGED <<feed, clones>>
                    ELSE /\ feed' = [feed EXCEPT ![q] = Offered(q, c.buf)]
                         /\ clones' = clones \cup {q}
  BY <1>1, <1>2 DEF processPendingTracks, Strm, Pkt
<1>4. CASE ~ c.ok
  BY <1>3, <1>4
<1>5. CASE c.ok
  <2>1. PICK ts \in Int : c = canAddTrackToPeer(buf, job.pkt, ts)
    BY <1>3
  <2>2. (c.buf = <<>> /\ Key(job.pkt)) \/ Starts(buf, c.buf)
    <3>1. OrderOf(u, buf)
      BY <1>1, <1>2 DEF Ordered
    <3> QED
      BY <1>2, <1>5, <2>1, <3>1, JoinStarts DEF OrderOf
  <2>3. Joins(q, u) \/ UNCHANGED <<streams, clones, feed>>
    BY <1>1, JoinEffect
  <2>4. CASE q \in done
    BY <1>1, <1>3, <1>5, <2>3, <2>4
  <2>5. CASE c.buf = <<>> /\ Key(job.pkt)
    BY <1>1, <1>3, <1>5, <2>3, <2>5
  <2>6. CASE q \notin done /\ c.buf # <<>> /\ Starts(buf, c.buf)
    <3>1. feed' = [feed EXCEPT ![q] = Offered(q, c.buf)]
      BY <1>3, <1>5, <2>6
    <3>2. Begins(q, u)
      BY <1>1, <1>2, <2>6, <3>1, StartBegins
    <3> QED
      BY <1>1, <2>3, <2>6, <3>2
  <2>7. CASE q \notin done /\ c.buf = <<>> /\ Starts(buf, c.buf)
    <3>1. feed' = feed
      BY <1>3, <1>5, <2>7
    <3>2. FALSE
      <4>1. Range(<<>>) = {}
        BY DEF Range
      <4>2. Videos(c.buf) = {}
        BY <2>7, <4>1 DEF Videos
      <4>3. PICK k \in Range(buf) : Key(k) /\ Videos(c.buf) = {p \in Videos(buf) : p.id >= k.id}
        BY <2>7 DEF Starts
      <4>4. k \in Videos(buf) /\ k.id \in Nat
        BY <4>3, PacketsOf DEF Videos, Key, Video
      <4> QED
        BY <4>2, <4>3, <4>4
    <3> QED
      BY <3>2
  <2> QED
    BY <2>2, <2>4, <2>5, <2>6, <2>7
<1> QED
  BY <1>4, <1>5

\* What a peer that is seeded gets.
LEMMA SeedFeed ==
    ASSUME Shape, Buffers, Ordered, Loaded, Feeds, NEW q \in Peers, seedTrack(q)
    PROVE  \/ feed' = feed /\ \A v \in Known : streams'[v].seeded \subseteq streams[v].seeded
           \/ /\ Seeds(q, job.url) /\ Begins(q, job.url)
              /\ streams'[job.url].seeded = streams[job.url].seeded \cup {q}
<1>1. PICK u \in Known : u = job.url /\ pc = "seed"
  BY DEF Shape, seedTrack
<1>2. PICK buf \in Seq(Pkts) : buf = streams[u].buf /\ buf # <<>> /\ Key(buf[1])
  BY <1>1 DEF Shape, Streams, Stream, Known, Loaded, Buffers, BufferOf
<1>3. CASE q \in done
  <2>1. Seeds(q, u) /\ streams'[u].seeded = streams[u].seeded
    BY <1>1, <1>3, SeedEffect
  <2>2. feed' = feed
    BY <1>3 DEF seedTrack
  <2> QED
    BY <2>1, <2>2 DEF Seeds, Same, Fewer
<1>4. CASE q \notin done /\ removePeers({q}) /\ feed' = feed
  <2>1. q \in done'
    BY <1>4 DEF removePeers
  <2>2. Removes({q})
    BY <1>4, <2>1, SeedEffect DEF Seeds
  <2> QED
    BY <1>4, <2>2 DEF Removes, Fewer
<1>5. CASE /\ q \notin done /\ UNCHANGED done
           /\ \E ts \in Head(buf).t - 1 .. job.pkt.t + 1 :
                 LET b == GetBuffer(buf, ts)
                 IN feed' = [feed EXCEPT ![q] = Offered(q, b.seed \o b.rest)]
  <2>1. PICK ts \in Head(buf).t - 1 .. job.pkt.t + 1 :
           LET b == GetBuffer(buf, ts)
           IN feed' = [feed EXCEPT ![q] = Offered(q, b.seed \o b.rest)]
    BY <1>5
  <2> DEFINE ps == GetBuffer(buf, ts).seed \o GetBuffer(buf, ts).rest
  <2>2. OrderOf(u, buf) /\ ts \in Int
    BY <1>1, <1>2, <2>1 DEF Ordered
  <2>3. Starts(buf, ps)
    BY <1>2, <2>1, <2>2, SeedStarts DEF OrderOf
  <2>4. Begins(q, u)
    BY <1>1, <1>2, <2>1, <2>3, StartBegins
  <2>5. Seeds(q, u) /\ streams'[u].seeded = streams[u].seeded \cup {q}
    BY <1>1, <1>5, SeedEffect DEF Removes
  <2> QED
    BY <1>1, <2>4, <2>5
<1>6. \/ q \in done
      \/ q \notin done /\ removePeers({q}) /\ feed' = feed
      \/ /\ q \notin done /\ UNCHANGED done
         /\ \E ts \in Head(buf).t - 1 .. job.pkt.t + 1 :
               LET b == GetBuffer(buf, ts)
               IN feed' = [feed EXCEPT ![q] = Offered(q, b.seed \o b.rest)]
  BY <1>1, <1>2 DEF seedTrack, Strm, Pkt
<1> QED
  BY <1>3, <1>4, <1>5, <1>6

\* What a seeded peer gets of the packet in hand, if it has what came before.
LEMMA ExistingFeed ==
    ASSUME Shape, Ordered, Loaded, Feeds, Fed, processExistingTracks,
           NEW q \in streams[job.url].seeded \ done
    PROVE  LET f == feed'[q] IN
           /\ f \in Seq(Shown) /\ f # <<>> /\ Current(Last(f), job.url)
           /\ f = feed[q] \/ Decodable(f)
<1>1. PICK u \in Known : u = job.url /\ pc = "pending"
  BY DEF Shape, processExistingTracks
<1>2. PICK pkt \in Pkts : pkt = job.pkt
  BY <1>1 DEF Shape
<1>3. u \in Urls /\ vid[u] \in Nat /\ pkt.url = u /\ pkt.vid = vid[u] /\ streams[u].buf # <<>>
  BY <1>1, <1>2 DEF Shape, Known, Ordered, Loaded
<1>4. q \in Peers
  BY <1>1 DEF Shape, Streams, Stream, Known
<1>5. PICK f : f = feed'[q]
  OBVIOUS
<1>6. f = Offered(q, <<pkt>>)
  BY <1>2, <1>4, <1>5 DEF processExistingTracks, Strm, Pkt
<1>7. PICK r \in Shown : r = Last(feed[q])
  BY <1>4, LastShown
<1>8. r.vid \in Nat
  BY <1>7 DEF Shown
<1>9. Key(pkt) \/ Reaches(r, u)
  BY <1>1, <1>2, <1>3, <1>7 DEF Fed, FedOn
<1>10. Sent(u) = IF Video(pkt) THEN vid[u] - 1 ELSE vid[u]
  BY <1>1, <1>2 DEF Sent, At
<1>11. CASE ~ Video(pkt)
  <2>1. f = feed[q]
    BY <1>2, <1>6, <1>7, <1>11, OneFeed
  <2>2. ~ Key(pkt)
    BY <1>11 DEF Key, Video
  <2>3. Current(r, u)
    BY <1>9, <1>10, <1>11, <2>2 DEF Reaches, Current
  <2> QED
    BY <1>1, <1>4, <1>5, <1>7, <2>1, <2>3 DEF Feeds
<1>12. CASE Video(pkt)
  <2>1. Follows(Show(pkt), r)
    <3>1. CASE Key(pkt)
      BY <3>1 DEF Follows, Show
    <3>2. CASE Reaches(r, u)
      BY <1>3, <1>10, <1>12, <3>2 DEF Follows, Show, Reaches
    <3> QED
      BY <1>9, <3>1, <3>2
  <2>2. f \in Seq(Shown) /\ f # <<>> /\ Decodable(f) /\ Last(f) = Show(pkt)
    BY <1>2, <1>6, <1>7, <1>12, <2>1, OneFeed
  <2>3. Current(Show(pkt), u)
    <3>1. Show(pkt).url = u /\ Show(pkt).vid = vid[u]
      BY <1>3 DEF Show
    <3> QED
      BY <1>3, <3>1 DEF Current
  <2> QED
    BY <1>1, <1>5, <2>2, <2>3
<1> QED
  BY <1>11, <1>12

-----------------------------------------------------------------------------
(* The feeds *)

\* The feeds of a step: as they were, or decodable after it.
LEMMA FeedsFrame ==
    ASSUME Feeds, FeedIsDecodable, cut \subseteq cut', DOMAIN feed' = Peers,
           feed' = [q \in DOMAIN feed' |-> feed'[q]],
           \A q \in Peers : \/ feed'[q] = feed[q]
                            \/ feed'[q] \in Seq(Shown) /\ feed'[q] # <<>> /\ Decodable(feed'[q])
    PROVE  Feeds' /\ FeedIsDecodable'
<1>1. Feeds'
  BY DEF Feeds
<1>2. ASSUME NEW q \in Peers
      PROVE  Decodable(feed[q])'
  <2>1. PICK f : f = feed'[q]
    OBVIOUS
  <2>2. Decodable(f)
    BY <2>1, DecodableFeeds
  <2>3. Decodable(f)'
    BY <2>2 DEF Decodable, Follows
  <2> QED
    BY <2>1, <2>3 DEF Decodable, Follows
<1>3. FeedIsDecodable'
  BY <1>2 DEF FeedIsDecodable, Decodable, Follows
<1> QED
  BY <1>1, <1>3

\* A feed that is the f of Begins.
LEMMA BeginsOne ==
    ASSUME Feeds, NEW q \in Peers, NEW u, Begins(q, u)
    PROVE  /\ feed' \in [Peers -> Seq(Shown)] /\ \A x \in Peers : x # q => feed'[x] = feed[x]
           /\ feed'[q] # <<>> /\ Decodable(feed'[q]) /\ Current(Last(feed'[q]), u)
<1>1. PICK f \in Seq(Shown) :
        f # <<>> /\ Decodable(f) /\ Current(Last(f), u) /\ feed' = [feed EXCEPT ![q] = f]
  BY DEF Begins
<1>2. feed' \in [Peers -> Seq(Shown)] /\ feed'[q] = f /\ \A x \in Peers : x # q => feed'[x] = feed[x]
  BY <1>1 DEF Feeds
<1> QED
  BY <1>1, <1>2

\* What a step sends can be decoded after what was sent before.
LEMMA FeedsStep ==
    ASSUME Shape, Noted, Buffers, Ordered, Loaded, Feeds, Fed, FeedIsDecodable, [Next]_vars
    PROVE  Feeds' /\ FeedIsDecodable'
<1>1. ASSUME feed' = feed, cut \subseteq cut'
      PROVE  Feeds' /\ FeedIsDecodable'
  BY <1>1, FeedsFrame DEF Feeds
<1>2. ASSUME UNCHANGED cut, feed' \in [Peers -> Seq(Shown)],
             \A q \in Peers : feed'[q] = feed[q] \/ (feed'[q] # <<>> /\ Decodable(feed'[q]))
      PROVE  Feeds' /\ FeedIsDecodable'
  BY <1>2, FeedsFrame
<1>3. CASE Quiet
  BY <1>1, <1>3 DEF Quiet
<1>4. CASE (\E u \in Urls : Receive(u)) \/ Drop
  BY <1>1, <1>4 DEF Receive, Drop
<1>5. CASE Store
  BY <1>1, <1>5, StoreEffect DEF Store
<1>6. CASE processExistingTracks
  <2>1. UNCHANGED cut
    BY <1>6 DEF processExistingTracks
  <2>2. feed' = [q \in Peers |-> IF q \in Strm.seeded \ done THEN Offered(q, <<Pkt>>) ELSE feed[q]]
    BY <1>6 DEF processExistingTracks
  <2>3. ASSUME NEW q \in Peers
        PROVE  /\ feed'[q] \in Seq(Shown)
               /\ feed'[q] = feed[q] \/ (feed'[q] # <<>> /\ Decodable(feed'[q]))
    <3>1. CASE q \in streams[job.url].seeded \ done
      BY <1>6, <3>1, ExistingFeed
    <3>2. CASE q \notin streams[job.url].seeded \ done
      BY <2>2, <3>2 DEF Strm, Feeds
    <3> QED
      BY <3>1, <3>2
  <2> QED
    BY <1>2, <2>1, <2>2, <2>3
<1>7. ASSUME NEW q \in Peers, processPendingTracks(q)
      PROVE  Feeds' /\ FeedIsDecodable'
  <2>1. UNCHANGED cut
    BY <1>7 DEF processPendingTracks
  <2>2. feed' = feed \/ Begins(q, job.url)
    BY <1>7, JoinFeed
  <2> QED
    BY <1>1, <1>2, <2>1, <2>2, BeginsOne
<1>8. ASSUME NEW q \in Peers, seedTrack(q)
      PROVE  Feeds' /\ FeedIsDecodable'
  <2>1. UNCHANGED cut
    BY <1>8 DEF seedTrack
  <2>2. feed' = feed \/ Begins(q, job.url)
    BY <1>8, SeedFeed
  <2> QED
    BY <1>1, <1>2, <2>1, <2>2, BeginsOne
<1> QED
  BY <1>3, <1>4, <1>5, <1>6, <1>7, <1>8, QuietStep DEF OnPackets

\* The last video packet of a peer that keeps its feed, or is brought up to date.
LEMMA FedKept ==
    ASSUME NEW v, NEW x \in Peers, Feeds, FedOn(v, x), feed'[x] = feed[x], cut \subseteq cut',
           vid[v] \in Nat, vid'[v] \in Nat, vid[v] <= vid'[v], Sent(v)' = Sent(v),
           streams[v].buf = <<>> => streams'[v].buf = <<>>,
           pc = "pending" /\ job.url = v /\ Key(job.pkt) =>
               pc' = "pending" /\ job'.url = v /\ Key(job'.pkt)
    PROVE  FedOn(v, x)'
<1>1. CASE streams[v].buf = <<>>
  BY <1>1 DEF FedOn
<1>2. CASE pc = "pending" /\ job.url = v /\ Key(job.pkt)
  BY <1>2 DEF FedOn
<1>3. CASE Reaches(Last(feed[x]), v)
  <2>1. PICK r \in Shown : r = Last(feed[x]) /\ r = Last(feed'[x])
    BY LastShown
  <2>2. r.vid \in Nat
    BY <2>1 DEF Shown
  <2>3. Reaches(r, v)'
    BY <1>3, <2>1, <2>2 DEF Reaches
  <2> QED
    BY <2>1, <2>3 DEF FedOn, Reaches
<1> QED
  BY <1>1, <1>2, <1>3 DEF FedOn

\* A peer that was brought up to date has all that was sent.
LEMMA FedCurrent ==
    ASSUME NEW u, NEW x, feed'[x] \in Seq(Shown), feed'[x] # <<>>, Current(Last(feed'[x]), u),
           UNCHANGED <<vid, cut>>, vid[u] \in Nat
    PROVE  FedOn(u, x)'
<1>1. PICK f \in Seq(Shown) : f = feed'[x] /\ Len(f) \in 1 .. Len(f)
  OBVIOUS
<1>2. PICK r \in Shown : r = Last(feed'[x]) /\ r.vid \in Nat
  <2>1. f[Len(f)] \in Shown
    BY <1>1
  <2> QED
    BY <1>1, <2>1 DEF Last, Shown
<1>3. Sent(u)' \in Int /\ Sent(u)' <= vid[u]
  BY DEF Sent
<1>4. Reaches(r, u)'
  BY <1>2, <1>3 DEF Current, Reaches
<1> QED
  BY <1>2, <1>4 DEF FedOn, Reaches

\* Nothing is missed by a peer that is seeded.
LEMMA FedStep ==
    ASSUME Shape, Shape', Noted, Buffers, Ordered, Loaded, Feeds, Fed, Apart, [Next]_vars
    PROVE  Fed'
<1> SUFFICES ASSUME NEW v \in Known', NEW x \in Peers, x \in streams'[v].seeded, x \notin done'
             PROVE  FedOn(v, x)'
  BY DEF Fed, Shape, Streams, Stream, Known
<1>1. v \in Urls /\ vid[v] \in Nat /\ vid'[v] \in Nat
  BY DEF Shape, Known
<1>2. ASSUME v \in Known, x \in streams[v].seeded, x \notin done
      PROVE  FedOn(v, x)
  BY <1>2 DEF Fed
\* steps that leave the packet in hand alone
<1>3. ASSUME v \in Known, x \in streams[v].seeded, done \subseteq done', streams'[v].buf = streams[v].buf,
             feed'[x] = feed[x], UNCHANGED <<vid, cut, pc>>, job'.url = job.url, job'.pkt = job.pkt
      PROVE  FedOn(v, x)'
  <2>1. Sent(v)' = Sent(v)
    BY <1>3 DEF Sent, At
  <2> QED
    BY <1>1, <1>2, <1>3, <2>1, FedKept
<1>4. CASE Quiet
  <2>1. /\ v \in Known /\ x \in streams[v].seeded /\ done \subseteq done' /\ UNCHANGED <<feed, vid, cut>>
        /\ \/ streams'[v].buf = streams[v].buf
           \/ streams'[v].buf = <<>>
        /\ UNCHANGED <<pc, job>> \/ (pc = "idle" /\ pc' = "closed")
    BY <1>4 DEF Quiet
  <2>2. Sent(v)' = Sent(v)
    BY <2>1 DEF Sent, At
  <2> QED
    BY <1>1, <1>2, <2>1, <2>2, FedKept
<1>5. ASSUME NEW u \in Urls, Receive(u)
      PROVE  FedOn(v, x)'
  <2>1. /\ pc = "idle" /\ pc' = "store" /\ job'.url = u /\ UNCHANGED <<feed, cut>>
        /\ \A w \in Urls : w # u => vid'[w] = vid[w]
        /\ vid'[u] = IF Video(job'.pkt) THEN vid[u] + 1 ELSE vid[u]
    BY <1>5, ReceivedPacket
  <2>2. CASE streams'[v].buf = <<>>
    BY <2>2 DEF FedOn
  <2>3. CASE streams'[v].buf # <<>>
    <3>1. /\ v \in Known /\ streams'[v].buf = streams[v].buf
          /\ x \in streams[v].seeded /\ done \subseteq done'
      BY <1>5, <2>3, ReceivedStream
    <3>2. Sent(v)' = Sent(v) /\ vid[v] <= vid'[v]
      <4>1. v = u => Sent(v)' = vid[v] /\ vid[v] <= vid'[v]
        BY <1>1, <2>1 DEF Sent, At
      <4>2. v # u => Sent(v)' = vid[v] /\ vid[v] <= vid'[v]
        BY <1>1, <2>1 DEF Sent, At
      <4> QED
        BY <2>1, <4>1, <4>2 DEF Sent, At
    <3> QED
      BY <1>1, <1>2, <2>1, <3>1, <3>2, FedKept
  <2> QED
    BY <2>2, <2>3
<1>6. CASE Drop
  <2>1. /\ UNCHANGED <<streams, done, feed, vid, cut>> /\ pc = "store" /\ pc' = "idle"
        /\ job.url \in Known => streams[job.url].buf = <<>>
    BY <1>6 DEF Drop, Strm, Known, Stores, input
  <2>2. v \in Known
    BY <2>1 DEF Known
  <2>3. CASE v = job.url
    BY <2>1, <2>2, <2>3 DEF FedOn
  <2>4. CASE v # job.url
    <3>1. Sent(v)' = Sent(v)
      BY <2>1, <2>4 DEF Sent, At
    <3> QED
      BY <1>1, <1>2, <2>1, <2>2, <3>1, FedKept
  <2> QED
    BY <2>3, <2>4
<1>7. CASE Store
  <2>1. /\ UNCHANGED <<done, feed, vid>> /\ pc = "store" /\ pc' = "pending" /\ cut \subseteq cut'
        /\ job.url \in Known /\ Known' = Known /\ streams'[v].seeded = streams[v].seeded
        /\ v # job.url => streams'[v].buf = streams[v].buf
    BY <1>7, StoreEffect DEF Store, Fewer, input
  <2>2. job'.url = job.url /\ job'.pkt = job.pkt
    <3>1. job \in [url : Urls, pkt : Pkts, todo : SUBSET Peers] /\ job' = [job EXCEPT !.todo = Strm.toAdd]
      BY <1>7 DEF Shape, Store
    <3> QED
      BY <3>1
  <2>3. FedOn(v, x)
    BY <1>2, <2>1
  <2>4. CASE v = job.url /\ streams[v].buf = <<>>
    <3>1. Key(job.pkt)
      BY <1>7, <2>4 DEF Store, Stores, Strm, Pkt
    <3> QED
      BY <2>1, <2>2, <2>4, <3>1 DEF FedOn
  <2>5. CASE v # job.url \/ streams[v].buf # <<>>
    <3>1. Sent(v)' = Sent(v)
      BY <2>1, <2>2 DEF Sent, At
    <3> QED
      BY <1>1, <2>1, <2>3, <2>5, <3>1, FedKept
  <2> QED
    BY <2>4, <2>5
<1>8. CASE processExistingTracks
  <2>1. /\ UNCHANGED <<streams, done, vid, cut>> /\ pc = "pending" /\ pc' \in {"idle", "seed"}
        /\ feed' = [q \in Peers |-> IF q \in Strm.seeded \ done THEN Offered(q, <<Pkt>>) ELSE feed[q]]
    BY <1>8 DEF processExistingTracks, input
  <2>2. v \in Known /\ x \in streams[v].seeded /\ x \notin done /\ job.url \in Known
    BY <2>1 DEF Known, Shape
  <2>3. CASE v = job.url
    BY <1>1, <1>8, <2>1, <2>2, <2>3, ExistingFeed, FedCurrent
  <2>4. CASE v # job.url
    <3>1. x \notin streams[job.url].seeded
      BY <2>2, <2>4 DEF Apart, Tracks
    <3>2. feed'[x] = feed[x]
      BY <2>1, <3>1 DEF Strm
    <3>3. Sent(v)' = Sent(v)
      BY <2>1, <2>4 DEF Sent, At
    <3> QED
      BY <1>1, <1>2, <2>1, <2>2, <2>4, <3>2, <3>3, FedKept
  <2> QED
    BY <2>3, <2>4
<1>9. ASSUME NEW q \in Peers, processPendingTracks(q)
      PROVE  FedOn(v, x)'
  <2>1. /\ UNCHANGED <<done, vid, cut, pc>> /\ pc = "pending"
        /\ job \in [url : Urls, pkt : Pkts, todo : SUBSET Peers] /\ job' = [job EXCEPT !.todo = @ \ {q}]
    BY <1>9 DEF processPendingTracks, input, Shape
  <2>2. job'.url = job.url /\ job'.pkt = job.pkt
    BY <2>1
  <2>3. CASE UNCHANGED <<streams, feed>>
    <3>1. v \in Known
      BY <2>3 DEF Known
    <3> QED
      BY <1>3, <2>1, <2>2, <2>3, <3>1
  <2>4. CASE /\ Joins(q, job.url) /\ x # q
             /\ feed' = feed \/ Begins(q, job.url)
    <3>1. v \in Known /\ streams'[v].buf = streams[v].buf
      BY <2>4 DEF Joins
    <3>2. x \in streams[v].seeded
      BY <2>4, <3>1, JoinedProperties
    <3>3. feed'[x] = feed[x]
      BY <2>4, BeginsOne
    <3> QED
      BY <1>3, <2>1, <2>2, <3>1, <3>2, <3>3
  <2>5. CASE Joins(q, job.url) /\ x = q
    <3>1. v = job.url
      <4>1. v \in Known
        BY <2>5 DEF Joins
      <4>2. v # job.url => streams'[v].seeded = streams[v].seeded \ {q}
        BY <2>5, <4>1 DEF Joins
      <4> QED
        BY <2>5, <4>2
    <3>2. CASE feed' = feed /\ (q \in done \/ Key(job.pkt))
      BY <2>1, <2>2, <2>5, <3>1, <3>2 DEF FedOn
    <3>3. CASE Begins(q, job.url)
      <4>1. feed'[q] \in Seq(Shown) /\ feed'[q] # <<>> /\ Current(Last(feed'[q]), job.url)
        BY <3>3, BeginsOne
      <4> QED
        BY <1>1, <2>1, <2>5, <3>1, <4>1, FedCurrent
    <3>4. CASE UNCHANGED <<streams, feed>>
      BY <2>3, <3>4
    <3> QED
      BY <1>9, <3>2, <3>3, <3>4, JoinFeed
  <2> QED
    BY <1>9, <2>3, <2>4, <2>5, JoinFeed
<1>10. ASSUME NEW q \in Peers, seedTrack(q)
       PROVE  FedOn(v, x)'
  <2>1. /\ UNCHANGED <<vid, cut>> /\ pc = "seed" /\ done \subseteq done' /\ job.url \in Known
        /\ pc' \in {"idle", "seed"} /\ (job' = job \/ pc' = "idle")
    BY <1>10 DEF seedTrack, input, removePeers, Shape
  <2>2. Known' = Known /\ streams'[v].buf = streams[v].buf
    BY <1>10, SeedEffect DEF Seeds, Same, Removes
  <2>3. Sent(v)' = Sent(v)
    BY <2>1 DEF Sent, At
  <2>4. ASSUME x \in streams[v].seeded, feed'[x] = feed[x]
        PROVE  FedOn(v, x)'
    BY <1>1, <1>2, <2>1, <2>2, <2>3, <2>4, FedKept
  <2>5. CASE feed' = feed /\ \A w \in Known : streams'[w].seeded \subseteq streams[w].seeded
    BY <2>2, <2>4, <2>5
  <2>6. CASE /\ Seeds(q, job.url) /\ Begins(q, job.url)
             /\ streams'[job.url].seeded = streams[job.url].seeded \cup {q}
    <3>1. CASE x # q
      <4>1. feed'[x] = feed[x]
        BY <2>6, <3>1, BeginsOne
      <4>2. x \in streams[v].seeded
        BY <2>2, <2>6, <3>1 DEF Seeds, Same, Fewer
      <4> QED
        BY <2>4, <4>1, <4>2
    <3>2. CASE x = q /\ v = job.url
      <4>1. feed'[q] \in Seq(Shown) /\ feed'[q] # <<>> /\ Current(Last(feed'[q]), job.url)
        BY <2>6, BeginsOne
      <4> QED
        BY <1>1, <2>1, <3>2, <4>1, FedCurrent
    <3>3. CASE x = q /\ v # job.url
      <4>1. q \in streams[v].seeded /\ q \in streams[job.url].unseeded
        BY <2>2, <2>6, <3>3 DEF Seeds, Same, Fewer
      <4> QED
        BY <2>1, <2>2, <3>3, <4>1 DEF Apart, Tracks
    <3> QED
      BY <3>1, <3>2, <3>3
  <2> QED
    BY <1>10, <2>5, <2>6, SeedFeed
<1> QED
  BY <1>4, <1>5, <1>6, <1>7, <1>8, <1>9, <1>10, QuietStep DEF OnPackets

\* There are no buffers and nothing was sent.
LEMMA FeedsInit == Init => Ordered /\ Loaded /\ Feeds /\ Fed /\ FeedIsDecodable
<1> SUFFICES ASSUME Init
             PROVE  Ordered /\ Loaded /\ Feeds /\ Fed /\ FeedIsDecodable
  OBVIOUS
<1>1. Known = {} /\ pc = "idle" /\ feed = [p \in Peers |-> <<Nothing>>]
  BY DEF Init, Known
<1>2. PICK f : f = <<Nothing>>
  OBVIOUS
<1>3. Nothing \in Shown /\ f \in Seq(Shown) /\ f # <<>> /\ Len(f) = 1
  BY <1>2 DEF Nothing, Shown
<1>4. feed \in [Peers -> Seq(Shown)] /\ \A q \in Peers : feed[q] = f
  BY <1>1, <1>2, <1>3
<1>5. Feeds
  BY <1>3, <1>4 DEF Feeds
<1>6. FeedIsDecodable
  <2>1. 2 .. Len(f) = {}
    BY <1>3
  <2> QED
    BY <1>4, <2>1 DEF FeedIsDecodable
<1> QED
  BY <1>1, <1>5, <1>6 DEF Ordered, Loaded, Fed


\* A step of patient peers keeps them in one place.
LEMMA PlaceStep ==
    ASSUME ~ Eager, IInv, Patient, PeersInOnePlace, [Next]_vars
    PROVE  IInv' /\ Patient' /\ PeersInOnePlace'
<1>1. Shape /\ Noted /\ Buffers
  BY DEF IInv
<1>2. IInv'
  BY ShapeStep, NotedStep, DrainedStep, BuffersStep DEF IInv
<1>3. Covered /\ Apart /\ Waiting
  BY InOnePlace
<1>4. Covered' /\ Apart' /\ Waiting'
  BY <1>1, <1>3, CoveredStep, ApartStep, WaitingStep
<1>5. PeersInOnePlace'
  BY <1>4 DEF PeersInOnePlace, Covered, Apart, Waiting, OnStreams, Of
<1>6. Patient'
  BY <1>1, PatientStep
<1> QED
  BY <1>2, <1>5, <1>6

-----------------------------------------------------------------------------
(* The theorems *)

\* The inductive invariant holds however peers, sources and packets come.
THEOREM InductiveInvariant == Spec => []IInv
<1>1. Init => IInv
  BY ShapeInit, NotedInit, DrainedInit, BuffersInit DEF IInv
<1>2. IInv /\ [Next]_vars => IInv'
  BY ShapeStep, NotedStep, DrainedStep, BuffersStep DEF IInv
<1> QED
  BY <1>1, <1>2, PTL DEF Spec

\* The channels of a peer that was closed, by the program, by its connection, for
\* a new codec type or at the end, stay empty but if it was closed before Insert:
\* removePeer drains them after it closed done, and every send looks at done.
THEOREM ClosedPeersStayDrained == Spec => []ClosedPeersAreDrained
<1>1. IInv => ClosedPeersAreDrained
  BY DEF IInv, Drained, ClosedPeersAreDrained
<1> QED
  BY <1>1, InductiveInvariant, PTL

\* Every packet is in one buffer or was given back once, whatever the caps, the
\* parameters and the sources that go do to the buffers.
THEOREM EveryPacketIsReleasedOnce == Spec => []PacketsReleasedOnce
<1>1. IInv => PacketsReleasedOnce
  BY DEF IInv, Buffers, PacketsReleasedOnce, InHand
<1> QED
  BY <1>1, InductiveInvariant, PTL

\* If peers ask for another stream only after they were told of one, a connected
\* peer is never lost, on two streams at once, or waiting while there is a stream.
THEOREM PeersStayInOnePlace ==
    ASSUME ~ Eager
    PROVE  Spec => []PeersInOnePlace
<1>1. Init => IInv /\ Patient /\ PeersInOnePlace
  BY ShapeInit, NotedInit, DrainedInit, BuffersInit, PatientInit, PlaceInit DEF IInv
<1>2. IInv /\ Patient /\ PeersInOnePlace /\ [Next]_vars => IInv' /\ Patient' /\ PeersInOnePlace'
  BY PlaceStep
<1> QED
  BY <1>1, <1>2, PTL DEF Spec

\* Under the same condition, whatever a peer is offered can be decoded: of any source
\* it gets a keyframe first, and then every video packet but those that the hard cap
\* took, through seedTrack, processPendingTracks and processExistingTracks alike.  A
\* peer that is on one stream at a time is what makes it so: what it got last is then
\* what its stream sent last.
THEOREM FeedDecodable ==
    ASSUME ~ Eager
    PROVE  Spec => []FeedIsDecodable
<1> DEFINE Orders == Ordered /\ Loaded
           Sending == Feeds /\ Fed /\ FeedIsDecodable
<1>1. Init => IInv /\ Patient /\ PeersInOnePlace /\ Orders /\ Sending
  BY ShapeInit, NotedInit, DrainedInit, BuffersInit, PatientInit, PlaceInit, FeedsInit DEF IInv
<1>2. IInv /\ Patient /\ PeersInOnePlace /\ Orders /\ Sending /\ [Next]_vars =>
          IInv' /\ Patient' /\ PeersInOnePlace' /\ Orders' /\ Sending'
  <2> SUFFICES ASSUME IInv, Patient, PeersInOnePlace, Orders, Sending, [Next]_vars
               PROVE  IInv' /\ Patient' /\ PeersInOnePlace' /\ Orders' /\ Sending'
    OBVIOUS
  <2>1. Shape /\ Noted /\ Buffers /\ Apart
    BY InOnePlace DEF IInv
  <2>2. IInv' /\ Patient' /\ PeersInOnePlace'
    BY PlaceStep
  <2>3. Shape'
    BY <2>2 DEF IInv
  <2>4. Ordered' /\ Loaded'
    BY <2>1, <2>3, OrderedStep, LoadedStep
  <2>5. Feeds' /\ FeedIsDecodable' /\ Fed'
    BY <2>1, <2>3, FeedsStep, FedStep
  <2> QED
    BY <2>2, <2>4, <2>5
<1> QED
  BY <1>1, <1>2, PTL DEF Spec

=============================================================================
