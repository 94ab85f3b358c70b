--------------------------- MODULE SegmenterProofs ---------------------------
(***************************************************************************)
(* What Segmenter guarantees for all sets of sources, durations and limits.*)
(* The inductive invariant has five layers: the shape of the state; where  *)
(* Step is and what accounts for the files it closed; and of each source,  *)
(* what its stream may have at that point, who owns its packets, and that  *)
(* neither its pre-buffer nor its file has a hole.  A last part is about   *)
(* the muxer of a file, MP4Muxer: who owns the packets it was given.       *)
(***************************************************************************)
EXTENDS Segmenter, ListProofs

-----------------------------------------------------------------------------
(* The inductive invariant *)

InHandSteps == {"codec", "handle", "open", "write"}
Draining    == {"drainOpen", "drain", "drainNext", "drainFlush"}
Working     == InHandSteps \cup Draining \cup {"flush", "drainEnd"}
Labels      == Working \cup {"idle", "send", "mode", "release", "closed", "crashed"}
RecordModes == {"never", "event", "always"}

Pkts     == [url : Urls, id : Nat \ {0}, kind : {"key", "delta", "audio"}, t : Nat, par : Nat]
FileOf   == [ids : SUBSET (Nat \ {0}), start : Pkts, par : Nat, dur : Nat, flush : Nat,
             held : SUBSET Pkts, last : SUBSET Pkts, damaged : BOOLEAN]
StreamOf == [seen : BOOLEAN, saved : BOOLEAN, ring : Seq(Pkts), file : {NoFile} \cup FileOf,
             par : Nat, audio : BOOLEAN, session : Nat, wall : BOOLEAN, stop : Int]

\* The type of the state.
Shape ==
    /\ mode \in RecordModes /\ recording \in BOOLEAN
    /\ streams \in [Urls -> {NoStream} \cup StreamOf]
    /\ mu \in {"free", "lost"} /\ pc \in Labels
    /\ pc \in Working => job \in [kind : {"pkt"}, pkt : Pkts]
    /\ pc = "mode" => job \in [kind : {"mode"}, mode : RecordModes, todo : SUBSET Urls]
    /\ pc = "release" => job \in [kind : {"release"}, todo : SUBSET Urls]
    /\ buf \in Seq(Pkts) /\ released \subseteq Urls \X Nat
    /\ got \in [Urls -> Nat] /\ time \in [Urls -> Nat] /\ par \in [Urls -> Nat]

\* A stream as the invariant sees it; one that is not known has nothing.
FileAt(u) == IF u \in Known THEN streams[u].file ELSE NoFile
RingAt(u) == IF u \in Known THEN streams[u].ring ELSE <<>>
SeenAt(u) == u \in Known /\ streams[u].seen
HeldAt(u) == IF FileAt(u) = NoFile THEN {} ELSE FileAt(u).held

\* Step works on a packet of u, holds it, or drains the pre-buffer of u.
At(u, labels) == pc \in labels /\ Src = u

Ordered(s) == \A i, j \in 1 .. Len(s) : i < j => s[i].id < s[j].id

\* Where Step is, and what accounts for the files it closed: it comes to no
\* return that forgets them but for the failing mode change.
Control ==
    /\ pc # "idle" => mu = "free"
    /\ pc \in Working => mode # "never" /\ Src \in Known
    /\ pc \in {"mode", "release"} => job.todo \subseteq Known
    /\ pc \in {"release", "closed", "crashed"} => stopping
    /\ Known \subseteq sources
    /\ buf # <<>> => pc \in Draining
    /\ pc \in {"drainOpen", "drain", "drainNext"} => buf # <<>>
    /\ Ordered(buf)
    /\ pc = "drainOpen" => Key(buf[Len(buf)])
    /\ pc = "drainNext" => Key(buf[1])
    /\ pc = "open" => Key(Pkt) /\ (recording \/ mode = "always")
    /\ pc \in {"drain", "drainNext", "drainFlush", "drainEnd"} => recording
    /\ infos # {} => pc \notin {"idle", "codec"}
    /\ ClosedFilesReported

\* A stream that is recorded has an empty pre-buffer, as has one of another mode
\* than "event" and one that has seen no keyframe.
StreamFlow(u) ==
    /\ FileAt(u) # NoFile =>
          /\ SeenAt(u) /\ RingAt(u) = <<>> /\ mode # "never" /\ recording
          /\ FileAt(u).last \subseteq FileAt(u).held
    /\ RingAt(u) # <<>> => SeenAt(u) /\ mode = "event"
    /\ pc \in {"mode", "release"} /\ u \notin job.todo => FileAt(u) = NoFile /\ RingAt(u) = <<>>
    /\ At(u, {"write", "flush", "drain", "drainFlush", "drainEnd"}) => FileAt(u) # NoFile
    /\ At(u, {"open", "drainOpen", "drainNext"}) => FileAt(u) = NoFile /\ RingAt(u) = <<>>
    /\ At(u, {"drain", "drainFlush", "drainEnd"}) => ~ FileAt(u).damaged
    /\ At(u, Working \ {"codec", "handle"}) => SeenAt(u)
    /\ At(u, {"handle"}) /\ infos # {} => SeenAt(u)

\* The packets of u that are used, and those that may be missing.
Passing(u) ==
    (IF At(u, InHandSteps) THEN {Pkt} ELSE {}) \cup (IF At(u, Draining) THEN Range(buf) ELSE {})
UsedOf(u) == Range(RingAt(u)) \cup HeldAt(u) \cup Passing(u)
Lost == "drain" \in failed \/ mu = "lost" \/ pc = "crashed"

\* The packets of a source: each one arrived, and is in one place or was given
\* back.
StreamOwners(u) ==
    /\ \A p \in UsedOf(u) : p.url = u /\ p.id <= got[u] /\ <<u, p.id>> \notin released
    /\ \A p, q \in UsedOf(u) : p.id = q.id => p = q
    /\ Passing(u) \cap (Range(RingAt(u)) \cup HeldAt(u)) = {}
    /\ At(u, InHandSteps) => Pkt.id = got[u]
    /\ Ordered(RingAt(u))
    /\ \A x \in released : x[1] = u => x[2] \in 1 .. got[u]
    /\ ~ Lost => \A i \in 1 .. got[u] : <<u, i>> \in released \/ \E p \in UsedOf(u) : p.id = i

\* The packets of a source that have come to where they are kept.
Upto(u) ==
    IF At(u, InHandSteps) THEN got[u] - 1
    ELSE IF At(u, Draining) /\ buf # <<>> THEN buf[1].id - 1
    ELSE got[u]

\* Every packet of u from lo to hi is in ids, or was cut from a full pre-buffer.
Covers(ids, u, lo, hi) == \A i \in lo .. hi : i \in ids \/ <<u, i>> \in cut
IdsOf(s) == {p.id : p \in Range(s)}

FileWhole(u, f) ==
    /\ Key(f.start)
    /\ f.ids # {} => f.start.id \in f.ids
    /\ \A i \in f.ids : f.start.id <= i /\ i <= Upto(u)
    /\ f.ids = {} => \/ At(u, {"write"}) /\ f.start = Pkt
                     \/ At(u, {"drain"}) /\ f.start = buf[1]
    /\ f.ids = {} \/ "drain" \in failed \/ Covers(f.ids, u, f.start.id, Upto(u))

\* Neither pre-buffer nor file has a hole that the ring did not cut.
StreamWhole(u) ==
    /\ RingAt(u) # <<>> => Covers(IdsOf(RingAt(u)), u, RingAt(u)[1].id, Upto(u))
    /\ At(u, Draining) /\ buf # <<>> => Covers(IdsOf(buf), u, buf[1].id, got[u])
    /\ FileAt(u) # NoFile => FileWhole(u, FileAt(u))

IInv ==
    /\ Shape /\ Control
    /\ \A u \in Urls : StreamFlow(u) /\ StreamOwners(u) /\ StreamWhole(u)

-----------------------------------------------------------------------------
(* Sequences of packets *)

\* t is what is left of s when packets are taken out.
Left(t, s) ==
    /\ t \in Seq(Pkts) /\ Range(t) \subseteq Range(s)
    /\ Ordered(s) => Ordered(t)

\* The last packet of s, if any, is the last of t.
SameLast(t, s) == t # <<>> /\ t[Len(t)] = s[Len(s)]

\* The empty sequence is the one of length zero.
LEMMA EmptyIsLengthZero == \A s \in Seq(Pkts) : s = <<>> <=> Len(s) = 0
OBVIOUS

\* What is left of what is left.
LEMMA LeftTransitive ==
    ASSUME NEW s, NEW t, NEW r, Left(t, s), Left(r, t)
    PROVE  Left(r, s)
BY DEF Left

\* A sequence is left of itself when nothing is taken out.
LEMMA LeftReflexive ==
    ASSUME NEW s \in Seq(Pkts)
    PROVE  Left(s, s)
BY DEF Left

\* From the i-th packet on.
LEMMA SuffixLeft ==
    ASSUME NEW s \in Seq(Pkts), NEW i \in 1 .. Len(s)
    PROVE  /\ Left(SubSeq(s, i, Len(s)), s) /\ SameLast(SubSeq(s, i, Len(s)), s)
           /\ Len(SubSeq(s, i, Len(s))) = Len(s) - i + 1
           /\ \A j \in 1 .. Len(s) - i + 1 : SubSeq(s, i, Len(s))[j] = s[i + j - 1]
<1>1. PICK n \in Nat : n = Len(s) /\ DOMAIN s = 1 .. n
  OBVIOUS
<1>2. PICK t : t = SubSeq(s, i, Len(s))
  OBVIOUS
<1>3. i \in 1 .. n /\ \A j \in i .. n : s[j] \in Pkts
  BY <1>1
<1>4. /\ t \in Seq(Pkts) /\ Len(t) = n - i + 1
      /\ \A j \in 1 .. n - i + 1 : t[j] = s[i + j - 1]
  BY <1>1, <1>2, <1>3, SubSeqProperties
<1>5. DOMAIN t = 1 .. n - i + 1 /\ \A j \in 1 .. n - i + 1 : i + j - 1 \in 1 .. n
  BY <1>3, <1>4
<1>6. Range(t) \subseteq Range(s)
  BY <1>1, <1>4, <1>5 DEF Range
<1>7. ASSUME Ordered(s)
      PROVE  Ordered(t)
  <2>1. ASSUME NEW j \in 1 .. Len(t), NEW k \in 1 .. Len(t), j < k
        PROVE  t[j].id < t[k].id
    <3>1. i + j - 1 \in 1 .. n /\ i + k - 1 \in 1 .. n /\ i + j - 1 < i + k - 1
      BY <1>3, <1>4, <2>1
    <3>2. t[j] = s[i + j - 1] /\ t[k] = s[i + k - 1]
      BY <1>4, <2>1
    <3> QED
      BY <1>1, <1>7, <3>1, <3>2 DEF Ordered
  <2> QED
    BY <2>1 DEF Ordered
<1>8. SameLast(t, s)
  <2>1. n - i + 1 \in 1 .. n - i + 1 /\ i + (n - i + 1) - 1 = n
    BY <1>3
  <2> QED
    <3>1. Len(t) = n - i + 1 /\ t # <<>>
      BY <1>3, <1>4, EmptyIsLengthZero
    <3>2. t[n - i + 1] = s[n]
      BY <1>4, <2>1
    <3> QED
      BY <1>1, <3>1, <3>2 DEF SameLast
<1> QED
  BY <1>1, <1>2, <1>4, <1>6, <1>7, <1>8 DEF Left

\* One element before the others.
LEMMA PrependProperties ==
    ASSUME NEW h \in Seq(Pkts), Len(h) = 1, NEW r \in Seq(Pkts), NEW m \in Nat, m = Len(r)
    PROVE  /\ h \o r \in Seq(Pkts) /\ Len(h \o r) = 1 + m
           /\ \A j \in 1 .. 1 + m : (h \o r)[j] = IF j <= 1 THEN h[j] ELSE r[j - 1]
<1>1. /\ h \o r \in Seq(Pkts) /\ Len(h \o r) = Len(h) + Len(r)
      /\ \A j \in 1 .. Len(h) + Len(r) :
            (h \o r)[j] = IF j <= Len(h) THEN h[j] ELSE r[j - Len(h)]
  BY ConcatProperties
<1> QED
  BY <1>1

\* enforceLimits: the first stays, the next k go.
LEMMA DropMiddleLeft ==
    ASSUME NEW s \in Seq(Pkts), NEW k \in 0 .. Len(s) - 1
    PROVE  /\ Left(DropMiddle(s, k), s) /\ DropMiddle(s, k) # <<>>
           /\ Len(DropMiddle(s, k)) = Len(s) - k
           /\ k < Len(s) - 1 \/ Len(s) = 1 => SameLast(DropMiddle(s, k), s)
<1>1. PICK n \in Nat : n = Len(s) /\ DOMAIN s = 1 .. n
  OBVIOUS
<1>2. n >= 1 /\ k \in 0 .. n - 1 /\ 1 \in 1 .. n
  BY <1>1
<1>3. PICK r : r = SubSeq(s, k + 2, Len(s))
  OBVIOUS
<1>4. /\ r \in Seq(Pkts) /\ Len(r) = n - k - 1
      /\ \A j \in 1 .. n - k - 1 : r[j] = s[k + j + 1]
  <2>1. \A j \in k + 2 .. n : s[j] \in Pkts
    BY <1>1, <1>2
  <2>2. k + 2 \in Int
    BY <1>2
  <2>3. /\ r \in Seq(Pkts) /\ Len(r) = IF k + 2 <= n THEN n - (k + 2) + 1 ELSE 0
        /\ \A j \in 1 .. n - (k + 2) + 1 : r[j] = s[k + 2 + j - 1]
    BY <1>1, <1>3, <2>1, <2>2, SubSeqProperties
  <2>4. Len(r) = n - k - 1
    BY <1>2, <2>3
  <2>5. \A j \in 1 .. n - k - 1 : j \in 1 .. n - (k + 2) + 1 /\ k + 2 + j - 1 = k + j + 1
    BY <1>2
  <2> QED
    BY <2>3, <2>4, <2>5
<1>5. PICK h : h = <<s[1]>>
  OBVIOUS
<1>6. h \in Seq(Pkts) /\ Len(h) = 1 /\ h[1] = s[1]
  BY <1>1, <1>2, <1>5
<1>7. PICK t : t = h \o r
  OBVIOUS
<1>8. /\ t \in Seq(Pkts) /\ Len(t) = n - k
      /\ \A j \in 1 .. n - k : t[j] = IF j <= 1 THEN h[j] ELSE r[j - 1]
  <2>1. PICK m \in Nat : m = Len(r) /\ m = n - k - 1 /\ 1 + m = n - k
    BY <1>2, <1>4
  <2>2. /\ h \o r \in Seq(Pkts) /\ Len(h \o r) = 1 + m
        /\ \A j \in 1 .. 1 + m : (h \o r)[j] = IF j <= 1 THEN h[j] ELSE r[j - 1]
    <3>1. h \in Seq(Pkts) /\ r \in Seq(Pkts) /\ Len(h) = 1
      BY <1>4, <1>6
    <3> QED
      BY <2>1, <3>1, PrependProperties
  <2> QED
    BY <1>7, <2>1, <2>2
<1>9. t = DropMiddle(s, k)
  <2>1. Head(s) = s[1]
    BY <1>1, <1>2
  <2> QED
    BY <1>3, <1>5, <1>7, <2>1 DEF DropMiddle
<1>10. ASSUME NEW j \in 1 .. n - k
       PROVE  t[j] = s[IF j = 1 THEN 1 ELSE k + j] /\ (IF j = 1 THEN 1 ELSE k + j) \in 1 .. n
  <2>1. CASE j = 1
    BY <1>2, <1>6, <1>8, <2>1
  <2>2. CASE j # 1
    <3>1. ~ (j <= 1) /\ j - 1 \in 1 .. n - k - 1 /\ k + (j - 1) + 1 = k + j
      BY <1>2, <2>2
    <3> QED
      BY <1>2, <1>4, <1>8, <2>2, <3>1
  <2> QED
    BY <2>1, <2>2
<1>11. Range(t) \subseteq Range(s)
  <2>1. DOMAIN t = 1 .. n - k
    BY <1>2, <1>8
  <2> QED
    BY <1>1, <1>10, <2>1 DEF Range
<1>12. ASSUME Ordered(s)
       PROVE  Ordered(t)
  <2>1. ASSUME NEW i \in 1 .. n - k, NEW j \in 1 .. n - k, i < j
        PROVE  t[i].id < t[j].id
    <3>1. t[j] = s[k + j] /\ k + j \in 1 .. n
      BY <1>2, <1>10, <2>1
    <3>2. CASE i = 1
      BY <1>1, <1>2, <1>10, <1>12, <2>1, <3>1, <3>2 DEF Ordered
    <3>3. CASE i # 1
      <4>1. t[i] = s[k + i] /\ k + i \in 1 .. n /\ k + i < k + j
        BY <1>2, <1>10, <2>1, <3>3
      <4> QED
        BY <1>1, <1>12, <3>1, <4>1 DEF Ordered
    <3> QED
      BY <3>2, <3>3
  <2> QED
    BY <1>2, <1>8, <2>1 DEF Ordered
<1>13. ASSUME k < n - 1 \/ n = 1
       PROVE  SameLast(t, s)
  <2>1. n - k \in 1 .. n - k /\ t # <<>>
    BY <1>2, <1>8
  <2>2. t[n - k] = s[n]
    BY <1>2, <1>10, <1>13, <2>1
  <2> QED
    BY <1>1, <1>8, <2>1, <2>2 DEF SameLast
<1>14. t # <<>>
  BY <1>2, <1>8
<1> QED
  BY <1>1, <1>8, <1>9, <1>11, <1>12, <1>13, <1>14 DEF Left

\* A set of two has at most two elements.
LEMMA CardinalityTwo ==
    ASSUME NEW S \in SUBSET (1 .. 2)
    PROVE  Cardinality(S) \in Nat /\ Cardinality(S) <= 2
<1>1. IsFiniteSet(1 .. 2) /\ Cardinality(1 .. 2) = 2
  <2>1. 1 \in Int /\ 2 \in Int
    OBVIOUS
  <2>2. IsFiniteSet(1 .. 2) /\ Cardinality(1 .. 2) = IF 1 > 2 THEN 0 ELSE 2 - 1 + 1
    BY <2>1, FS_Interval, Zenon
  <2> QED
    BY <2>2
<1>2. IsFiniteSet(S) /\ Cardinality(S) <= 2
  BY <1>1, FS_Subset
<1> QED
  BY <1>2, FS_CardinalityType

\* enforceLimits keeps the last packet, and some before it in their order.
LEMMA EnforceLimitsLeft ==
    ASSUME NEW s \in Seq(Pkts), s # <<>>
    PROVE  Left(enforceLimits(s), s) /\ SameLast(enforceLimits(s), s)
<1> DEFINE ks == {k \in 0 .. Len(s) - 1 : k = Len(s) - 1 \/ WithinLimits(DropMiddle(s, k))}
<1>1. PICK n \in Nat : n = Len(s) /\ n >= 1
  BY EmptyIsLengthZero
<1>2. n - 1 \in ks
  BY <1>1
<1>3. Min(ks) \in ks /\ \A k \in ks : Min(ks) <= k
  <2>1. ks \subseteq 0 .. Len(s) - 1
    OBVIOUS
  <2>2. 0 .. Len(s) - 1 \subseteq Nat
    BY <1>1
  <2>3. ks # {}
    BY <1>2
  <2> HIDE DEF ks
  <2> QED
    BY <2>1, <2>2, <2>3, MinProperties
<1>4. PICK k \in 0 .. n - 1 : k = Min(ks)
  BY <1>1, <1>3
<1>5. k < n - 1 \/ n = 1
  <2>1. SUFFICES ASSUME n > 1 PROVE k < n - 1
    BY <1>1
  <2>2. PICK r : r = DropMiddle(s, n - 2)
    OBVIOUS
  <2>3. n - 2 \in 0 .. n - 1
    BY <1>1, <2>1
  <2>4. r \in Seq(Pkts) /\ Len(r) = 2
    <3>1. n - 2 \in 0 .. Len(s) - 1 /\ Len(s) - (n - 2) = 2
      BY <1>1, <2>1
    <3>2. Left(r, s) /\ Len(r) = Len(s) - (n - 2)
      BY <2>2, <3>1, DropMiddleLeft
    <3> QED
      BY <3>1, <3>2 DEF Left
  <2>5. Length(r) \in Nat /\ Length(r) <= 2
    <3>1. {i \in 1 .. Len(r) : Video(r[i])} \in SUBSET (1 .. 2)
      BY <2>4
    <3> QED
      BY <3>1, CardinalityTwo DEF Length
  <2>6. WithinLimits(r)
    BY <2>4, <2>5, PreBufferAssumption DEF WithinLimits, HardCap
  <2>7. n - 2 \in ks
    BY <1>1, <2>2, <2>3, <2>6
  <2> QED
    BY <1>1, <1>3, <1>4, <2>7
<1>6. enforceLimits(s) = DropMiddle(s, k)
  BY <1>4 DEF enforceLimits
<1>7. k \in 0 .. Len(s) - 1 /\ (k < Len(s) - 1 \/ Len(s) = 1)
  BY <1>1, <1>4, <1>5
<1> QED
  BY <1>6, <1>7, DropMiddleLeft

\* So does trim.
LEMMA TrimLeft ==
    ASSUME NEW s \in Seq(Pkts), s # <<>>
    PROVE  Left(trim(s), s) /\ SameLast(trim(s), s)
<1> DEFINE starts == {1} \cup {i \in 1 .. Len(s) : Key(s[i])}
           From(i) == SubSeq(s, i, Len(s))
           short == {i \in starts : Length(From(i)) <= PreBuffer}
           first == IF short # {} THEN Min(short) ELSE Max(starts)
<1>1. PICK n \in Nat : n = Len(s) /\ n >= 1
  BY EmptyIsLengthZero
<1>2. starts \in SUBSET (1 .. n) /\ 1 \in starts
  BY <1>1
<1>3. starts \in SUBSET Nat /\ starts # {} /\ \A i \in starts : i <= n
  BY <1>2
<1>4. Max(starts) \in starts
  <2> HIDE DEF starts
  <2> QED
    BY <1>1, <1>3, MaxProperties
<1>5. short # {} => Min(short) \in short
  <2>1. short \in SUBSET Nat
    BY <1>3
  <2> HIDE DEF short
  <2> QED
    BY <2>1, MinProperties
<1>6. first \in starts
  BY <1>4, <1>5
<1>7. PICK i \in 1 .. Len(s) : i = first
  BY <1>1, <1>2, <1>6
<1>8. trim(s) = SubSeq(s, i, Len(s))
  BY <1>7 DEF trim
<1> QED
  BY <1>8, SuffixLeft

\* What add and trim leave in the pre-buffer: the packet added, and others of it.
LEMMA BufferedProperties ==
    ASSUME NEW s \in Seq(Pkts), NEW p \in Pkts, NEW b, b = Buffered(s, p)
    PROVE  /\ b \in Seq(Pkts) /\ b # <<>> /\ Len(b) \in Nat \ {0} /\ b[Len(b)] = p
           /\ p \in Range(b) /\ Range(b) \subseteq Range(s) \cup {p}
           /\ Range(Append(s, p)) = Range(s) \cup {p}
           /\ Ordered(s) /\ (\A q \in Range(s) : q.id < p.id) => Ordered(b)
<1>1. PICK a : a = Append(s, p)
  OBVIOUS
<1>2. PICK n \in Nat : n = Len(s) /\ DOMAIN s = 1 .. n
  OBVIOUS
<1>3. /\ a \in Seq(Pkts) /\ a # <<>> /\ Len(a) = n + 1 /\ DOMAIN a = 1 .. n + 1
      /\ \A i \in 1 .. n : a[i] = s[i]
      /\ a[n + 1] = p
  BY <1>1, <1>2, AppendProperties
<1>4. Range(a) = Range(s) \cup {p}
  <2>1. \A i \in 1 .. n + 1 : i \in 1 .. n \/ i = n + 1
    OBVIOUS
  <2>2. 1 .. n \subseteq 1 .. n + 1 /\ n + 1 \in 1 .. n + 1
    OBVIOUS
  <2> QED
    BY <1>2, <1>3, <2>1, <2>2 DEF Range
<1>5. ASSUME Ordered(s), \A q \in Range(s) : q.id < p.id
      PROVE  Ordered(a)
  <2>1. ASSUME NEW i \in 1 .. n + 1, NEW j \in 1 .. n + 1, i < j
        PROVE  a[i].id < a[j].id
    <3>1. i \in 1 .. n /\ a[i] = s[i] /\ s[i] \in Range(s)
      BY <1>2, <1>3, <2>1 DEF Range
    <3>2. CASE j = n + 1
      BY <1>3, <1>5, <3>1, <3>2
    <3>3. CASE j # n + 1
      <4>1. j \in 1 .. n /\ a[j] = s[j]
        BY <1>3, <3>3
      <4> QED
        BY <1>2, <1>5, <2>1, <3>1, <4>1 DEF Ordered
    <3> QED
      BY <3>2, <3>3
  <2> QED
    BY <1>3, <2>1 DEF Ordered
<1>6. PICK e : e = enforceLimits(a)
  OBVIOUS
<1>7. Left(e, a) /\ SameLast(e, a)
  BY <1>3, <1>6, EnforceLimitsLeft
<1>8. Left(b, a) /\ SameLast(b, a)
  <2>1. CASE ~ Key(p)
    BY <1>1, <1>6, <1>7, <2>1 DEF Buffered, Trimmed
  <2>2. CASE Key(p)
    <3>1. PICK t : t = trim(e)
      OBVIOUS
    <3>2. e \in Seq(Pkts) /\ e # <<>>
      BY <1>7 DEF Left, SameLast
    <3>3. Left(t, e) /\ SameLast(t, e)
      BY <3>1, <3>2, TrimLeft
    <3>4. t \in Seq(Pkts) /\ t # <<>>
      BY <3>3 DEF Left, SameLast
    <3>5. b = enforceLimits(t)
      BY <1>1, <1>6, <2>2, <3>1 DEF Buffered, Trimmed
    <3>6. Left(b, t) /\ SameLast(b, t)
      BY <3>4, <3>5, EnforceLimitsLeft
    <3>7. Left(b, a)
      BY <1>7, <3>3, <3>6 DEF Left
    <3>8. SameLast(b, a)
      BY <1>7, <3>3, <3>6 DEF SameLast
    <3> QED
      BY <3>7, <3>8
  <2> QED
    BY <2>1, <2>2
<1>9. b \in Seq(Pkts) /\ b # <<>> /\ b[Len(b)] = p /\ Range(b) \subseteq Range(a)
  BY <1>3, <1>8 DEF Left, SameLast
<1>10. Len(b) \in Nat \ {0} /\ p \in Range(b)
  <2>1. PICK m \in Nat : m = Len(b) /\ DOMAIN b = 1 .. m
    BY <1>9
  <2>2. m # 0
    BY <1>9, <2>1, EmptyIsLengthZero
  <2>3. m \in 1 .. m
    BY <2>2
  <2> QED
    BY <1>9, <2>1, <2>2, <2>3 DEF Range
<1>11. Ordered(a) => Ordered(b)
  BY <1>8 DEF Left
<1> QED
  BY <1>1, <1>4, <1>5, <1>9, <1>10, <1>11

-----------------------------------------------------------------------------
(* Streams *)

\* No stream and no file is taken for a missing one.
LEMMA Records ==
    /\ NoStream \notin StreamOf /\ NoFile \notin FileOf
    /\ \A s \in StreamOf : s # NoStream
    /\ \A f \in FileOf : f # NoFile
    /\ NewStream \in StreamOf /\ NewStream.file = NoFile /\ NewStream.ring = <<>> /\ ~ NewStream.seen
<1>1. \A s \in StreamOf : DOMAIN s # DOMAIN NoStream
  <2>1. \A s \in StreamOf : "ring" \in DOMAIN s
    BY DEF StreamOf
  <2>2. "ring" \notin DOMAIN NoStream
    BY DEF NoStream
  <2> QED
    BY <2>1, <2>2
<1>2. \A f \in FileOf : DOMAIN f # DOMAIN NoFile
  <2>1. \A f \in FileOf : "held" \in DOMAIN f
    BY DEF FileOf
  <2>2. "held" \notin DOMAIN NoFile
    BY DEF NoFile
  <2> QED
    BY <2>1, <2>2
<1>3. NewStream \in StreamOf
  BY DEF NewStream, StreamOf
<1>4. NewStream.file = NoFile /\ NewStream.ring = <<>> /\ ~ NewStream.seen
  BY DEF NewStream
<1> QED
  BY <1>1, <1>2, <1>3, <1>4

\* The streams that are known are those that have a state.
LEMMA KnownStreams ==
    ASSUME Shape
    PROVE  /\ Known \subseteq Urls
           /\ \A u \in Known : streams[u] \in StreamOf
           /\ \A u \in Urls : u \notin Known => streams[u] = NoStream
BY DEF Shape, Known

\* What is at a stream has its type.
LEMMA ViewTypes ==
    ASSUME Shape, NEW u \in Urls
    PROVE  /\ FileAt(u) \in {NoFile} \cup FileOf /\ RingAt(u) \in Seq(Pkts) /\ SeenAt(u) \in BOOLEAN
           /\ FileAt(u) # NoFile => FileAt(u) \in FileOf /\ u \in Known
           /\ Active(u) <=> FileAt(u) # NoFile
           /\ HeldAt(u) \subseteq Pkts
<1>1. u \in Known => streams[u] \in StreamOf
  BY KnownStreams
<1>2. FileAt(u) \in {NoFile} \cup FileOf
  BY <1>1 DEF FileAt, StreamOf
<1>3. RingAt(u) \in Seq(Pkts)
  BY <1>1 DEF RingAt, StreamOf
<1>4. SeenAt(u) \in BOOLEAN
  BY <1>1 DEF SeenAt, StreamOf
<1>5. FileAt(u) # NoFile => FileAt(u) \in FileOf /\ u \in Known
  BY <1>2 DEF FileAt
<1>6. HeldAt(u) \subseteq Pkts
  BY <1>5 DEF HeldAt, FileOf
<1>7. Active(u) <=> FileAt(u) # NoFile
  BY DEF Active, FileAt
<1> QED
  BY <1>2, <1>3, <1>4, <1>5, <1>6, <1>7

\* What owns a packet of a stream.
LEMMA OwnedIs ==
    ASSUME Shape, NEW u \in Urls
    PROVE  Owned(u) = Range(RingAt(u)) \cup HeldAt(u)
<1>1. Active(u) <=> FileAt(u) # NoFile
  BY ViewTypes
<1>2. CASE u \in Known
  BY <1>1, <1>2 DEF Owned, RingAt, HeldAt, FileAt
<1>3. CASE u \notin Known
  <2>1. Owned(u) = {} /\ RingAt(u) = <<>> /\ FileAt(u) = NoFile
    BY <1>3 DEF Owned, RingAt, FileAt
  <2>2. Range(RingAt(u)) = {}
    BY <2>1 DEF Range
  <2> QED
    BY <2>1, <2>2 DEF HeldAt
<1> QED
  BY <1>2, <1>3

\* Every action sets one stream, or none.
LEMMA SetOneStream ==
    ASSUME Shape, NEW u \in Urls, NEW s \in {NoStream} \cup StreamOf,
           streams' = [streams EXCEPT ![u] = s]
    PROVE  /\ streams' \in [Urls -> {NoStream} \cup StreamOf]
           /\ s # NoStream => /\ FileAt(u)' = s.file /\ RingAt(u)' = s.ring
                              /\ SeenAt(u)' = s.seen /\ Known' = Known \cup {u}
           /\ s = NoStream => /\ FileAt(u)' = NoFile /\ RingAt(u)' = <<>>
                              /\ SeenAt(u)' = FALSE /\ Known' = Known \ {u}
           /\ \A v \in Urls : v # u => /\ FileAt(v)' = FileAt(v) /\ RingAt(v)' = RingAt(v)
                                       /\ SeenAt(v)' = SeenAt(v)
<1>1. /\ streams' \in [Urls -> {NoStream} \cup StreamOf]
      /\ streams'[u] = s /\ \A v \in Urls : v # u => streams'[v] = streams[v]
  BY DEF Shape
<1>2. Known' = {v \in Urls : streams'[v] # NoStream}
  BY DEF Known
<1>3. \A v \in Urls : v # u => (v \in Known' <=> v \in Known)
  BY <1>1, <1>2 DEF Known
<1>4. u \in Known' <=> s # NoStream
  BY <1>1, <1>2
<1>5. Known \subseteq Urls /\ Known' \subseteq Urls
  BY <1>2 DEF Known
<1>6. s \in StreamOf => s.seen \in BOOLEAN
  BY DEF StreamOf
<1>7. s # NoStream => /\ FileAt(u)' = s.file /\ RingAt(u)' = s.ring
                      /\ SeenAt(u)' = s.seen /\ Known' = Known \cup {u}
  BY <1>1, <1>3, <1>4, <1>5, <1>6 DEF FileAt, RingAt, SeenAt
<1>8. s = NoStream => /\ FileAt(u)' = NoFile /\ RingAt(u)' = <<>>
                      /\ SeenAt(u)' = FALSE /\ Known' = Known \ {u}
  BY <1>1, <1>3, <1>4, <1>5 DEF FileAt, RingAt, SeenAt
<1>9. ASSUME NEW v \in Urls, v # u
      PROVE  FileAt(v)' = FileAt(v) /\ RingAt(v)' = RingAt(v) /\ SeenAt(v)' = SeenAt(v)
  BY <1>1, <1>3, <1>9 DEF FileAt, RingAt, SeenAt
<1> QED
  BY <1>1, <1>7, <1>8, <1>9

\* What is at a stream depends on nothing else.
LEMMA SameStreams ==
    ASSUME streams' = streams
    PROVE  /\ Known' = Known
           /\ \A v \in Urls : /\ FileAt(v)' = FileAt(v) /\ RingAt(v)' = RingAt(v)
                              /\ SeenAt(v)' = SeenAt(v)
BY DEF Known, FileAt, RingAt, SeenAt

-----------------------------------------------------------------------------
(* What a step leaves alone, and what it gives back *)

\* A stream Step does not work on, before and after.
LEMMA OtherStream ==
    ASSUME Shape, NEW v \in Urls, StreamFlow(v), StreamOwners(v), StreamWhole(v),
           FileAt(v)' = FileAt(v), RingAt(v)' = RingAt(v), SeenAt(v)' = SeenAt(v),
           ~ At(v, Working), ~ At(v, Working)',
           got'[v] = got[v],
           FileAt(v) # NoFile \/ RingAt(v) # <<>> => mode' = mode,
           FileAt(v) # NoFile => recording',
           pc' \in {"mode", "release"} =>
              v \in job'.todo \/ (FileAt(v) = NoFile /\ RingAt(v) = <<>>),
           \A i \in Nat : <<v, i>> \in released' <=> <<v, i>> \in released,
           released' \subseteq Urls \X Nat,
           cut \subseteq cut', failed \subseteq failed', Lost => Lost'
    PROVE  StreamFlow(v)' /\ StreamOwners(v)' /\ StreamWhole(v)'
<1>1. /\ ~ At(v, InHandSteps) /\ ~ At(v, Draining)
      /\ ~ At(v, InHandSteps)' /\ ~ At(v, Draining)'
  BY DEF At, Working
<1>2. StreamFlow(v)'
  <2>1. /\ ~ At(v, {"write", "flush", "drain", "drainFlush", "drainEnd"})'
        /\ ~ At(v, {"open", "drainOpen", "drainNext"})'
        /\ ~ At(v, {"drain", "drainFlush", "drainEnd"})'
        /\ ~ At(v, Working \ {"codec", "handle"})' /\ ~ At(v, {"handle"})'
    BY DEF At, Working, InHandSteps, Draining
  <2> QED
    BY <2>1 DEF StreamFlow
<1>3. HeldAt(v)' = HeldAt(v)
  BY DEF HeldAt
<1>4. UsedOf(v)' = UsedOf(v) /\ Passing(v)' = {}
  BY <1>1, <1>3 DEF UsedOf, Passing
<1>5. Upto(v)' = Upto(v)
  BY <1>1 DEF Upto
<1>6. \A p \in UsedOf(v) : p \in Pkts
  BY <1>1, ViewTypes DEF UsedOf, Passing, Range
<1>7. StreamOwners(v)'
  <2>1. \A p \in UsedOf(v)' : p.url = v /\ p.id <= got'[v] /\ <<v, p.id>> \notin released'
    BY <1>4, <1>6 DEF StreamOwners, Pkts
  <2>2. \A p, q \in UsedOf(v)' : p.id = q.id => p = q
    BY <1>4 DEF StreamOwners
  <2>3. Passing(v)' \cap (Range(RingAt(v)) \cup HeldAt(v))' = {}
    BY <1>4
  <2>4. Ordered(RingAt(v))'
    BY DEF StreamOwners, Ordered
  <2>5. \A x \in released' : x[1] = v => x[2] \in 1 .. got'[v]
    <3>1. \A x \in released' : x[1] = v => x[2] \in Nat /\ x = <<v, x[2]>>
      OBVIOUS
    <3>2. \A x \in released' : x[1] = v => x \in released
      BY <3>1
    <3> QED
      BY <3>2 DEF StreamOwners
  <2>6. ~ Lost' => \A i \in 1 .. got'[v] : <<v, i>> \in released' \/ \E p \in UsedOf(v)' : p.id = i
    <3>1. got[v] \in Nat
      BY DEF Shape
    <3>2. \A i \in 1 .. got[v] : i \in Nat
      BY <3>1
    <3> QED
      BY <1>4, <3>2 DEF StreamOwners
  <2> QED
    BY <1>1, <2>1, <2>2, <2>3, <2>4, <2>5, <2>6 DEF StreamOwners
<1>8. StreamWhole(v)'
  <2>1. \A ids, lo, hi : Covers(ids, v, lo, hi) => Covers(ids, v, lo, hi)'
    BY DEF Covers
  <2>2. RingAt(v)' # <<>> => Covers(IdsOf(RingAt(v)), v, RingAt(v)[1].id, Upto(v))'
    <3>1. IdsOf(RingAt(v))' = IdsOf(RingAt(v))
      BY DEF IdsOf
    <3> QED
      BY <1>5, <3>1 DEF StreamWhole, Covers
  <2>3. FileAt(v) # NoFile => FileWhole(v, FileAt(v))'
    <3>1. /\ ~ At(v, {"write"}) /\ ~ At(v, {"drain"})
          /\ ~ At(v, {"write"})' /\ ~ At(v, {"drain"})'
      BY <1>1 DEF At, InHandSteps, Draining
    <3> QED
      BY <1>5, <3>1 DEF StreamWhole, FileWhole, Covers
  <2> QED
    BY <1>1, <2>2, <2>3 DEF StreamWhole
<1> QED
  BY <1>2, <1>7, <1>8

\* A step that gives the packets G of u back, and keeps the others of u.
LEMMA GivesBack ==
    ASSUME Shape, NEW u \in Urls, StreamOwners(u), NEW G, released' = released \cup Names(G),
           got' = got, G \subseteq UsedOf(u), UsedOf(u)' \subseteq UsedOf(u),
           UsedOf(u)' \cap G = {},
           Lost' \/ (~ Lost /\ UsedOf(u) \subseteq UsedOf(u)' \cup G),
           Passing(u)' \cap (Range(RingAt(u)) \cup HeldAt(u))' = {},
           Ordered(RingAt(u))',
           At(u, InHandSteps)' => Pkt'.id = got[u]
    PROVE  /\ StreamOwners(u)' /\ released' \subseteq Urls \X Nat
           /\ \A v \in Urls : v # u =>
                 \A i \in Nat : <<v, i>> \in released' <=> <<v, i>> \in released
<1>1. \A p \in UsedOf(u) : p \in Pkts
  <2>1. At(u, InHandSteps) => Pkt \in Pkts
    BY DEF At, Shape, Working, Pkt
  <2>2. \A p \in Range(buf) : p \in Pkts
    BY DEF Shape, Range
  <2>3. \A p \in Passing(u) : p \in Pkts
    BY <2>1, <2>2 DEF Passing
  <2>4. \A p \in Range(RingAt(u)) \cup HeldAt(u) : p \in Pkts
    BY ViewTypes DEF Range
  <2> QED
    BY <2>3, <2>4 DEF UsedOf
<1>2. \A p \in UsedOf(u) : /\ p.url = u /\ p.id \in Nat /\ p.id >= 1 /\ p.id <= got[u]
                           /\ <<u, p.id>> \notin released
  BY <1>1 DEF StreamOwners, Pkts
<1>3. Names(G) = {<<u, p.id>> : p \in G}
  BY <1>2 DEF Names
<1>4. released' \subseteq Urls \X Nat
  BY <1>2, <1>3 DEF Shape
<1>5. \A i \in Nat : <<u, i>> \in released' <=> <<u, i>> \in released \/ \E p \in G : p.id = i
  BY <1>3
<1>6. \A p \in UsedOf(u)' : p.url = u /\ p.id <= got'[u] /\ <<u, p.id>> \notin released'
  <2>1. \A p \in UsedOf(u)' : \A q \in G : p.id # q.id
    BY DEF StreamOwners
  <2> QED
    BY <1>2, <1>5, <2>1
<1>7. \A p, q \in UsedOf(u)' : p.id = q.id => p = q
  BY DEF StreamOwners
<1>8. \A x \in released' : x[1] = u => x[2] \in 1 .. got'[u]
  <2>1. got[u] \in Nat
    BY DEF Shape
  <2>2. \A p \in G : p.id \in 1 .. got[u]
    <3>1. ASSUME NEW p \in G
          PROVE  p.id \in 1 .. got[u]
      <4>1. p.id \in Nat /\ p.id >= 1 /\ p.id <= got[u]
        BY <1>2
      <4> QED
        BY <2>1, <4>1
    <3> QED
      BY <3>1
  <2>3. \A x \in Names(G) : x[2] \in 1 .. got[u]
    BY <1>3, <2>2
  <2> QED
    BY <2>3 DEF StreamOwners
<1>9. ~ Lost' => \A i \in 1 .. got'[u] : <<u, i>> \in released' \/ \E p \in UsedOf(u)' : p.id = i
  <2>1. \A i \in 1 .. got[u] : i \in Nat
    OBVIOUS
  <2> QED
    BY <1>5, <2>1 DEF StreamOwners
<1>10. \A v \in Urls : v # u => \A i \in Nat : <<v, i>> \in released' <=> <<v, i>> \in released
  BY <1>3
<1>11. At(u, InHandSteps)' => Pkt'.id = got'[u]
  OBVIOUS
<1> QED
  BY <1>4, <1>6, <1>7, <1>8, <1>9, <1>10, <1>11 DEF StreamOwners

-----------------------------------------------------------------------------
(* Steps that touch no packet *)

\* Streams keep their packets.
Keeps ==
    /\ streams' \in [Urls -> {NoStream} \cup StreamOf]
    /\ \A v \in Urls : v \notin Known => streams'[v] = NoStream
    /\ \A v \in Known : /\ streams'[v] # NoStream /\ streams'[v].file = streams[v].file
                        /\ streams'[v].ring = streams[v].ring
                        /\ streams'[v].seen = streams[v].seen

\* Nothing that the invariant sees of the streams has changed.
LEMMA SameView ==
    ASSUME Shape, Keeps
    PROVE  /\ Known' = Known
           /\ \A v \in Urls : /\ FileAt(v)' = FileAt(v) /\ RingAt(v)' = RingAt(v)
                              /\ SeenAt(v)' = SeenAt(v)
<1>1. Known' = Known
  BY DEF Known, Keeps
<1>2. ASSUME NEW v \in Urls
      PROVE  FileAt(v)' = FileAt(v) /\ RingAt(v)' = RingAt(v) /\ SeenAt(v)' = SeenAt(v)
  BY <1>1 DEF FileAt, RingAt, SeenAt, Keeps
<1> QED
  BY <1>1, <1>2

\* A step between two packets that leaves files and rings alone keeps what holds
\* of every stream.
LEMMA QuietStep ==
    ASSUME IInv, pc \notin Working, pc' \notin Working,
           \A v \in Urls : /\ FileAt(v)' = FileAt(v) /\ RingAt(v)' = RingAt(v)
                           /\ SeenAt(v)' = SeenAt(v),
           UNCHANGED <<got, released, cut, failed>>,
           \A v \in Urls : FileAt(v) # NoFile \/ RingAt(v) # <<>> => mode' = mode,
           \A v \in Urls : FileAt(v) # NoFile => recording' = recording,
           \A v \in Urls : pc' \in {"mode", "release"} =>
              v \in job'.todo \/ (FileAt(v) = NoFile /\ RingAt(v) = <<>>),
           Lost => Lost'
    PROVE  \A v \in Urls : StreamFlow(v)' /\ StreamOwners(v)' /\ StreamWhole(v)'
<1>1. SUFFICES ASSUME NEW v \in Urls
               PROVE  StreamFlow(v)' /\ StreamOwners(v)' /\ StreamWhole(v)'
  OBVIOUS
<1>2. Shape /\ StreamFlow(v) /\ StreamOwners(v) /\ StreamWhole(v)
  BY DEF IInv
<1>3. ~ At(v, Working) /\ ~ At(v, Working)'
  BY DEF At
<1>4. FileAt(v) # NoFile => recording'
  BY <1>2 DEF StreamFlow
<1>5. released' \subseteq Urls \X Nat
  BY <1>2 DEF Shape
<1>6. \A i \in Nat : <<v, i>> \in released' <=> <<v, i>> \in released
  OBVIOUS
<1> QED
  BY <1>2, <1>3, <1>4, <1>5, <1>6, OtherStream

\* Clocks and events touch no packet.
LEMMA ClocksStep ==
    ASSUME IInv, Event \/ ClockIdle \/ \E u \in Urls : ClockMax(u)
    PROVE  IInv'
<1>1. Shape /\ Control
  BY DEF IInv
<1>2. /\ UNCHANGED <<mode, recording, sources, mu, pc, job, buf, infos, stopping, input,
                     released, cut, files, reported>>
      /\ pc = "idle"
  BY DEF Event, ClockIdle, ClockMax, Ready
<1>3. Keeps
  <2>1. CASE Event
    <3>1. ASSUME NEW v \in Known
          PROVE  LET s == streams'[v] IN
                 /\ s \in StreamOf
                 /\ s.file = streams[v].file /\ s.ring = streams[v].ring /\ s.seen = streams[v].seen
      <4>1. streams[v] \in StreamOf /\ v \in Urls
        BY <1>1, KnownStreams
      <4>2. streams'[v] = IF Active(v) THEN [streams[v] EXCEPT !.session = 0, !.wall = FALSE]
                          ELSE [streams[v] EXCEPT !.saved = FALSE]
        BY <2>1, <4>1 DEF Event
      <4>3. PICK s : s = streams[v]
        OBVIOUS
      <4>4. CASE Active(v)
        <5>1. streams'[v] = [s EXCEPT !.session = 0, !.wall = FALSE] /\ s \in StreamOf
          BY <4>1, <4>2, <4>3, <4>4
        <5>2. PICK r \in StreamOf : r = [s EXCEPT !.session = 0]
          BY <5>1 DEF StreamOf
        <5>3. r.file = s.file /\ r.ring = s.ring /\ r.seen = s.seen
          BY <5>1, <5>2 DEF StreamOf
        <5>4. streams'[v] = [r EXCEPT !.wall = FALSE]
          BY <5>1, <5>2 DEF StreamOf
        <5> QED
          BY <4>3, <5>2, <5>3, <5>4 DEF StreamOf
      <4>5. CASE ~ Active(v)
        <5>1. streams'[v] = [s EXCEPT !.saved = FALSE] /\ s \in StreamOf
          BY <4>1, <4>2, <4>3, <4>5
        <5> QED
          BY <4>3, <5>1 DEF StreamOf
      <4> QED
        BY <4>4, <4>5
    <3>2. \A v \in Urls : v \notin Known => streams'[v] = NoStream
      BY <2>1 DEF Event
    <3>3. DOMAIN streams' = Urls
      BY <2>1 DEF Event
    <3>4. streams' = [v \in Urls |-> streams'[v]]
      BY <2>1 DEF Event
    <3>5. \A v \in Known : streams'[v] # NoStream
      BY <3>1, Records
    <3>6. streams' \in [Urls -> {NoStream} \cup StreamOf]
      BY <3>1, <3>2, <3>4
    <3> QED
      BY <3>1, <3>2, <3>5, <3>6 DEF Keeps
  <2>2. CASE ClockIdle
    BY <1>1, <2>2 DEF ClockIdle, Known, Shape, Keeps
  <2>3. ASSUME NEW u \in Urls, ClockMax(u)
        PROVE  Keeps
    <3>1. u \in Known /\ streams[u] \in StreamOf
      BY <1>1, <2>3, KnownStreams DEF ClockMax, Active
    <3>2. PICK s : s = [streams[u] EXCEPT !.wall = TRUE]
      OBVIOUS
    <3>3. s \in StreamOf /\ s.file = streams[u].file /\ s.ring = streams[u].ring
          /\ s.seen = streams[u].seen
      BY <3>1, <3>2 DEF StreamOf
    <3>4. streams' = [streams EXCEPT ![u] = s]
      BY <2>3, <3>2 DEF ClockMax
    <3>5. streams'[u] = s /\ \A v \in Urls : v # u => streams'[v] = streams[v]
      BY <1>1, <3>4 DEF Shape
    <3>6. streams' \in [Urls -> {NoStream} \cup StreamOf]
      BY <1>1, <3>3, <3>4 DEF Shape
    <3>7. \A v \in Urls : v \notin Known => streams'[v] = NoStream
      BY <1>1, <3>1, <3>5, KnownStreams
    <3>8. \A v \in Known : streams'[v] # NoStream
      BY <1>1, <3>3, <3>5, Records, KnownStreams DEF Known
    <3>9. \A v \in Known : v \in Urls
      BY <1>1, KnownStreams
    <3> QED
      BY <3>3, <3>5, <3>6, <3>7, <3>8, <3>9 DEF Keeps
  <2> QED
    BY <2>1, <2>2, <2>3
<1>4. /\ Known' = Known
      /\ \A v \in Urls : FileAt(v)' = FileAt(v) /\ RingAt(v)' = RingAt(v) /\ SeenAt(v)' = SeenAt(v)
  BY <1>1, <1>3, SameView
<1>5. Shape'
  BY <1>1, <1>2, <1>3 DEF Shape, files, input, Keeps
<1>6. Control'
  BY <1>1, <1>2, <1>4 DEF Control, files, input, ClosedFilesReported, Working, InHandSteps, Draining
<1>7. Lost => Lost'
  BY <1>2 DEF Lost, files
<1>8. pc \notin Working /\ pc' \notin Working /\ pc' \notin {"mode", "release"}
  BY <1>2 DEF Working, InHandSteps, Draining
<1>9. \A v \in Urls : StreamFlow(v)' /\ StreamOwners(v)' /\ StreamWhole(v)'
  BY <1>2, <1>4, <1>7, <1>8, QuietStep DEF files, input
<1> QED
  BY <1>5, <1>6, <1>9 DEF IInv

\* Messages that only change where Step is, and the ends of Step and of Release.
LEMMA MessagesStep ==
    ASSUME IInv,
           \/ \E u \in Urls : addSource(u)
           \/ \E m \in Modes : ChangeMode(m)
           \/ ModeChanged \/ SendInfos \/ Stop \/ Release \/ Released
    PROVE  IInv'
<1>1. Shape /\ Control /\ \A v \in Urls : StreamFlow(v)
  BY DEF IInv
<1>2. UNCHANGED <<streams, mu, buf, input, released, cut, files>>
  BY DEF addSource, ChangeMode, ModeChanged, SendInfos, Stop, Release, Released
<1>3. /\ Known' = Known
      /\ \A v \in Urls : FileAt(v)' = FileAt(v) /\ RingAt(v)' = RingAt(v) /\ SeenAt(v)' = SeenAt(v)
  BY <1>2, SameStreams
<1>4. pc \notin Working /\ pc' \notin Working
  BY DEF addSource, ChangeMode, ModeChanged, SendInfos, Stop, Release, Released, Ready,
         Working, InHandSteps, Draining
<1>5. pc # "crashed"
  BY DEF addSource, ChangeMode, ModeChanged, SendInfos, Stop, Release, Released, Ready
<1>6. Lost => Lost'
  BY <1>2, <1>5 DEF Lost, files
<1>7. Shape'
  <2>1. Known \subseteq Urls
    BY <1>1, KnownStreams
  <2>2. CASE \E u \in Urls : addSource(u)
    BY <1>1, <1>2, <2>2 DEF Shape, addSource, Ready, input, Working, InHandSteps, Draining, Labels
  <2>3. ASSUME NEW m \in Modes, ChangeMode(m)
        PROVE  Shape'
    <3>1. job' = [kind |-> "mode", mode |-> m, todo |-> Known] /\ pc' = "mode"
          /\ mode' = mode /\ recording' = recording
      BY <2>3 DEF ChangeMode
    <3>2. job' \in [kind : {"mode"}, mode : RecordModes, todo : SUBSET Urls]
      BY <2>1, <3>1, ModesAssumption DEF RecordModes
    <3> QED
      BY <1>1, <1>2, <3>1, <3>2 DEF Shape, input, Working, InHandSteps, Draining, Labels
  <2>4. CASE ModeChanged
    <3>1. mode' = job.mode /\ job.mode \in RecordModes /\ recording' = FALSE /\ pc' = "send"
      BY <1>1, <2>4 DEF ModeChanged, Shape
    <3> QED
      BY <1>1, <1>2, <3>1 DEF Shape, input, Working, InHandSteps, Draining, Labels
  <2>5. CASE SendInfos \/ Stop
    BY <1>1, <1>2, <2>5 DEF Shape, SendInfos, Stop, input, Working, InHandSteps, Draining, Labels
  <2>6. CASE Release
    <3>1. job' = [kind |-> "release", todo |-> Known] /\ pc' = "release"
          /\ mode' = mode /\ recording' = recording
      BY <2>6 DEF Release
    <3>2. job' \in [kind : {"release"}, todo : SUBSET Urls]
      BY <2>1, <3>1
    <3> QED
      BY <1>1, <1>2, <3>1, <3>2 DEF Shape, input, Working, InHandSteps, Draining, Labels
  <2>7. CASE Released
    BY <1>1, <1>2, <2>7 DEF Shape, Released, input, Working, InHandSteps, Draining, Labels
  <2> QED
    BY <2>2, <2>3, <2>4, <2>5, <2>6, <2>7
<1>8. Control'
  <2>1. buf = <<>> /\ buf' = <<>>
    BY <1>1, <1>2, <1>4 DEF Control, Working
  <2>2. Ordered(buf)'
    BY <1>1, <1>2 DEF Control, Ordered
  <2>3. pc' \notin Draining /\ pc' \notin {"open", "drainEnd"}
    BY <1>4 DEF Working, InHandSteps
  <2>4. Known' \subseteq sources'
    BY <1>1, <1>3 DEF Control, addSource, ChangeMode, ModeChanged, SendInfos, Stop, Release, Released
  <2>5. ClosedFilesReported' /\ (infos' # {} => pc' \notin {"idle", "codec"})
    <3>1. CASE \E u \in Urls : addSource(u)
      BY <1>1, <1>2, <3>1 DEF addSource, files, Control, ClosedFilesReported, Ready
    <3>2. CASE \E m \in Modes : ChangeMode(m)
      BY <1>1, <1>2, <3>2 DEF ChangeMode, files, Control, ClosedFilesReported, Ready
    <3>3. CASE ModeChanged
      BY <1>1, <1>2, <3>3 DEF ModeChanged, files, Control, ClosedFilesReported
    <3>4. CASE SendInfos
      BY <1>1, <1>2, <3>4 DEF SendInfos, files, Control, ClosedFilesReported
    <3>5. CASE Stop
      BY <1>1, <1>2, <3>5 DEF Stop, files, Control, ClosedFilesReported
    <3>6. CASE Release
      BY <1>1, <1>2, <3>6 DEF Release, files, Control, ClosedFilesReported, Ready
    <3>7. CASE Released
      BY <1>1, <1>2, <3>7 DEF Released, files, Control, ClosedFilesReported
    <3> QED
      BY <3>1, <3>2, <3>3, <3>4, <3>5, <3>6, <3>7
  <2>6. pc' # "idle" => mu' = "free"
    BY <1>1, <1>2 DEF Control, addSource, ChangeMode, ModeChanged, SendInfos, Stop, Release,
                      Released, Ready
  <2>7. pc' \in {"mode", "release"} => job'.todo \subseteq Known'
    BY <1>1, <1>3 DEF Control, addSource, ChangeMode, ModeChanged, SendInfos, Stop, Release,
                      Released, Ready
  <2>8. pc' \in {"release", "closed", "crashed"} => stopping'
    BY <1>1 DEF Control, addSource, ChangeMode, ModeChanged, SendInfos, Stop, Release,
                Released, Ready
  <2> QED
    BY <1>4, <2>1, <2>2, <2>3, <2>4, <2>5, <2>6, <2>7, <2>8 DEF Control, Draining
<1>9. ASSUME NEW v \in Urls
      PROVE  /\ FileAt(v) # NoFile \/ RingAt(v) # <<>> => mode' = mode
             /\ FileAt(v) # NoFile => recording' = recording
             /\ pc' \in {"mode", "release"} =>
                   v \in job'.todo \/ (FileAt(v) = NoFile /\ RingAt(v) = <<>>)
  <2>1. v \notin Known => FileAt(v) = NoFile /\ RingAt(v) = <<>>
    BY DEF FileAt, RingAt
  <2>2. CASE ModeChanged
    <3>1. FileAt(v) = NoFile /\ RingAt(v) = <<>>
      BY <1>1, <2>2 DEF StreamFlow, ModeChanged
    <3> QED
      BY <2>2, <3>1 DEF ModeChanged
  <2>3. CASE (\E m \in Modes : ChangeMode(m)) \/ Release
    <3>1. mode' = mode /\ recording' = recording /\ job'.todo = Known
      BY <2>3 DEF ChangeMode, Release
    <3>2. v \in job'.todo \/ v \notin Known
      BY <3>1, Zenon
    <3> QED
      BY <2>1, <3>1, <3>2, Zenon
  <2>4. CASE (\E u \in Urls : addSource(u)) \/ SendInfos \/ Stop \/ Released
    BY <2>4 DEF addSource, SendInfos, Stop, Released, Ready
  <2> QED
    BY <2>2, <2>3, <2>4
<1>10. \A v \in Urls : StreamFlow(v)' /\ StreamOwners(v)' /\ StreamWhole(v)'
  BY <1>2, <1>3, <1>4, <1>6, <1>9, QuietStep DEF files, input
<1> QED
  BY <1>7, <1>8, <1>10 DEF IInv

-----------------------------------------------------------------------------
(* Streams that are emptied: removed, or closed by a mode change or Release *)

\* What closeSegment can come to, and what it does to the files that were closed.
LEMMA CloseResultsAre ==
    ASSUME NEW f, NEW least
    PROVE  CloseResults(f, least) \subseteq {"none", "info", "error", "panic"}
BY DEF CloseResults

\* What closing a file adds to the files to be reported.
LEMMA FileClosedIs ==
    ASSUME NEW u, NEW r, FileClosed(u, r)
    PROVE  /\ r # "panic" => \E X : closed' = closed \cup X /\ infos' = infos \cup X
           /\ r = "panic" => infos' = {} /\ closed' = closed
           /\ r \notin {"info", "panic"} => infos' = infos /\ closed' = closed
<1>1. CASE r = "info"
  <2>1. PICK X : X = {<<u, streams[u].file.start.id>>}
    OBVIOUS
  <2>2. closed' = closed \cup X /\ infos' = infos \cup X
    BY <1>1, <2>1 DEF FileClosed
  <2> QED
    BY <1>1, <2>2
<1>2. CASE r = "panic"
  BY <1>2 DEF FileClosed
<1>3. CASE r \notin {"info", "panic"}
  <2>1. closed' = closed /\ infos' = infos
    BY <1>3 DEF FileClosed
  <2>2. closed' = closed \cup {} /\ infos' = infos \cup {}
    BY <2>1
  <2> QED
    BY <1>3, <2>1, <2>2
<1> QED
  BY <1>1, <1>2, <1>3

\* The account of the files that were closed.
LEMMA ReportsStep ==
    ASSUME ClosedFilesReported, NEW u, NEW r, FileClosed(u, r) \/ (r = "none" /\ NothingClosed),
           reported' = reported, failed \subseteq failed',
           r = "panic" => mu' = "lost" \/ stopping', mu' = "free" => mu = "free",
           stopping => stopping'
    PROVE  ClosedFilesReported'
<1>1. CASE r = "panic"
  <2>1. mu' # "free" \/ stopping'
    BY <1>1
  <2> QED
    BY <2>1 DEF ClosedFilesReported
<1>2. CASE r # "panic"
  <2>1. PICK X : closed' = closed \cup X /\ infos' = infos \cup X
    <3>1. CASE FileClosed(u, r)
      BY <1>2, <3>1, FileClosedIs
    <3>2. CASE NothingClosed
      <4>1. closed' = closed \cup {} /\ infos' = infos \cup {}
        BY <3>2 DEF NothingClosed
      <4> QED
        BY <4>1
    <3> QED
      BY <3>1, <3>2
  <2>2. mu' = "free" /\ ~ stopping' /\ "mode" \notin failed' => closed = reported \cup infos
    BY DEF ClosedFilesReported
  <2> QED
    BY <2>1, <2>2 DEF ClosedFilesReported
<1> QED
  BY <1>1, <1>2

\* Outside the work on a packet there is little to say of Step.
LEMMA IdleControl ==
    ASSUME buf' = <<>>, pc' \notin Working, pc' # "idle" => mu' = "free",
           pc' \in {"mode", "release"} => job'.todo \subseteq Known',
           pc' \in {"release", "closed", "crashed"} => stopping',
           Known' \subseteq sources', pc' = "idle" => infos' = {}, ClosedFilesReported'
    PROVE  Control'
<1>1. Ordered(buf)'
  BY DEF Ordered
<1>2. pc' \notin Draining /\ pc' \notin {"open", "drainEnd", "codec"}
  BY DEF Working, InHandSteps
<1> QED
  BY <1>1, <1>2 DEF Control, Draining

\* With a file, a stream has nothing else.
LEMMA HeldIsAll ==
    ASSUME IInv, NEW u \in Urls, Active(u)
    PROVE  /\ u \in Known /\ streams[u] \in StreamOf /\ FileAt(u) = streams[u].file
           /\ FileAt(u) \in FileOf /\ FileAt(u) # NoFile
           /\ HeldAt(u) = streams[u].file.held /\ streams[u].file.held \subseteq Pkts
           /\ RingAt(u) = <<>> /\ Range(RingAt(u)) = {} /\ streams[u].ring = <<>>
           /\ SeenAt(u) /\ recording
<1>1. Shape /\ StreamFlow(u)
  BY DEF IInv
<1>2. FileAt(u) # NoFile /\ FileAt(u) \in FileOf /\ u \in Known
  BY <1>1, ViewTypes
<1>3. FileAt(u) = streams[u].file /\ streams[u] \in StreamOf
  BY <1>1, <1>2, KnownStreams DEF FileAt
<1>4. HeldAt(u) = streams[u].file.held /\ streams[u].file.held \subseteq Pkts
  BY <1>2, <1>3 DEF HeldAt, FileOf
<1>5. RingAt(u) = <<>> /\ SeenAt(u) /\ recording
  BY <1>1, <1>2 DEF StreamFlow
<1>6. Range(RingAt(u)) = {}
  BY <1>5 DEF Range
<1>7. streams[u].ring = <<>>
  BY <1>2, <1>5 DEF RingAt
<1> QED
  BY <1>2, <1>3, <1>4, <1>5, <1>6, <1>7

\* A step between two packets that empties one stream and gives its packets back.
LEMMA EmptiedStep ==
    ASSUME IInv, pc \notin Working, pc' \notin Working, NEW u \in Urls,
           FileAt(u)' = NoFile, RingAt(u)' = <<>>,
           \A v \in Urls : v # u => /\ FileAt(v)' = FileAt(v) /\ RingAt(v)' = RingAt(v)
                                    /\ SeenAt(v)' = SeenAt(v),
           released' = released \cup Names(Range(RingAt(u)) \cup HeldAt(u)),
           UNCHANGED <<got, cut, mode, recording>>, failed \subseteq failed', Lost => Lost',
           pc' \in {"mode", "release"} => pc' = pc /\ job'.todo = job.todo \ {u}
    PROVE  /\ \A v \in Urls : StreamFlow(v)' /\ StreamOwners(v)' /\ StreamWhole(v)'
           /\ released' \subseteq Urls \X Nat
<1>1. Shape /\ \A v \in Urls : StreamFlow(v) /\ StreamOwners(v) /\ StreamWhole(v)
  BY DEF IInv
<1>2. \A v \in Urls : Passing(v) = {} /\ Passing(v)' = {} /\ ~ At(v, Working) /\ ~ At(v, Working)'
  BY DEF Passing, At, Working
<1>3. UsedOf(u) = Range(RingAt(u)) \cup HeldAt(u)
  BY <1>2 DEF UsedOf
<1>4. Range(RingAt(u))' = {} /\ HeldAt(u)' = {} /\ UsedOf(u)' = {}
  <2>1. Range(<<>>) = {}
    BY DEF Range
  <2>2. HeldAt(u)' = {}
    BY DEF HeldAt
  <2> QED
    BY <1>2, <2>1, <2>2 DEF UsedOf
<1>5. Ordered(RingAt(u))'
  BY DEF Ordered
<1>6. ~ At(u, InHandSteps)'
  BY <1>2 DEF At, Working
<1>7. Lost' \/ (~ Lost /\ UsedOf(u) \subseteq UsedOf(u)' \cup UsedOf(u))
  OBVIOUS
<1>8. /\ StreamOwners(u)' /\ released' \subseteq Urls \X Nat
      /\ \A v \in Urls : v # u =>
            \A i \in Nat : <<v, i>> \in released' <=> <<v, i>> \in released
  BY <1>1, <1>2, <1>3, <1>4, <1>5, <1>6, <1>7, GivesBack
<1>9. StreamFlow(u)' /\ StreamWhole(u)'
  <2>1. \A S \in SUBSET Working : ~ At(u, S)'
    BY <1>2 DEF At
  <2>2. StreamFlow(u)'
    BY <2>1 DEF StreamFlow, Working, InHandSteps, Draining
  <2>3. StreamWhole(u)'
    BY <2>1 DEF StreamWhole, Working
  <2> QED
    BY <2>2, <2>3
<1>10. ASSUME NEW v \in Urls, v # u
       PROVE  StreamFlow(v)' /\ StreamOwners(v)' /\ StreamWhole(v)'
  <2>1. pc' \in {"mode", "release"} =>
           v \in job'.todo \/ (FileAt(v) = NoFile /\ RingAt(v) = <<>>)
    BY <1>1, <1>10 DEF StreamFlow
  <2>2. FileAt(v) # NoFile => recording'
    BY <1>1 DEF StreamFlow
  <2> QED
    BY <1>1, <1>2, <1>8, <1>10, <2>1, <2>2, OtherStream
<1> QED
  BY <1>8, <1>9, <1>10

\* A source is removed: its stream goes with its file.
LEMMA RemoveSourceStep ==
    ASSUME IInv, NEW u \in Urls, removeSource(u)
    PROVE  IInv'
<1>1. Shape /\ Control
  BY DEF IInv
<1>2. pc = "idle" /\ mu = "free" /\ UNCHANGED <<mode, recording, job, buf, stopping, input, cut,
                                               failed, reported>>
  BY DEF removeSource, Ready
<1>3. PICK r \in {"none", "info", "error", "panic"} :
         /\ IF Active(u) THEN FileClosed(u, r) ELSE r = "none" /\ NothingClosed
         /\ IF r = "panic"
            THEN Panic /\ SetFile(u, NoFile) /\ Free(streams[u].file.held) /\ UNCHANGED sources
            ELSE /\ sources' = sources \ {u} /\ SetStream(u, NoStream) /\ Free(Owned(u))
                 /\ pc' = "send" /\ UNCHANGED mu
  BY CloseResultsAre DEF removeSource
<1>4. r = "panic" => Active(u)
  BY <1>3
<1>5. pc \notin Working /\ pc' \notin Working /\ pc' \notin {"mode", "release", "closed", "crashed"}
  BY <1>2, <1>3 DEF Panic, Working, InHandSteps, Draining
<1>6. /\ streams' \in [Urls -> {NoStream} \cup StreamOf]
      /\ FileAt(u)' = NoFile /\ RingAt(u)' = <<>>
      /\ \A v \in Urls : v # u => /\ FileAt(v)' = FileAt(v) /\ RingAt(v)' = RingAt(v)
                                  /\ SeenAt(v)' = SeenAt(v)
      /\ Known' = IF r = "panic" THEN Known ELSE Known \ {u}
  <2>1. CASE r = "panic"
    <3>1. u \in Known /\ streams[u] \in StreamOf /\ streams[u].ring = <<>>
      BY <1>4, <2>1, HeldIsAll
    <3>2. PICK s : s = [streams[u] EXCEPT !.file = NoFile]
      OBVIOUS
    <3>3. s \in StreamOf /\ s.file = NoFile /\ s.ring = <<>>
      BY <3>1, <3>2 DEF StreamOf
    <3>4. streams' = [streams EXCEPT ![u] = s]
      BY <1>1, <1>3, <2>1, <3>1, <3>2 DEF SetFile, Shape
    <3>5. s # NoStream
      BY <3>3, Records
    <3> QED
      <4>1. Known \cup {u} = Known
        BY <3>1
      <4> QED
        BY <1>1, <2>1, <3>3, <3>4, <3>5, <4>1, SetOneStream
  <2>2. CASE r # "panic"
    <3>1. streams' = [streams EXCEPT ![u] = NoStream]
      BY <1>3, <2>2 DEF SetStream
    <3> QED
      BY <1>1, <2>2, <3>1, SetOneStream
  <2> QED
    BY <2>1, <2>2
<1>7. released' = released \cup Names(Range(RingAt(u)) \cup HeldAt(u))
  <2>1. CASE r = "panic"
    BY <1>3, <1>4, <2>1, HeldIsAll DEF Free
  <2>2. CASE r # "panic"
    BY <1>1, <1>3, <2>2, OwnedIs DEF Free
  <2> QED
    BY <2>1, <2>2
<1>8. Lost => Lost'
  BY <1>2, <1>3 DEF Lost, Panic
<1>9. /\ \A v \in Urls : StreamFlow(v)' /\ StreamOwners(v)' /\ StreamWhole(v)'
      /\ released' \subseteq Urls \X Nat
  BY <1>2, <1>5, <1>6, <1>7, <1>8, EmptiedStep DEF input
<1>10. Shape'
  <2>1. mu' \in {"free", "lost"} /\ pc' \in Labels
    BY <1>2, <1>3 DEF Panic, Labels
  <2> QED
    BY <1>1, <1>2, <1>5, <1>6, <1>9, <2>1 DEF Shape, input
<1>11. Control'
  <2>1. buf' = <<>>
    BY <1>1, <1>2 DEF Control, Draining
  <2>2. Known' \subseteq sources'
    BY <1>1, <1>3, <1>6 DEF Control
  <2>3. pc' # "idle" => mu' = "free"
    BY <1>2, <1>3 DEF Panic
  <2>4. pc' = "idle" => infos' = {}
    <3>1. pc' = "idle" => r = "panic"
      BY <1>3
    <3> QED
      BY <1>3, <1>4, <3>1, FileClosedIs
  <2>5. r = "panic" => mu' = "lost"
    BY <1>3 DEF Panic
  <2>6. FileClosed(u, r) \/ (r = "none" /\ NothingClosed)
    BY <1>3
  <2>7. ClosedFilesReported'
    BY <1>1, <1>2, <2>5, <2>6, ReportsStep DEF Control
  <2> QED
    BY <1>2, <1>5, <2>1, <2>2, <2>3, <2>4, <2>7, IdleControl
<1> QED
  BY <1>9, <1>10, <1>11 DEF IInv

\* Before a new record mode every stream is closed.
LEMMA ModeCloseStep ==
    ASSUME IInv, NEW u \in Urls, ModeClose(u)
    PROVE  IInv'
<1>1. Shape /\ Control
  BY DEF IInv
<1>2. /\ pc = "mode" /\ pc' = "mode" /\ u \in job.todo /\ mu = "free"
      /\ UNCHANGED <<mode, recording, sources, mu, buf, stopping, input, cut, failed, reported>>
      /\ job' = [job EXCEPT !.todo = @ \ {u}]
  BY <1>1 DEF ModeClose, Control
<1>3. PICK r \in {"none", "info"} : FileClosed(u, r) \/ (r = "none" /\ NothingClosed)
  BY DEF ModeClose
<1>4. u \in Known /\ streams[u] \in StreamOf
  BY <1>1, <1>2, KnownStreams DEF Control
<1>5. PICK s \in StreamOf : /\ s.file = NoFile /\ s.ring = <<>>
                            /\ streams' = [streams EXCEPT ![u] = s]
  <2>1. PICK s1 : s1 = [streams[u] EXCEPT !.file = NoFile]
    OBVIOUS
  <2>2. PICK s2 : s2 = [s1 EXCEPT !.ring = <<>>]
    OBVIOUS
  <2>3. PICK s3 : s3 = [s2 EXCEPT !.seen = FALSE]
    OBVIOUS
  <2>4. s1 \in StreamOf /\ s1.file = NoFile
    BY <1>4, <2>1 DEF StreamOf
  <2>5. s2 \in StreamOf /\ s2.file = NoFile /\ s2.ring = <<>>
    <3>1. <<>> \in Seq(Pkts)
      OBVIOUS
    <3> QED
      BY <2>2, <2>4, <3>1 DEF StreamOf
  <2>6. s3 \in StreamOf /\ s3.file = NoFile /\ s3.ring = <<>>
    BY <2>3, <2>5 DEF StreamOf
  <2>7. streams' = [[[streams EXCEPT ![u].file = NoFile] EXCEPT ![u].ring = <<>>]
                       EXCEPT ![u].seen = FALSE]
    BY DEF ModeClose
  <2>8. DOMAIN streams = Urls
    BY <1>1 DEF Shape
  <2>9. streams' = [streams EXCEPT ![u] = s3]
    BY <2>1, <2>2, <2>3, <2>7, <2>8
  <2> QED
    BY <2>6, <2>9
<1>6. /\ streams' \in [Urls -> {NoStream} \cup StreamOf]
      /\ FileAt(u)' = NoFile /\ RingAt(u)' = <<>> /\ Known' = Known
      /\ \A v \in Urls : v # u => /\ FileAt(v)' = FileAt(v) /\ RingAt(v)' = RingAt(v)
                                  /\ SeenAt(v)' = SeenAt(v)
  <2>1. Known \cup {u} = Known /\ s # NoStream
    BY <1>4, <1>5, Records
  <2> QED
    BY <1>1, <1>5, <2>1, SetOneStream
<1>7. released' = released \cup Names(Range(RingAt(u)) \cup HeldAt(u))
  BY <1>1, OwnedIs DEF ModeClose, Free
<1>8. Lost => Lost'
  BY <1>2 DEF Lost
<1>9. pc \notin Working /\ pc' \notin Working
  BY <1>2 DEF Working, InHandSteps, Draining
<1>10. job' \in [kind : {"mode"}, mode : RecordModes, todo : SUBSET Urls] /\ job'.todo = job.todo \ {u}
  BY <1>1, <1>2 DEF Shape
<1>11. /\ \A v \in Urls : StreamFlow(v)' /\ StreamOwners(v)' /\ StreamWhole(v)'
       /\ released' \subseteq Urls \X Nat
  BY <1>2, <1>6, <1>7, <1>8, <1>9, <1>10, EmptiedStep DEF input
<1>12. Shape'
  BY <1>1, <1>2, <1>6, <1>9, <1>10, <1>11 DEF Shape, input
<1>13. Control'
  <2>1. buf' = <<>>
    BY <1>1, <1>2 DEF Control, Draining
  <2>2. Known' \subseteq sources' /\ job'.todo \subseteq Known'
    BY <1>1, <1>2, <1>6, <1>10 DEF Control
  <2>3. ClosedFilesReported'
    BY <1>1, <1>2, <1>3, ReportsStep DEF Control
  <2> QED
    BY <1>2, <1>9, <2>1, <2>2, <2>3, IdleControl
<1> QED
  BY <1>11, <1>12, <1>13 DEF IInv

\* A file that cannot be finished ends Step: only this mode change forgets files.
LEMMA ModeCloseFailsStep ==
    ASSUME IInv, NEW u \in Urls, ModeCloseFails(u)
    PROVE  IInv'
<1>1. Shape /\ Control
  BY DEF IInv
<1>2. /\ pc = "mode" /\ pc' = "idle" /\ Active(u) /\ infos' = {} /\ mu' \in {"free", "lost"}
      /\ UNCHANGED <<mode, recording, sources, buf, stopping, input, cut, closed, reported>>
      /\ failed' = failed \cup {"mode"}
      /\ released' = released \cup Names(streams[u].file.held)
      /\ streams' = [streams EXCEPT ![u].file = NoFile]
      /\ mu = "free"
  BY <1>1 DEF ModeCloseFails, Control, Panic, Free, SetFile
<1>3. u \in Known /\ streams[u] \in StreamOf /\ streams[u].ring = <<>>
      /\ HeldAt(u) = streams[u].file.held /\ Range(RingAt(u)) = {}
  BY <1>2, HeldIsAll
<1>4. PICK s \in StreamOf : s.file = NoFile /\ s.ring = <<>> /\ streams' = [streams EXCEPT ![u] = s]
  <2>1. PICK s : s = [streams[u] EXCEPT !.file = NoFile]
    OBVIOUS
  <2>2. s \in StreamOf /\ s.file = NoFile /\ s.ring = <<>>
    BY <1>3, <2>1 DEF StreamOf
  <2>3. streams' = [streams EXCEPT ![u] = s]
    BY <1>1, <1>2, <2>1 DEF Shape
  <2> QED
    BY <2>2, <2>3
<1>5. /\ streams' \in [Urls -> {NoStream} \cup StreamOf]
      /\ FileAt(u)' = NoFile /\ RingAt(u)' = <<>> /\ Known' = Known
      /\ \A v \in Urls : v # u => /\ FileAt(v)' = FileAt(v) /\ RingAt(v)' = RingAt(v)
                                  /\ SeenAt(v)' = SeenAt(v)
  <2>1. Known \cup {u} = Known /\ s # NoStream
    BY <1>3, <1>4, Records
  <2> QED
    BY <1>1, <1>4, <2>1, SetOneStream
<1>6. released' = released \cup Names(Range(RingAt(u)) \cup HeldAt(u))
  BY <1>2, <1>3
<1>7. Lost => Lost'
  BY <1>2 DEF Lost
<1>8. pc \notin Working /\ pc' \notin Working
  BY <1>2 DEF Working, InHandSteps, Draining
<1>9. /\ \A v \in Urls : StreamFlow(v)' /\ StreamOwners(v)' /\ StreamWhole(v)'
      /\ released' \subseteq Urls \X Nat
  BY <1>2, <1>5, <1>6, <1>7, <1>8, EmptiedStep DEF input
<1>10. Shape'
  BY <1>1, <1>2, <1>5, <1>8, <1>9 DEF Shape, input, Labels
<1>11. Control'
  <2>1. buf' = <<>>
    BY <1>1, <1>2 DEF Control, Draining
  <2>2. Known' \subseteq sources'
    BY <1>1, <1>2, <1>5 DEF Control
  <2>3. ClosedFilesReported'
    BY <1>2 DEF ClosedFilesReported
  <2> QED
    BY <1>2, <1>8, <2>1, <2>2, <2>3, IdleControl
<1> QED
  BY <1>9, <1>10, <1>11 DEF IInv

\* Release closes one stream after the other.
LEMMA ReleaseStreamStep ==
    ASSUME IInv, NEW u \in Urls, ReleaseStream(u)
    PROVE  IInv'
<1>1. Shape /\ Control
  BY DEF IInv
<1>2. /\ pc = "release" /\ u \in job.todo /\ mu = "free" /\ stopping
      /\ UNCHANGED <<mode, recording, sources, mu, buf, stopping, input, cut, failed, reported>>
      /\ job' = [job EXCEPT !.todo = @ \ {u}]
  BY <1>1 DEF ReleaseStream, Control
<1>3. PICK r \in {"none", "info", "error", "panic"} :
         /\ IF Active(u) THEN FileClosed(u, r) ELSE r = "none" /\ NothingClosed
         /\ IF r = "panic"
            THEN pc' = "crashed" /\ SetFile(u, NoFile) /\ Free(streams[u].file.held)
            ELSE /\ SetStream(u, [streams[u] EXCEPT !.file = NoFile, !.ring = <<>>])
                 /\ Free(Owned(u)) /\ UNCHANGED pc
  BY CloseResultsAre DEF ReleaseStream
<1>4. u \in Known /\ streams[u] \in StreamOf
  BY <1>1, <1>2, KnownStreams DEF Control
<1>5. PICK s \in StreamOf : s.file = NoFile /\ s.ring = <<>> /\ streams' = [streams EXCEPT ![u] = s]
  <2>1. PICK s1 : s1 = [streams[u] EXCEPT !.file = NoFile]
    OBVIOUS
  <2>2. s1 \in StreamOf /\ s1.file = NoFile /\ s1.ring = streams[u].ring
    BY <1>4, <2>1 DEF StreamOf
  <2>3. CASE r = "panic"
    <3>1. Active(u) /\ streams[u].ring = <<>>
      BY <1>3, <2>3, HeldIsAll
    <3>2. streams' = [streams EXCEPT ![u] = s1]
      BY <1>1, <1>3, <2>1, <2>3 DEF Shape, SetFile
    <3> QED
      BY <2>2, <3>1, <3>2
  <2>4. CASE r # "panic"
    <3>1. PICK s2 : s2 = [s1 EXCEPT !.ring = <<>>]
      OBVIOUS
    <3>2. s2 \in StreamOf /\ s2.file = NoFile /\ s2.ring = <<>>
      <4>1. <<>> \in Seq(Pkts)
        OBVIOUS
      <4> QED
        BY <2>2, <3>1, <4>1 DEF StreamOf
    <3>3. s2 = [streams[u] EXCEPT !.file = NoFile, !.ring = <<>>]
      BY <1>4, <2>1, <3>1 DEF StreamOf
    <3>4. streams' = [streams EXCEPT ![u] = s2]
      BY <1>3, <2>4, <3>3 DEF SetStream
    <3> QED
      BY <3>2, <3>4
  <2> QED
    BY <2>3, <2>4
<1>6. /\ streams' \in [Urls -> {NoStream} \cup StreamOf]
      /\ FileAt(u)' = NoFile /\ RingAt(u)' = <<>> /\ Known' = Known
      /\ \A v \in Urls : v # u => /\ FileAt(v)' = FileAt(v) /\ RingAt(v)' = RingAt(v)
                                  /\ SeenAt(v)' = SeenAt(v)
  <2>1. Known \cup {u} = Known /\ s # NoStream
    BY <1>4, <1>5, Records
  <2> QED
    BY <1>1, <1>5, <2>1, SetOneStream
<1>7. released' = released \cup Names(Range(RingAt(u)) \cup HeldAt(u))
  <2>1. CASE r = "panic"
    BY <1>3, <2>1, HeldIsAll DEF Free
  <2>2. CASE r # "panic"
    BY <1>1, <1>3, <2>2, OwnedIs DEF Free
  <2> QED
    BY <2>1, <2>2
<1>8. Lost => Lost'
  BY <1>2, <1>3 DEF Lost
<1>9. pc \notin Working /\ pc' \notin Working /\ pc' \in {"release", "crashed"}
  BY <1>2, <1>3 DEF Working, InHandSteps, Draining
<1>10. job' \in [kind : {"release"}, todo : SUBSET Urls] /\ job'.todo = job.todo \ {u}
  BY <1>1, <1>2 DEF Shape
<1>11. /\ \A v \in Urls : StreamFlow(v)' /\ StreamOwners(v)' /\ StreamWhole(v)'
       /\ released' \subseteq Urls \X Nat
  <2>1. pc' \in {"mode", "release"} => pc' = pc /\ job'.todo = job.todo \ {u}
    BY <1>2, <1>9, <1>10
  <2> QED
    BY <1>2, <1>6, <1>7, <1>8, <1>9, <2>1, EmptiedStep DEF input
<1>12. Shape'
  BY <1>1, <1>2, <1>6, <1>9, <1>10, <1>11 DEF Shape, input, Labels
<1>13. Control'
  <2>1. buf' = <<>>
    BY <1>1, <1>2 DEF Control, Draining
  <2>2. Known' \subseteq sources' /\ job'.todo \subseteq Known'
    BY <1>1, <1>2, <1>6, <1>10 DEF Control
  <2>3. ClosedFilesReported'
    BY <1>2 DEF ClosedFilesReported
  <2>4. pc' # "idle"
    BY <1>9
  <2> QED
    BY <1>2, <1>9, <2>1, <2>2, <2>3, <2>4, IdleControl
<1> QED
  BY <1>11, <1>12, <1>13 DEF IInv

-----------------------------------------------------------------------------
(* Steps on a packet *)

\* What Step finds when it works on a packet of a source.
LEMMA Before ==
    ASSUME IInv, pc \in Working
    PROVE  /\ Shape /\ Control
           /\ Src \in Urls /\ Src \in Known /\ Pkt \in Pkts /\ Strm \in StreamOf
           /\ FileAt(Src) = File /\ RingAt(Src) = Strm.ring /\ SeenAt(Src) = Strm.seen
           /\ Active(Src) <=> File # NoFile
           /\ File # NoFile => File \in FileOf
           /\ mode # "never" /\ mu = "free" /\ got[Src] \in Nat
           /\ StreamFlow(Src) /\ StreamOwners(Src) /\ StreamWhole(Src)
<1>1. Shape /\ Control
  BY DEF IInv
<1>2. Src \in Urls /\ Pkt \in Pkts
  BY <1>1 DEF Shape, Src, Pkt, Pkts
<1>3. Src \in Known /\ mode # "never" /\ mu = "free"
  <2>1. pc # "idle"
    BY DEF Working, InHandSteps, Draining
  <2> QED
    BY <1>1, <2>1 DEF Control
<1>4. Strm \in StreamOf
  BY <1>1, <1>3, KnownStreams DEF Strm
<1>5. FileAt(Src) = File /\ RingAt(Src) = Strm.ring /\ SeenAt(Src) = Strm.seen
  <2>1. Strm.seen \in BOOLEAN
    BY <1>4 DEF StreamOf
  <2> QED
    BY <1>3, <2>1 DEF FileAt, RingAt, SeenAt, File, Strm
<1>6. (Active(Src) <=> File # NoFile) /\ (File # NoFile => File \in FileOf)
  BY <1>1, <1>2, <1>5, ViewTypes
<1>7. got[Src] \in Nat
  BY <1>1, <1>2 DEF Shape
<1>8. StreamFlow(Src) /\ StreamOwners(Src) /\ StreamWhole(Src)
  BY <1>2 DEF IInv
<1> QED
  BY <1>1, <1>2, <1>3, <1>4, <1>5, <1>6, <1>7, <1>8

\* The packets of the source at hand, and how far its files and ring may reach.
LEMMA BeforePackets ==
    ASSUME IInv, pc \in Working
    PROVE  /\ Passing(Src) = (IF pc \in InHandSteps THEN {Pkt} ELSE {})
                             \cup (IF pc \in Draining THEN Range(buf) ELSE {})
           /\ HeldAt(Src) = IF File = NoFile THEN {} ELSE File.held
           /\ UsedOf(Src) = Range(Strm.ring) \cup HeldAt(Src) \cup Passing(Src)
           /\ \A p \in UsedOf(Src) : p \in Pkts /\ p.id \in Nat \ {0} /\ p.id <= got[Src]
           /\ Upto(Src) = IF pc \in InHandSteps THEN got[Src] - 1
                          ELSE IF pc \in Draining /\ buf # <<>> THEN buf[1].id - 1 ELSE got[Src]
           /\ Upto(Src) \in Int /\ Upto(Src) <= got[Src]
<1>1. /\ Shape /\ Control /\ Src \in Urls /\ Pkt \in Pkts /\ FileAt(Src) = File
      /\ RingAt(Src) = Strm.ring /\ StreamOwners(Src) /\ got[Src] \in Nat
  BY Before
<1>2. (At(Src, InHandSteps) <=> pc \in InHandSteps) /\ (At(Src, Draining) <=> pc \in Draining)
  BY DEF At
<1>3. Passing(Src) = (IF pc \in InHandSteps THEN {Pkt} ELSE {})
                     \cup (IF pc \in Draining THEN Range(buf) ELSE {})
  BY <1>2 DEF Passing
<1>4. HeldAt(Src) = IF File = NoFile THEN {} ELSE File.held
  BY <1>1 DEF HeldAt
<1>5. UsedOf(Src) = Range(Strm.ring) \cup HeldAt(Src) \cup Passing(Src)
  BY <1>1 DEF UsedOf
<1>6. \A p \in UsedOf(Src) : p \in Pkts /\ p.id \in Nat \ {0} /\ p.id <= got[Src]
  <2>1. HeldAt(Src) \subseteq Pkts /\ Range(Strm.ring) \subseteq Pkts
    BY <1>1, ViewTypes DEF Range
  <2>2. Passing(Src) \subseteq Pkts
    BY <1>1, <1>3 DEF Shape, Range
  <2>3. \A p \in UsedOf(Src) : p \in Pkts /\ p.id <= got[Src]
    BY <1>1, <1>5, <2>1, <2>2 DEF StreamOwners
  <2> QED
    BY <2>3 DEF Pkts
<1>7. Upto(Src) = IF pc \in InHandSteps THEN got[Src] - 1
                  ELSE IF pc \in Draining /\ buf # <<>> THEN buf[1].id - 1 ELSE got[Src]
  BY <1>2 DEF Upto
<1>8. pc \in Draining /\ buf # <<>> => buf[1].id \in Nat /\ buf[1].id <= got[Src]
  <2> SUFFICES ASSUME pc \in Draining, buf # <<>>
               PROVE  buf[1].id \in Nat /\ buf[1].id <= got[Src]
    OBVIOUS
  <2>1. buf \in Seq(Pkts) /\ 1 \in DOMAIN buf
    BY <1>1, EmptyIsLengthZero DEF Shape
  <2>2. buf[1] \in Range(buf)
    BY <2>1 DEF Range
  <2>3. buf[1] \in UsedOf(Src)
    BY <1>3, <1>5, <2>2
  <2> QED
    BY <1>6, <2>3
<1>9. Upto(Src) \in Int /\ Upto(Src) <= got[Src]
  BY <1>1, <1>7, <1>8
<1> QED
  BY <1>3, <1>4, <1>5, <1>6, <1>7, <1>9

\* A step on a packet of u: its stream becomes s, the packets G are given back.
Worked(u, s, G) ==
    /\ u = Src
    /\ streams' = [streams EXCEPT ![u] = s]
    /\ released' = released \cup Names(G)
    /\ UNCHANGED <<mode, sources, stopping, got, time, par, reported>>
    /\ cut \subseteq cut' /\ failed \subseteq failed'
    /\ pc' \in Working \cup {"idle", "send"}
    /\ pc' \in Working => job' = job
    /\ pc' \in InHandSteps => pc \in InHandSteps
    /\ mu' = "free" \/ (mu' = "lost" /\ pc' = "idle")
    /\ recording' \in BOOLEAN
    /\ \A v \in Urls : v # u /\ FileAt(v) # NoFile => recording'
    /\ buf' \in Seq(Pkts)

\* What it leaves behind: the streams, and the packets of u.
LEMMA AfterStreams ==
    ASSUME IInv, pc \in Working, NEW u \in Urls, NEW s \in StreamOf, NEW G, Worked(u, s, G)
    PROVE  /\ streams' \in [Urls -> {NoStream} \cup StreamOf]
           /\ FileAt(u)' = s.file /\ RingAt(u)' = s.ring /\ SeenAt(u)' = s.seen /\ Known' = Known
           /\ \A v \in Urls : v # u => /\ FileAt(v)' = FileAt(v) /\ RingAt(v)' = RingAt(v)
                                       /\ SeenAt(v)' = SeenAt(v)
<1>1. Shape /\ u \in Known /\ s # NoStream /\ Known \cup {u} = Known
  BY Before, Records DEF Worked
<1>2. streams' = [streams EXCEPT ![u] = s]
  BY DEF Worked
<1> QED
  BY <1>1, <1>2, SetOneStream

\* Where Step is after it, and with which packet.
LEMMA AfterSteps ==
    ASSUME NEW u \in Urls, NEW s, NEW G, Worked(u, s, G)
    PROVE  /\ pc' \in Working => Src' = u /\ Pkt' = Pkt
           /\ \A L \in SUBSET Working : (At(u, L)' <=> pc' \in L)
<1>1. pc' \in Working => Src' = u /\ Pkt' = Pkt
  BY DEF Worked, Src, Pkt
<1>2. \A L \in SUBSET Working : (At(u, L)' <=> pc' \in L)
  BY <1>1 DEF At
<1> QED
  BY <1>1, <1>2

\* The packets of u after it.
LEMMA AfterPackets ==
    ASSUME IInv, pc \in Working, NEW u \in Urls, NEW s \in StreamOf, NEW G, Worked(u, s, G)
    PROVE  /\ HeldAt(u)' = IF s.file = NoFile THEN {} ELSE s.file.held
           /\ Passing(u)' = (IF pc' \in InHandSteps THEN {Pkt} ELSE {})
                            \cup (IF pc' \in Draining THEN Range(buf') ELSE {})
           /\ UsedOf(u)' = Range(s.ring) \cup (IF s.file = NoFile THEN {} ELSE s.file.held)
                           \cup Passing(u)'
           /\ Upto(u)' = IF pc' \in InHandSteps THEN got[u] - 1
                         ELSE IF pc' \in Draining /\ buf' # <<>> THEN buf'[1].id - 1 ELSE got[u]
<1>1. FileAt(u)' = s.file /\ RingAt(u)' = s.ring
  BY AfterStreams
<1>2. HeldAt(u)' = IF s.file = NoFile THEN {} ELSE s.file.held
  BY <1>1 DEF HeldAt
<1>3. InHandSteps \in SUBSET Working /\ Draining \in SUBSET Working
  BY DEF Working
<1>4. (At(u, InHandSteps)' <=> pc' \in InHandSteps) /\ (At(u, Draining)' <=> pc' \in Draining)
  BY <1>3, AfterSteps
<1>5. Passing(u)' = (IF pc' \in InHandSteps THEN {Pkt} ELSE {})
                    \cup (IF pc' \in Draining THEN Range(buf') ELSE {})
  <2>1. pc' \in InHandSteps => Pkt' = Pkt
    BY <1>3, AfterSteps
  <2>2. Range(buf)' = Range(buf')
    BY DEF Range
  <2> QED
    BY <1>4, <2>1, <2>2 DEF Passing
<1>6. UsedOf(u)' = Range(s.ring) \cup (IF s.file = NoFile THEN {} ELSE s.file.held) \cup Passing(u)'
  <2>1. Range(RingAt(u))' = Range(s.ring)
    BY <1>1 DEF Range
  <2> QED
    BY <1>2, <2>1 DEF UsedOf
<1>7. Upto(u)' = IF pc' \in InHandSteps THEN got[u] - 1
                 ELSE IF pc' \in Draining /\ buf' # <<>> THEN buf'[1].id - 1 ELSE got[u]
  <2>1. got' = got
    BY DEF Worked
  <2> QED
    BY <1>4, <2>1 DEF Upto
<1> QED
  BY <1>2, <1>5, <1>6, <1>7

\* The other streams need no more than that; the one at hand is to be accounted
\* for by each action.
LEMMA WorkStep ==
    ASSUME IInv, pc \in Working, NEW u \in Urls, NEW s \in StreamOf, NEW G, Worked(u, s, G),
           G \subseteq UsedOf(u), UsedOf(u)' \subseteq UsedOf(u), UsedOf(u)' \cap G = {},
           Lost' \/ UsedOf(u) \subseteq UsedOf(u)' \cup G,
           Passing(u)' \cap (Range(RingAt(u)) \cup HeldAt(u))' = {},
           Ordered(s.ring), StreamFlow(u)', StreamWhole(u)', Control'
    PROVE  IInv'
<1>1. Shape /\ \A v \in Urls : StreamFlow(v) /\ StreamOwners(v) /\ StreamWhole(v)
  BY DEF IInv
<1>2. u = Src /\ mu = "free" /\ mode # "never"
  BY Before DEF Worked
<1>3. /\ streams' \in [Urls -> {NoStream} \cup StreamOf] /\ RingAt(u)' = s.ring
      /\ \A v \in Urls : v # u => /\ FileAt(v)' = FileAt(v) /\ RingAt(v)' = RingAt(v)
                                  /\ SeenAt(v)' = SeenAt(v)
  BY AfterStreams
<1>9. pc' \in Working => Src' = u /\ Pkt' = Pkt
  BY AfterSteps
<1>4. Lost => Lost'
  <2>1. pc # "crashed"
    BY DEF Working, InHandSteps, Draining
  <2> QED
    BY <1>2, <2>1 DEF Lost, Worked
<1>5. At(u, InHandSteps)' => Pkt'.id = got[u]
  <2>1. At(u, InHandSteps)' => pc' \in InHandSteps /\ pc \in InHandSteps /\ pc' \in Working
    BY DEF At, Worked, Working
  <2>2. pc \in InHandSteps => Pkt.id = got[u]
    BY <1>1, <1>2 DEF StreamOwners, At
  <2> QED
    BY <1>9, <2>1, <2>2
<1>6. /\ StreamOwners(u)' /\ released' \subseteq Urls \X Nat
      /\ \A v \in Urls : v # u =>
            \A i \in Nat : <<v, i>> \in released' <=> <<v, i>> \in released
  <2>1. released' = released \cup Names(G) /\ got' = got
    BY DEF Worked
  <2>2. Ordered(RingAt(u))'
    BY <1>3 DEF Ordered
  <2>3. Lost' \/ (~ Lost /\ UsedOf(u) \subseteq UsedOf(u)' \cup G)
    BY <1>4
  <2> QED
    BY <1>1, <1>5, <2>1, <2>2, <2>3, GivesBack
<1>7. ASSUME NEW v \in Urls, v # u
      PROVE  StreamFlow(v)' /\ StreamOwners(v)' /\ StreamWhole(v)'
  <2>1. ~ At(v, Working) /\ ~ At(v, Working)'
    BY <1>2, <1>7, <1>9 DEF At
  <2>2. pc' \notin {"mode", "release"}
    BY DEF Worked, Working, InHandSteps, Draining
  <2>3. got'[v] = got[v] /\ mode' = mode /\ cut \subseteq cut' /\ failed \subseteq failed'
    BY DEF Worked
  <2>4. FileAt(v) # NoFile => recording'
    BY <1>7 DEF Worked
  <2> QED
    BY <1>1, <1>3, <1>4, <1>6, <1>7, <2>1, <2>2, <2>3, <2>4, OtherStream
<1>8. Shape'
  <2>1. pc' \in Labels /\ pc' \notin {"mode", "release"} /\ mu' \in {"free", "lost"}
    BY DEF Worked, Labels, Working, InHandSteps, Draining
  <2>2. pc' \in Working => job' \in [kind : {"pkt"}, pkt : Pkts]
    BY <1>1 DEF Shape, Worked
  <2>3. /\ recording' \in BOOLEAN /\ buf' \in Seq(Pkts)
        /\ UNCHANGED <<mode, got, time, par>>
    BY DEF Worked
  <2> QED
    BY <1>1, <1>3, <1>6, <2>1, <2>2, <2>3 DEF Shape
<1> QED
  BY <1>6, <1>7, <1>8 DEF IInv

\* What the invariant asks of the stream s that a step leaves.
LEMMA AfterFlow ==
    ASSUME IInv, pc \in Working, NEW u \in Urls, NEW s \in StreamOf, NEW G, Worked(u, s, G),
           s.file # NoFile =>
              s.seen /\ s.ring = <<>> /\ recording' /\ s.file.last \subseteq s.file.held,
           s.ring # <<>> => s.seen /\ mode = "event",
           pc' \in {"write", "flush", "drain", "drainFlush", "drainEnd"} => s.file # NoFile,
           pc' \in {"open", "drainOpen", "drainNext"} => s.file = NoFile /\ s.ring = <<>>,
           pc' \in {"drain", "drainFlush", "drainEnd"} => ~ s.file.damaged,
           pc' \in Working \ {"codec", "handle"} => s.seen,
           pc' = "handle" /\ infos' # {} => s.seen
    PROVE  StreamFlow(u)'
<1>1. FileAt(u)' = s.file /\ RingAt(u)' = s.ring /\ SeenAt(u)' = s.seen
  BY AfterStreams
<1>2. \A L \in SUBSET Working : (At(u, L)' <=> pc' \in L)
  BY AfterSteps
<1>3. /\ At(u, {"write", "flush", "drain", "drainFlush", "drainEnd"})' <=>
             pc' \in {"write", "flush", "drain", "drainFlush", "drainEnd"}
      /\ At(u, {"open", "drainOpen", "drainNext"})' <=> pc' \in {"open", "drainOpen", "drainNext"}
      /\ At(u, {"drain", "drainFlush", "drainEnd"})' <=> pc' \in {"drain", "drainFlush", "drainEnd"}
      /\ At(u, Working \ {"codec", "handle"})' <=> pc' \in Working \ {"codec", "handle"}
      /\ At(u, {"handle"})' <=> pc' \in {"handle"}
  <2>1. /\ {"write", "flush", "drain", "drainFlush", "drainEnd"} \in SUBSET Working
        /\ {"open", "drainOpen", "drainNext"} \in SUBSET Working
        /\ {"drain", "drainFlush", "drainEnd"} \in SUBSET Working
        /\ Working \ {"codec", "handle"} \in SUBSET Working
        /\ {"handle"} \in SUBSET Working
    BY DEF Working, InHandSteps, Draining
  <2> QED
    BY <1>2, <2>1
<1>4. pc' \notin {"mode", "release"}
  BY DEF Worked, Working, InHandSteps, Draining
<1>5. mode' = mode /\ mode # "never"
  BY Before DEF Worked
<1> QED
  BY <1>1, <1>3, <1>4, <1>5 DEF StreamFlow

\* No hole in what it leaves: ring, pre-buffer in the drain and file.
LEMMA AfterWhole ==
    ASSUME IInv, pc \in Working, NEW u \in Urls, NEW s \in StreamOf, NEW G, Worked(u, s, G),
           s.ring # <<>> =>
              \A i \in s.ring[1].id .. Upto(u)' : i \in IdsOf(s.ring) \/ <<u, i>> \in cut',
           pc' \in Draining /\ buf' # <<>> =>
              \A i \in buf'[1].id .. got[u] : i \in IdsOf(buf') \/ <<u, i>> \in cut',
           s.file # NoFile => FileWhole(u, s.file)'
    PROVE  StreamWhole(u)'
<1>1. FileAt(u)' = s.file /\ RingAt(u)' = s.ring
  BY AfterStreams
<1>2. At(u, Draining)' => pc' \in Draining
  BY DEF At
<1>3. got' = got
  BY DEF Worked
<1>4. IdsOf(RingAt(u))' = IdsOf(s.ring) /\ IdsOf(buf)' = IdsOf(buf')
  BY <1>1 DEF IdsOf, Range
<1>5. RingAt(u)' # <<>> => Covers(IdsOf(RingAt(u)), u, RingAt(u)[1].id, Upto(u))'
  BY <1>1, <1>4 DEF Covers
<1>6. At(u, Draining)' /\ buf' # <<>> => Covers(IdsOf(buf), u, buf[1].id, got[u])'
  BY <1>2, <1>3, <1>4 DEF Covers
<1>7. FileAt(u)' # NoFile => FileWhole(u, FileAt(u))'
  BY <1>1 DEF FileWhole, Covers
<1> QED
  BY <1>5, <1>6, <1>7 DEF StreamWhole

\* A file that is written to no more has no new hole.
LEMMA FileStays ==
    ASSUME NEW u, NEW f, FileWhole(u, f), f.ids # {}, NEW g, g.ids = f.ids, g.start = f.start,
           Upto(u)' = Upto(u), cut \subseteq cut', failed \subseteq failed'
    PROVE  FileWhole(u, g)'
BY DEF FileWhole, Covers

\* A step that leaves the stream with nothing and gives all of it back, or panics.
LEMMA StreamEnds ==
    ASSUME IInv, pc \in Working, NEW u \in Urls, NEW s \in StreamOf, NEW G, Worked(u, s, G),
           s.file = NoFile, s.ring = <<>>, pc' \in {"idle", "send"}, buf' = <<>>,
           G \subseteq UsedOf(u), mu' = "lost" \/ G = UsedOf(u),
           pc' = "idle" => infos' = {}, ClosedFilesReported'
    PROVE  IInv'
<1>1. pc' \notin Working /\ Shape /\ Control
  BY Before DEF Working, InHandSteps, Draining
<1>2. Passing(u)' = {} /\ UsedOf(u)' = {}
  <2>1. pc' \notin InHandSteps /\ pc' \notin Draining
    BY <1>1 DEF Working
  <2>2. Range(s.ring) = {}
    BY DEF Range
  <2>3. Passing(u)' = (IF pc' \in InHandSteps THEN {Pkt} ELSE {})
                      \cup (IF pc' \in Draining THEN Range(buf') ELSE {})
    BY AfterPackets
  <2>4. UsedOf(u)' = Range(s.ring) \cup (IF s.file = NoFile THEN {} ELSE s.file.held)
                     \cup Passing(u)'
    BY AfterPackets
  <2> QED
    BY <2>1, <2>2, <2>3, <2>4
<1>3. StreamFlow(u)'
  <2>1. \A x \in Working : pc' # x
    BY <1>1
  <2>2. pc' \notin {"write", "flush", "drain", "drainFlush", "drainEnd", "open", "drainOpen",
                    "drainNext", "handle"}
    OBVIOUS
  <2>3. pc' \notin Working \ {"codec", "handle"}
    BY <1>1
  <2> QED
    BY <2>2, <2>3, AfterFlow
<1>4. StreamWhole(u)'
  BY AfterWhole
<1>5. Control'
  <2>1. mu' = "free" \/ pc' = "idle"
    BY DEF Worked
  <2>2. Known' \subseteq sources'
    <3>1. Known' = Known /\ sources' = sources
      BY AfterStreams DEF Worked
    <3> QED
      BY <1>1, <3>1 DEF Control
  <2> QED
    BY <1>1, <2>1, <2>2, IdleControl
<1>6. Ordered(s.ring)
  BY DEF Ordered
<1>7. Lost' \/ UsedOf(u) \subseteq UsedOf(u)' \cup G
  BY DEF Lost
<1> QED
  BY <1>2, <1>3, <1>4, <1>5, <1>6, <1>7, WorkStep

\* What Step knows where it goes on with the packet, or with the pre-buffer.
LEMMA WorkControl ==
    ASSUME IInv, pc \in Working, NEW u \in Urls, NEW s \in StreamOf, NEW G, Worked(u, s, G),
           pc' \in Working \ {"codec"}, buf' # <<>> => pc' \in Draining,
           pc' \in {"drainOpen", "drain", "drainNext"} => buf' # <<>>, Ordered(buf'),
           pc' = "drainOpen" => Key(buf'[Len(buf')]), pc' = "drainNext" => Key(buf'[1]),
           pc' = "open" => Key(Pkt) /\ (recording' \/ mode = "always"),
           pc' \in {"drain", "drainNext", "drainFlush", "drainEnd"} => recording',
           ClosedFilesReported'
    PROVE  Control'
<1>1. Control /\ mode # "never" /\ Src \in Known /\ u = Src
  BY Before DEF Worked
<1>2. pc' \in Working /\ pc' \notin {"idle", "mode", "release", "closed", "crashed", "codec"}
  BY DEF Working, InHandSteps, Draining
<1>3. Known' = Known /\ sources' = sources /\ mode' = mode /\ Src' = u /\ Pkt' = Pkt
  BY <1>2, AfterStreams, AfterSteps DEF Worked
<1>4. mu' = "free"
  BY <1>2 DEF Worked
<1>5. Ordered(buf)'
  BY DEF Ordered
<1>6. Known' \subseteq sources'
  BY <1>1, <1>3 DEF Control
<1>7. pc' = "open" => Key(Pkt)'
  BY <1>3 DEF Key
<1>8. pc' = "drainOpen" => Key(buf[Len(buf)])'
  BY DEF Key
<1>9. pc' = "drainNext" => Key(buf[1])'
  BY DEF Key
<1> QED
  BY <1>1, <1>2, <1>3, <1>4, <1>5, <1>6, <1>7, <1>8, <1>9 DEF Control

\* Step goes on with the packet it holds; its file stays or is finished.
LEMMA PacketMoves ==
    ASSUME IInv, pc \in {"codec", "handle"}, NEW u \in Urls, NEW s \in StreamOf, NEW G,
           Worked(u, s, G), pc' \in {"handle", "open", "write"}, buf' = <<>>,
           \/ s.file = File /\ G = {}
           \/ s.file = NoFile /\ G = HeldAt(u),
           s.ring = Strm.ring, Strm.seen => s.seen, pc' # "handle" => s.seen,
           s.file # NoFile => recording',
           pc' = "write" => s.file # NoFile,
           pc' = "open" => /\ s.file = NoFile /\ s.ring = <<>>
                           /\ Key(Pkt) /\ (recording' \/ mode = "always"),
           pc' = "handle" /\ infos' # {} => s.seen,
           ClosedFilesReported'
    PROVE  IInv'
<1>1. /\ pc \in Working /\ pc \in InHandSteps /\ pc \notin Draining
      /\ pc' \in Working /\ pc' \in InHandSteps /\ pc' \notin Draining /\ pc' # "codec"
  BY DEF Working, InHandSteps, Draining
<1>2. /\ u = Src /\ FileAt(u) = File /\ RingAt(u) = Strm.ring /\ SeenAt(u) = Strm.seen
      /\ StreamFlow(u) /\ StreamOwners(u) /\ StreamWhole(u)
  BY <1>1, Before DEF Worked
<1>3. /\ Passing(u) = {Pkt} /\ HeldAt(u) = (IF File = NoFile THEN {} ELSE File.held)
      /\ UsedOf(u) = Range(s.ring) \cup HeldAt(u) \cup {Pkt}
      /\ Upto(u) = got[u] - 1
  BY <1>1, <1>2, BeforePackets
<1>4. /\ Passing(u)' = {Pkt} /\ Upto(u)' = got[u] - 1
      /\ UsedOf(u)' = Range(s.ring) \cup (IF s.file = NoFile THEN {} ELSE s.file.held) \cup {Pkt}
      /\ HeldAt(u)' = IF s.file = NoFile THEN {} ELSE s.file.held
      /\ RingAt(u)' = s.ring
  BY <1>1, AfterPackets, AfterStreams
<1>5. {Pkt} \cap (Range(s.ring) \cup HeldAt(u)) = {}
  BY <1>2, <1>3 DEF StreamOwners
<1>6. s.file = NoFile => Range(s.ring) \cap HeldAt(u) = {}
  <2>1. CASE File = NoFile
    BY <1>3, <2>1
  <2>2. CASE File # NoFile
    BY <1>2, <2>2 DEF StreamFlow, Range
  <2> QED
    BY <2>1, <2>2
<1>7. /\ G \subseteq UsedOf(u) /\ UsedOf(u)' \subseteq UsedOf(u) /\ UsedOf(u)' \cap G = {}
      /\ UsedOf(u) \subseteq UsedOf(u)' \cup G
      /\ Passing(u)' \cap (Range(RingAt(u)) \cup HeldAt(u))' = {}
  <2>1. Range(RingAt(u))' = Range(s.ring)
    BY <1>4 DEF Range
  <2>2. CASE s.file = File /\ G = {}
    BY <1>3, <1>4, <1>5, <2>1, <2>2
  <2>3. CASE s.file = NoFile /\ G = HeldAt(u)
    BY <1>3, <1>4, <1>5, <1>6, <2>1, <2>3
  <2> QED
    BY <2>2, <2>3
<1>8. Ordered(s.ring)
  BY <1>2 DEF StreamOwners
<1>9. StreamFlow(u)'
  <2>1. s.file # NoFile => s.file = File
    OBVIOUS
  <2>2. s.file # NoFile =>
           s.seen /\ s.ring = <<>> /\ recording' /\ s.file.last \subseteq s.file.held
    BY <1>2, <2>1 DEF StreamFlow
  <2>3. s.ring # <<>> => s.seen /\ mode = "event"
    BY <1>2 DEF StreamFlow
  <2>4. /\ pc' \in {"write", "flush", "drain", "drainFlush", "drainEnd"} => s.file # NoFile
        /\ pc' \in {"open", "drainOpen", "drainNext"} => s.file = NoFile /\ s.ring = <<>>
        /\ pc' \notin {"drain", "drainFlush", "drainEnd"}
        /\ pc' \in Working \ {"codec", "handle"} => s.seen
    OBVIOUS
  <2> QED
    BY <1>1, <2>2, <2>3, <2>4, AfterFlow
<1>10. StreamWhole(u)'
  <2>1. cut \subseteq cut' /\ failed \subseteq failed'
    BY DEF Worked
  <2>2. s.ring # <<>> =>
           \A i \in s.ring[1].id .. Upto(u)' : i \in IdsOf(s.ring) \/ <<u, i>> \in cut'
    BY <1>2, <1>3, <1>4, <2>1 DEF StreamWhole, Covers
  <2>3. s.file # NoFile => FileWhole(u, s.file)'
    <3> SUFFICES ASSUME s.file # NoFile PROVE FileWhole(u, s.file)'
      OBVIOUS
    <3>1. s.file = File /\ FileWhole(u, File)
      BY <1>2 DEF StreamWhole
    <3>2. File.ids # {}
      BY <3>1 DEF FileWhole, At
    <3> QED
      BY <1>3, <1>4, <2>1, <3>1, <3>2, FileStays
  <2> QED
    BY <1>1, <2>2, <2>3, AfterWhole
<1>11. Control'
  <2>1. Ordered(buf')
    BY DEF Ordered
  <2>2. pc' \notin {"drainOpen", "drain", "drainNext", "drainFlush", "drainEnd"}
    OBVIOUS
  <2> QED
    BY <1>1, <2>1, <2>2, WorkControl
<1> QED
  BY <1>1, <1>7, <1>8, <1>9, <1>10, <1>11, WorkStep

\* To set the file of a stream is to set the stream.
LEMMA SetFileIs ==
    ASSUME Shape, NEW u \in Urls, NEW f, SetFile(u, f)
    PROVE  streams' = [streams EXCEPT ![u] = [streams[u] EXCEPT !.file = f]]
BY DEF Shape, SetFile

\* Streams without a file, or with one, that have seen a keyframe.
LEMMA StreamFields ==
    ASSUME NEW s \in StreamOf, NEW f \in {NoFile} \cup FileOf, NEW b \in BOOLEAN
    PROVE  \E t \in StreamOf :
              /\ t = [s EXCEPT !.file = f, !.seen = b]
              /\ t.file = f /\ t.seen = b /\ t.ring = s.ring
<1>1. PICK r : r = [s EXCEPT !.file = f]
  OBVIOUS
<1>2. r \in StreamOf /\ r.file = f /\ r.ring = s.ring
  BY <1>1 DEF StreamOf
<1>3. PICK t : t = [r EXCEPT !.seen = b]
  OBVIOUS
<1>4. t \in StreamOf /\ t.file = f /\ t.ring = s.ring /\ t.seen = b
  BY <1>2, <1>3 DEF StreamOf
<1>5. t = [s EXCEPT !.file = f, !.seen = b]
  BY <1>1, <1>3 DEF StreamOf
<1> QED
  BY <1>4, <1>5

\* The files that were closed are accounted for when Step goes on or returns.
LEMMA ReportsWork ==
    ASSUME IInv, pc \in Working, NEW r, FileClosed(Src, r), r = "panic" => mu' = "lost",
           UNCHANGED <<stopping, reported>>, failed \subseteq failed'
    PROVE  ClosedFilesReported' /\ (r = "panic" => infos' = {})
<1>1. ClosedFilesReported /\ mu = "free"
  BY Before DEF Control
<1>2. ClosedFilesReported'
  BY <1>1, ReportsStep
<1> QED
  BY <1>2, FileClosedIs

\* New parameters of a codec end the file.
LEMMA CodecParametersStep ==
    ASSUME IInv, CodecParameters
    PROVE  IInv'
<1>1. pc = "codec" /\ pc \in Working /\ pc \in InHandSteps /\ pc \notin Draining
  BY DEF CodecParameters, Working, InHandSteps, Draining
<1>2. /\ Shape /\ Control /\ Src \in Urls /\ Pkt \in Pkts /\ Strm \in StreamOf
      /\ Active(Src) <=> File # NoFile
      /\ mu = "free" /\ StreamFlow(Src) /\ StreamOwners(Src)
      /\ FileAt(Src) = File /\ RingAt(Src) = Strm.ring /\ SeenAt(Src) = Strm.seen
  BY <1>1, Before
<1>3. PICK u \in Urls : u = Src
  BY <1>2
<1>4. /\ UNCHANGED <<mode, sources, stopping, got, time, par, reported, recording, buf, cut, failed>>
      /\ buf = <<>> /\ buf' \in Seq(Pkts) /\ infos = {} /\ recording \in BOOLEAN
  BY <1>1, <1>2 DEF CodecParameters, rest, input, Control, Shape
<1>5. \A v \in Urls : v # u /\ FileAt(v) # NoFile => recording'
  BY <1>4 DEF IInv, StreamFlow
<1>6. PICK w \in StreamOf :
         /\ w = IF Video(Pkt) THEN [Strm EXCEPT !.par = Pkt.par] ELSE [Strm EXCEPT !.audio = TRUE]
         /\ w.file = File /\ w.ring = Strm.ring /\ w.seen = Strm.seen
  <2>1. Pkt.par \in Nat
    BY <1>2 DEF Pkts
  <2>2. CASE Video(Pkt)
    <3>1. PICK w : w = [Strm EXCEPT !.par = Pkt.par]
      OBVIOUS
    <3>2. w \in StreamOf /\ w.file = File /\ w.ring = Strm.ring /\ w.seen = Strm.seen
      BY <1>2, <2>1, <3>1 DEF StreamOf, File
    <3> QED
      BY <2>2, <3>1, <3>2
  <2>3. CASE ~ Video(Pkt)
    <3>1. PICK w : w = [Strm EXCEPT !.audio = TRUE]
      OBVIOUS
    <3>2. w \in StreamOf /\ w.file = File /\ w.ring = Strm.ring /\ w.seen = Strm.seen
      BY <1>2, <3>1 DEF StreamOf, File
    <3> QED
      BY <2>3, <3>1, <3>2
  <2> QED
    BY <2>2, <2>3
<1> DEFINE Closes(r) ==
           /\ Active(u) /\ FileClosed(u, r)
           /\ Free(File.held \cup IF r = "error" THEN {Pkt} ELSE {})
           /\ SetStream(u, [w EXCEPT !.file = NoFile])
           /\ IF r = "panic" THEN Panic /\ job' = NoJob
              ELSE Finish(IF r = "error" THEN "idle" ELSE "handle") /\ UNCHANGED mu
<1>7. \/ \E r \in CloseResults(File, ShortFile) : Closes(r)
      \/ /\ SetStream(u, w) /\ Finish("handle")
         /\ UNCHANGED <<mu, released>> /\ NothingClosed
  BY <1>3, <1>6, Zenon DEF CodecParameters
<1>8. ASSUME NEW r \in CloseResults(File, ShortFile), Closes(r)
      PROVE  IInv'
  <2>1. /\ Active(u) /\ FileClosed(u, r)
        /\ Free(File.held \cup IF r = "error" THEN {Pkt} ELSE {})
        /\ SetStream(u, [w EXCEPT !.file = NoFile])
        /\ IF r = "panic" THEN Panic /\ job' = NoJob
           ELSE Finish(IF r = "error" THEN "idle" ELSE "handle") /\ UNCHANGED mu
    BY <1>8
  <2>2. r \in {"none", "info", "error", "panic"}
    BY CloseResultsAre
  <2>3. PICK s : s = [w EXCEPT !.file = NoFile]
    OBVIOUS
  <2>4. s \in StreamOf /\ s.file = NoFile /\ s.ring = Strm.ring /\ s.seen = Strm.seen
    BY <1>6, <2>3 DEF StreamOf
  <2>5. s.ring = <<>> /\ s.seen /\ Range(s.ring) = {}
    BY <1>2, <1>3, <2>1, <2>4 DEF StreamFlow, Range
  <2>6. UsedOf(u) = File.held \cup {Pkt} /\ HeldAt(u) = File.held
    BY <1>1, <1>2, <1>3, <2>1, <2>4, <2>5, BeforePackets
  <2>7. PICK G : G = File.held \cup IF r = "error" THEN {Pkt} ELSE {}
    OBVIOUS
  <2>8. /\ pc' = (IF r \in {"error", "panic"} THEN "idle" ELSE "handle")
        /\ r = "panic" => mu' = "lost"
        /\ r # "panic" => mu' = "free"
        /\ pc' = "handle" => job' = job
    BY <1>2, <2>1, <2>2 DEF Panic, Finish
  <2>9. Worked(u, s, G)
    <3>1. pc' \in Working \cup {"idle", "send"} /\ (pc' \in Working => job' = job)
          /\ (pc' \in InHandSteps => pc \in InHandSteps)
      BY <1>1, <2>8 DEF Working, InHandSteps, Draining
    <3>2. mu' = "free" \/ (mu' = "lost" /\ pc' = "idle")
      BY <2>2, <2>8
    <3>3. streams' = [streams EXCEPT ![u] = s] /\ released' = released \cup Names(G)
      BY <2>1, <2>3, <2>7 DEF SetStream, Free
    <3> QED
      BY <1>3, <1>4, <1>5, <3>1, <3>2, <3>3 DEF Worked
  <2>10. ClosedFilesReported' /\ (r = "panic" => infos' = {})
    BY <1>1, <1>3, <1>4, <2>1, <2>8, ReportsWork
  <2>11. r = "error" => infos' = {}
    BY <1>4, <2>1, FileClosedIs
  <2>12. CASE r \in {"error", "panic"}
    <3>1. G \subseteq UsedOf(u) /\ (mu' = "lost" \/ G = UsedOf(u))
      BY <2>6, <2>7, <2>8, <2>12
    <3> QED
      BY <1>1, <1>4, <2>4, <2>5, <2>8, <2>9, <2>10, <2>11, <2>12, <3>1, StreamEnds
  <2>13. CASE r \in {"none", "info"}
    <3>1. G = HeldAt(u) /\ pc' = "handle"
      BY <2>6, <2>7, <2>8, <2>13
    <3> QED
      BY <1>1, <1>4, <2>4, <2>5, <2>9, <2>10, <3>1, PacketMoves
  <2> QED
    BY <2>2, <2>12, <2>13
<1>9. CASE /\ SetStream(u, w) /\ Finish("handle")
           /\ UNCHANGED <<mu, released>> /\ NothingClosed
  <2>1. /\ NothingClosed /\ pc' = "handle" /\ job' = job /\ mu' = mu
        /\ released' = released /\ streams' = [streams EXCEPT ![u] = w]
    BY <1>9 DEF Finish, SetStream
  <2>2. Worked(u, w, {})
    <3>1. pc' \in Working \cup {"idle", "send"} /\ (pc' \in Working => job' = job)
          /\ (pc' \in InHandSteps => pc \in InHandSteps)
      BY <1>1, <2>1 DEF Working, InHandSteps, Draining
    <3>2. released' = released \cup Names({})
      BY <2>1 DEF Names
    <3> QED
      BY <1>2, <1>3, <1>4, <1>5, <2>1, <3>1, <3>2 DEF Worked
  <2>3. ClosedFilesReported'
    BY <1>2, <1>4, <2>1 DEF Control, ClosedFilesReported, NothingClosed
  <2>4. infos' = {}
    BY <1>4, <2>1 DEF NothingClosed
  <2>5. w.file # NoFile => recording'
    BY <1>2, <1>4, <1>6 DEF StreamFlow
  <2> QED
    BY <1>1, <1>4, <1>6, <2>1, <2>2, <2>3, <2>4, <2>5, PacketMoves
<1> QED
  BY <1>7, <1>8, <1>9

\* Before the first keyframe nothing is kept.
LEMMA BeforeKeyframeStep ==
    ASSUME IInv, BeforeKeyframe
    PROVE  IInv'
<1>1. pc = "handle" /\ pc \in Working /\ pc \in InHandSteps /\ pc \notin Draining
  BY DEF BeforeKeyframe, Working, InHandSteps, Draining
<1>2. /\ Shape /\ Control /\ Src \in Urls /\ Pkt \in Pkts /\ Strm \in StreamOf
      /\ mu = "free" /\ StreamFlow(Src)
      /\ FileAt(Src) = File /\ RingAt(Src) = Strm.ring /\ SeenAt(Src) = Strm.seen
  BY <1>1, Before
<1>3. PICK u \in Urls : u = Src
  BY <1>2
<1>4. PICK s \in StreamOf : s = Strm
  BY <1>2
<1>5. s.file = NoFile /\ s.ring = <<>> /\ infos = {}
  <2>1. ~ SeenAt(u) /\ At(u, {"handle"})
    BY <1>1, <1>2, <1>3 DEF BeforeKeyframe, At
  <2> QED
    BY <1>2, <1>3, <1>4, <2>1 DEF StreamFlow, File
<1>6. UsedOf(u) = {Pkt}
  <2>1. Range(s.ring) = {}
    BY <1>5 DEF Range
  <2> QED
    BY <1>1, <1>3, <1>4, <1>5, <2>1, BeforePackets DEF File
<1>7. /\ pc' = "idle" /\ infos' = {} /\ mu' = "free" /\ buf' = <<>>
      /\ UNCHANGED <<mode, sources, stopping, got, time, par, reported, recording, streams, buf,
                     cut, failed, closed, mu>>
      /\ released' = released \cup Names({Pkt})
  BY <1>1, <1>2 DEF BeforeKeyframe, rest, input, Finish, Free, Control, Draining
<1>8. Worked(u, s, {Pkt})
  <2>1. streams' = [streams EXCEPT ![u] = s]
    BY <1>2, <1>3, <1>4, <1>7 DEF Strm, Shape
  <2>2. \A v \in Urls : v # u /\ FileAt(v) # NoFile => recording'
    BY <1>7 DEF IInv, StreamFlow
  <2>3. pc' \in Working \cup {"idle", "send"} /\ pc' \notin Working /\ pc' \notin InHandSteps
    BY <1>7 DEF Working, InHandSteps, Draining
  <2> QED
    BY <1>2, <1>3, <1>7, <2>1, <2>2, <2>3 DEF Worked, Shape
<1>9. ClosedFilesReported'
  BY <1>2, <1>5, <1>7 DEF Control, ClosedFilesReported
<1> QED
  BY <1>1, <1>5, <1>6, <1>7, <1>8, <1>9, StreamEnds

\* A file that is full is finished before the next one is opened.
LEMMA RotateStep ==
    ASSUME IInv, Rotate
    PROVE  IInv'
<1>1. pc = "handle" /\ pc \in Working /\ pc \in InHandSteps /\ pc \notin Draining
  BY DEF Rotate, Admitted, Working, InHandSteps, Draining
<1>2. /\ Shape /\ Control /\ Src \in Urls /\ Pkt \in Pkts /\ Strm \in StreamOf
      /\ Active(Src) <=> File # NoFile
      /\ mu = "free" /\ StreamFlow(Src)
      /\ FileAt(Src) = File /\ RingAt(Src) = Strm.ring /\ SeenAt(Src) = Strm.seen
  BY <1>1, Before
<1>3. PICK u \in Urls : u = Src
  BY <1>2
<1>4. /\ UNCHANGED <<mode, sources, stopping, got, time, par, reported, recording, buf, cut, failed>>
      /\ buf = <<>> /\ buf' \in Seq(Pkts) /\ recording /\ recording \in BOOLEAN
      /\ Active(u) /\ Key(Pkt)
  BY <1>1, <1>2, <1>3 DEF Rotate, Rotates, rest, input, Control, Shape, StreamFlow, Draining
<1>5. PICK s \in StreamOf : /\ s = [Strm EXCEPT !.file = NoFile, !.seen = TRUE]
                            /\ s.file = NoFile /\ s.seen = TRUE /\ s.ring = Strm.ring
  <2>1. Strm \in StreamOf /\ NoFile \in {NoFile} \cup FileOf /\ TRUE \in BOOLEAN
    BY <1>2
  <2> QED
    BY <2>1, StreamFields, ZenonT(60)
<1>6. s.ring = <<>> /\ Range(s.ring) = {}
  BY <1>2, <1>3, <1>4, <1>5 DEF StreamFlow, Range
<1>7. PICK r \in CloseResults(File, 0) :
           /\ FileClosed(u, r)
           /\ Free(File.held \cup IF r = "error" THEN {Pkt} ELSE {})
           /\ IF r = "panic" THEN Panic /\ job' = NoJob
              ELSE Finish(IF r = "error" THEN "send" ELSE "open") /\ UNCHANGED mu
  BY <1>3, Zenon DEF Rotate
<1>8. r \in {"none", "info", "error", "panic"}
  BY CloseResultsAre
<1>9. UsedOf(u) = File.held \cup {Pkt} /\ HeldAt(u) = File.held
  BY <1>1, <1>2, <1>3, <1>4, <1>5, <1>6, BeforePackets
<1>10. PICK G : G = File.held \cup IF r = "error" THEN {Pkt} ELSE {}
  OBVIOUS
<1>11. /\ pc' = (IF r = "panic" THEN "idle" ELSE IF r = "error" THEN "send" ELSE "open")
       /\ r = "panic" => mu' = "lost"
       /\ r # "panic" => mu' = "free"
       /\ pc' = "open" => job' = job
  BY <1>2, <1>7, <1>8 DEF Panic, Finish
<1>12. Worked(u, s, G)
  <2>1. pc' \in Working \cup {"idle", "send"} /\ (pc' \in Working => job' = job)
        /\ (pc' \in InHandSteps => pc \in InHandSteps)
    BY <1>1, <1>11 DEF Working, InHandSteps, Draining
  <2>2. mu' = "free" \/ (mu' = "lost" /\ pc' = "idle")
    BY <1>11
  <2>3. streams' = [streams EXCEPT ![u] = s] /\ released' = released \cup Names(G)
    BY <1>3, <1>5, <1>7, <1>10 DEF Rotate, SetStream, Free
  <2> QED
    BY <1>3, <1>4, <2>1, <2>2, <2>3 DEF Worked
<1>13. ClosedFilesReported' /\ (r = "panic" => infos' = {})
  BY <1>1, <1>3, <1>4, <1>7, <1>11, ReportsWork
<1>14. CASE r \in {"error", "panic"}
  <2>1. G \subseteq UsedOf(u) /\ (mu' = "lost" \/ G = UsedOf(u))
    BY <1>9, <1>10, <1>11, <1>14
  <2>2. pc' \in {"idle", "send"} /\ (pc' = "idle" => infos' = {})
    BY <1>11, <1>13, <1>14
  <2> QED
    BY <1>1, <1>4, <1>5, <1>6, <1>12, <1>13, <2>1, <2>2, StreamEnds
<1>15. CASE r \in {"none", "info"}
  <2>1. G = HeldAt(u) /\ pc' = "open"
    BY <1>9, <1>10, <1>11, <1>15
  <2> QED
    BY <1>1, <1>4, <1>5, <1>6, <1>12, <1>13, <2>1, PacketMoves
<1> QED
  BY <1>8, <1>14, <1>15

\* A packet for the file at hand, or a keyframe for the first one.
LEMMA HandleStep ==
    ASSUME IInv, Handle
    PROVE  IInv'
<1>1. pc = "handle" /\ pc \in Working /\ pc \in InHandSteps /\ pc \notin Draining
  BY DEF Handle, Admitted, Working, InHandSteps, Draining
<1>2. /\ Shape /\ Control /\ Src \in Urls /\ Pkt \in Pkts /\ Strm \in StreamOf
      /\ Active(Src) <=> File # NoFile
      /\ mu = "free" /\ StreamFlow(Src) /\ mode # "never"
      /\ FileAt(Src) = File /\ RingAt(Src) = Strm.ring /\ SeenAt(Src) = Strm.seen
      /\ File # NoFile => File \in FileOf
  BY <1>1, Before
<1>3. PICK u \in Urls : u = Src
  BY <1>2
<1>4. /\ UNCHANGED <<mode, sources, stopping, got, time, par, reported, recording, buf, cut, failed,
                     mu, closed, infos>>
      /\ buf = <<>> /\ buf' = <<>> /\ buf' \in Seq(Pkts) /\ recording \in BOOLEAN
  BY <1>1, <1>2, <1>3 DEF Handle, rest, input, Control, Shape, Draining
<1>5. PICK s \in StreamOf : /\ s = [Strm EXCEPT !.seen = TRUE]
                            /\ s.file = File /\ s.seen = TRUE /\ s.ring = Strm.ring
  <2>1. PICK s : s = [Strm EXCEPT !.seen = TRUE]
    OBVIOUS
  <2>2. s \in StreamOf /\ s.file = File /\ s.seen = TRUE /\ s.ring = Strm.ring
    BY <1>2, <2>1 DEF StreamOf, File
  <2> QED
    BY <2>1, <2>2
<1>6. streams' = [streams EXCEPT ![u] = s]
  BY <1>3, <1>5 DEF Handle, SetStream
<1>7. \A v \in Urls : v # u /\ FileAt(v) # NoFile => recording'
  BY <1>4 DEF IInv, StreamFlow
<1>8. ~ Active(Src) => mode = "always" /\ s.file = NoFile /\ s.ring = <<>>
  <2>1. mode \in {"never", "event", "always"}
    BY <1>2 DEF Shape, RecordModes
  <2> QED
    BY <1>2, <1>5, <2>1 DEF Handle, Idle, StreamFlow
<1>9. ClosedFilesReported'
  BY <1>2, <1>4 DEF Control, ClosedFilesReported
<1>10. CASE Active(Src) \/ Key(Pkt)
  <2>1. /\ pc' = (IF Active(Src) THEN "write" ELSE "open") /\ job' = job /\ released' = released
    BY <1>10 DEF Handle, Finish
  <2>2. Worked(u, s, {})
    <3>1. pc' \in Working \cup {"idle", "send"} /\ (pc' \in Working => job' = job)
          /\ (pc' \in InHandSteps => pc \in InHandSteps)
      BY <1>1, <2>1 DEF Working, InHandSteps, Draining
    <3>2. released' = released \cup Names({})
      BY <2>1 DEF Names
    <3> QED
      BY <1>2, <1>3, <1>4, <1>6, <1>7, <3>1, <3>2 DEF Worked
  <2>3. s.file # NoFile => recording'
    BY <1>2, <1>4, <1>5 DEF StreamFlow
  <2>4. pc' = "write" => s.file # NoFile
    BY <1>2, <1>5, <2>1
  <2>5. pc' = "open" => /\ s.file = NoFile /\ s.ring = <<>>
                        /\ Key(Pkt) /\ (recording' \/ mode = "always")
    BY <1>8, <1>10, <2>1
  <2> QED
    BY <1>1, <1>4, <1>5, <1>9, <2>1, <2>2, <2>3, <2>4, <2>5, PacketMoves
<1>11. CASE ~ Active(Src) /\ ~ Key(Pkt)
  <2>1. pc' = "send" /\ released' = released \cup Names({Pkt})
    BY <1>11 DEF Handle, Finish, Free
  <2>2. Worked(u, s, {Pkt})
    <3>1. pc' \in Working \cup {"idle", "send"} /\ pc' \notin Working /\ pc' \notin InHandSteps
      BY <2>1 DEF Working, InHandSteps, Draining
    <3> QED
      BY <1>2, <1>3, <1>4, <1>6, <1>7, <2>1, <3>1 DEF Worked
  <2>3. UsedOf(u) = {Pkt}
    <3>1. Range(Strm.ring) = {} /\ File = NoFile
      BY <1>5, <1>8, <1>11 DEF Range
    <3> QED
      BY <1>1, <1>3, <3>1, BeforePackets
  <2> QED
    BY <1>1, <1>4, <1>8, <1>9, <1>11, <2>1, <2>2, <2>3, StreamEnds
<1> QED
  BY <1>10, <1>11

\* What writing a packet to a file does.
LEMMA WrittenIs ==
    ASSUME NEW f \in FileOf, NEW p \in Pkts, NEW g, g = Written(f, p)
    PROVE  /\ g \in FileOf /\ g.ids = f.ids \cup {p.id} /\ g.start = f.start
           /\ g.held = f.held \cup {p} /\ g.damaged = f.damaged
           /\ f.last \subseteq f.held => g.last \subseteq g.held
<1>1. Dur(p) \in Nat /\ p.id \in Nat \ {0}
  BY DEF Dur, Pkts
<1>2. PICK a : a = [f EXCEPT !.ids = @ \cup {p.id}]
  OBVIOUS
<1>3. a \in FileOf /\ a.ids = f.ids \cup {p.id} /\ a.start = f.start /\ a.held = f.held
      /\ a.last = f.last /\ a.damaged = f.damaged /\ a.dur = f.dur
  BY <1>1, <1>2 DEF FileOf
<1>4. PICK b : b = [a EXCEPT !.dur = @ + Dur(p)]
  OBVIOUS
<1>5. b \in FileOf /\ b.ids = a.ids /\ b.start = a.start /\ b.held = a.held
      /\ b.last = a.last /\ b.damaged = a.damaged
  BY <1>1, <1>3, <1>4 DEF FileOf
<1>6. PICK c : c = [b EXCEPT !.held = @ \cup {p}]
  OBVIOUS
<1>7. c \in FileOf /\ c.ids = b.ids /\ c.start = b.start /\ c.held = b.held \cup {p}
      /\ c.last = b.last /\ c.damaged = b.damaged
  BY <1>5, <1>6 DEF FileOf
<1>8. PICK L : L = {q \in f.last : Video(q) # Video(p)} \cup {p}
  OBVIOUS
<1>9. L \in SUBSET Pkts /\ L \subseteq f.last \cup {p}
  BY <1>8 DEF FileOf
<1>10. PICK d : d = [c EXCEPT !.last = L]
  OBVIOUS
<1>11. d \in FileOf /\ d.ids = c.ids /\ d.start = c.start /\ d.held = c.held
       /\ d.last = L /\ d.damaged = c.damaged
  BY <1>7, <1>9, <1>10 DEF FileOf
<1>12. g = d
  BY <1>2, <1>4, <1>6, <1>8, <1>10 DEF Written, FileOf
<1> QED
  BY <1>3, <1>5, <1>7, <1>9, <1>11, <1>12

\* A packet that follows the last one leaves no hole.
LEMMA FileGrows ==
    ASSUME NEW u, NEW f \in FileOf, FileWhole(u, f), NEW p \in Pkts, f.ids = {} => f.start = p,
           Upto(u) = p.id - 1, NEW hi \in Int, hi = Upto(u)', p.id <= hi,
           \A i \in p.id + 1 .. hi : <<u, i>> \in cut',
           NEW g, g.ids = f.ids \cup {p.id}, g.start = f.start,
           cut \subseteq cut', failed \subseteq failed'
    PROVE  FileWhole(u, g)'
<1>1. /\ p.id \in Nat /\ f.start \in Pkts /\ f.start.id \in Nat
      /\ \A i \in f.ids : i \in Nat
  BY DEF Pkts, FileOf
<1>2. Key(g.start)' /\ g.start.id \in g.ids
  BY DEF FileWhole, Key
<1>3. f.start.id <= p.id
  <2>1. CASE f.ids = {}
    BY <1>1, <2>1
  <2>2. CASE f.ids # {}
    <3>1. f.start.id <= p.id - 1
      BY <2>2 DEF FileWhole
    <3> QED
      BY <1>1, <3>1
  <2> QED
    BY <2>1, <2>2
<1>4. \A i \in g.ids : g.start.id <= i /\ i <= hi
  <2> SUFFICES ASSUME NEW i \in g.ids PROVE f.start.id <= i /\ i <= hi
    OBVIOUS
  <2>1. CASE i = p.id
    BY <1>3, <2>1
  <2>2. CASE i \in f.ids
    <3>1. f.start.id <= i /\ i <= p.id - 1 /\ i \in Nat
      BY <1>1, <2>2 DEF FileWhole
    <3> QED
      BY <1>1, <3>1
  <2> QED
    BY <2>1, <2>2
<1>5. ASSUME "drain" \notin failed', NEW i \in g.start.id .. hi
      PROVE  i \in g.ids \/ <<u, i>> \in cut'
  <2>1. CASE i = p.id
    BY <2>1
  <2>2. CASE i > p.id
    <3>1. i \in p.id + 1 .. hi
      BY <1>1, <1>5, <2>2
    <3> QED
      BY <3>1
  <2>3. CASE i < p.id
    <3>1. f.ids # {}
      BY <1>1, <1>5, <2>3
    <3>2. Covers(f.ids, u, f.start.id, Upto(u))
      BY <1>5, <3>1 DEF FileWhole
    <3>3. i \in f.start.id .. Upto(u)
      BY <1>1, <1>5, <2>3
    <3> QED
      BY <3>2, <3>3 DEF Covers
  <2> QED
    BY <1>1, <1>5, <2>1, <2>2, <2>3
<1>6. "drain" \in failed' \/ Covers(g.ids, u, g.start.id, Upto(u))'
  BY <1>5 DEF Covers
<1> QED
  BY <1>2, <1>4, <1>6 DEF FileWhole

\* A new file holds nothing.
LEMMA NewFileIs ==
    ASSUME NEW p \in Pkts, NEW c \in Nat, NEW g, g = NewFile(p, c)
    PROVE  /\ g \in FileOf /\ g # NoFile /\ g.ids = {} /\ g.start = p /\ g.held = {} /\ g.last = {}
           /\ ~ g.damaged
<1>1. g \in FileOf /\ g.ids = {} /\ g.start = p /\ g.held = {} /\ g.last = {} /\ ~ g.damaged
  BY DEF NewFile, FileOf
<1> QED
  BY <1>1, Records

\* The first file, or the next one.
LEMMA OpenStep ==
    ASSUME IInv, Open
    PROVE  IInv'
<1>1. pc = "open" /\ pc' = "write" /\ pc \in Working /\ pc \in InHandSteps /\ pc \notin Draining
      /\ pc' \in Working /\ pc' \in InHandSteps /\ pc' \notin Draining /\ pc' # "codec"
  BY DEF Open, Finish, Working, InHandSteps, Draining
<1>2. /\ Shape /\ Control /\ Src \in Urls /\ Pkt \in Pkts /\ Strm \in StreamOf
      /\ mu = "free" /\ StreamFlow(Src) /\ StreamOwners(Src)
      /\ FileAt(Src) = File /\ RingAt(Src) = Strm.ring /\ SeenAt(Src) = Strm.seen
  BY <1>1, Before
<1>3. PICK u \in Urls : u = Src
  BY <1>2
<1>4. /\ UNCHANGED <<mode, sources, stopping, got, time, par, reported, buf, cut, failed,
                     mu, closed, infos, released>>
      /\ buf = <<>> /\ buf' = <<>> /\ buf' \in Seq(Pkts) /\ job' = job
      /\ Key(Pkt) /\ recording' = TRUE
  <2>1. Key(Pkt) /\ (recording \/ mode = "always") /\ buf = <<>> /\ buf \in Seq(Pkts)
    BY <1>1, <1>2 DEF Control, Shape
  <2> QED
    BY <2>1 DEF Open, rest, input, Finish
<1>5. File = NoFile /\ Strm.ring = <<>> /\ Range(Strm.ring) = {} /\ Strm.seen
  <2>1. At(Src, {"open", "drainOpen", "drainNext"}) /\ At(Src, Working \ {"codec", "handle"})
    BY <1>1 DEF At
  <2> QED
    BY <1>2, <2>1 DEF StreamFlow, Range
<1>6. PICK g \in FileOf : /\ g = NewFile(Pkt, Strm.par) /\ g # NoFile /\ g.ids = {}
                          /\ g.start = Pkt /\ g.held = {} /\ g.last = {}
  <2>1. Strm.par \in Nat
    BY <1>2 DEF StreamOf
  <2> QED
    BY <1>2, <2>1, NewFileIs
<1>7. PICK s \in StreamOf : /\ streams' = [streams EXCEPT ![u] = s]
                            /\ s.file = g /\ s.ring = <<>> /\ s.seen
  <2>1. PICK s : s = [Strm EXCEPT !.file = g]
    OBVIOUS
  <2>2. s \in StreamOf /\ s.file = g /\ s.ring = <<>> /\ s.seen
    BY <1>2, <1>5, <2>1 DEF StreamOf
  <2>3. streams' = [streams EXCEPT ![u] = s]
    BY <1>2, <1>3, <1>6, <2>1, SetFileIs DEF Open, Strm
  <2> QED
    BY <2>2, <2>3
<1>8. Worked(u, s, {})
  <2>1. released' = released \cup Names({})
    BY <1>4 DEF Names
  <2> QED
    BY <1>1, <1>2, <1>3, <1>4, <1>7, <2>1 DEF Worked
<1>9. UsedOf(u) = {Pkt} /\ UsedOf(u)' = {Pkt} /\ HeldAt(u)' = {} /\ RingAt(u)' = <<>>
  <2>1. Range(s.ring) = {}
    BY <1>7 DEF Range
  <2> QED
    BY <1>1, <1>3, <1>5, <1>6, <1>7, <1>8, <2>1, BeforePackets, AfterPackets, AfterStreams
<1>10. Ordered(s.ring) /\ Passing(u)' \cap (Range(RingAt(u)) \cup HeldAt(u))' = {}
  BY <1>7, <1>9 DEF Ordered, Range
<1>11. StreamFlow(u)'
  BY <1>1, <1>4, <1>6, <1>7, <1>8, AfterFlow
<1>12. StreamWhole(u)'
  <2>1. At(u, {"write"})' /\ Pkt' = Pkt
    BY <1>1, <1>3, <1>4 DEF At, Src, Pkt
  <2>2. FileWhole(u, s.file)'
    BY <1>4, <1>6, <1>7, <2>1 DEF FileWhole, Key
  <2> QED
    BY <1>1, <1>7, <1>8, <2>2, AfterWhole
<1>13. Control'
  <2>1. Ordered(buf') /\ ClosedFilesReported'
    BY <1>2, <1>4 DEF Ordered, Control, ClosedFilesReported
  <2>2. pc' \notin {"open", "drainOpen", "drain", "drainNext", "drainFlush", "drainEnd"}
    BY <1>1
  <2> QED
    BY <1>1, <1>4, <1>8, <2>1, <2>2, WorkControl
<1> QED
  BY <1>1, <1>8, <1>9, <1>10, <1>11, <1>12, <1>13, WorkStep

\* The packet is given back, and what was closed before is still reported.
LEMMA OpenFailsStep ==
    ASSUME IInv, OpenFails
    PROVE  IInv'
<1>1. pc = "open" /\ pc' = "send" /\ pc \in Working /\ pc \in InHandSteps /\ pc \notin Draining
      /\ pc' \notin Working /\ pc' \notin InHandSteps
  BY DEF OpenFails, Finish, Working, InHandSteps, Draining
<1>2. /\ Shape /\ Control /\ Src \in Urls /\ Pkt \in Pkts /\ Strm \in StreamOf
      /\ mu = "free" /\ StreamFlow(Src)
      /\ FileAt(Src) = File /\ RingAt(Src) = Strm.ring
  BY <1>1, Before
<1>3. PICK u \in Urls : u = Src
  BY <1>2
<1>4. PICK s \in StreamOf : s = Strm
  BY <1>2
<1>5. s.file = NoFile /\ s.ring = <<>> /\ Range(s.ring) = {}
  <2>1. At(Src, {"open", "drainOpen", "drainNext"})
    BY <1>1 DEF At
  <2> QED
    BY <1>2, <1>4, <2>1 DEF StreamFlow, Range, File
<1>6. UsedOf(u) = {Pkt}
  BY <1>1, <1>3, <1>4, <1>5, BeforePackets DEF File
<1>7. /\ buf' = <<>>
      /\ UNCHANGED <<mode, sources, stopping, got, time, par, reported, recording, streams, buf,
                     cut, failed, closed, infos, mu>>
      /\ released' = released \cup Names({Pkt})
  BY <1>1, <1>2 DEF OpenFails, rest, input, Free, Control, Draining
<1>8. Worked(u, s, {Pkt})
  <2>1. streams' = [streams EXCEPT ![u] = s]
    BY <1>2, <1>3, <1>4, <1>7 DEF Strm, Shape
  <2>2. \A v \in Urls : v # u /\ FileAt(v) # NoFile => recording'
    BY <1>7 DEF IInv, StreamFlow
  <2> QED
    BY <1>1, <1>2, <1>3, <1>7, <2>1, <2>2 DEF Worked, Shape
<1>9. ClosedFilesReported'
  BY <1>2, <1>7 DEF Control, ClosedFilesReported
<1> QED
  BY <1>1, <1>5, <1>6, <1>7, <1>8, <1>9, StreamEnds

\* The packet goes into the file at hand.
LEMMA WriteStep ==
    ASSUME IInv, Write
    PROVE  IInv'
<1>1. pc = "write" /\ pc' = "flush" /\ pc \in Working /\ pc \in InHandSteps /\ pc \notin Draining
      /\ pc' \in Working /\ pc' \notin InHandSteps /\ pc' \notin Draining /\ pc' # "codec"
  BY DEF Write, Finish, Working, InHandSteps, Draining
<1>2. /\ Shape /\ Control /\ Src \in Urls /\ Pkt \in Pkts /\ Strm \in StreamOf
      /\ mu = "free" /\ StreamFlow(Src) /\ StreamOwners(Src) /\ StreamWhole(Src)
      /\ FileAt(Src) = File /\ RingAt(Src) = Strm.ring /\ SeenAt(Src) = Strm.seen
      /\ File # NoFile => File \in FileOf
      /\ got[Src] \in Nat
  BY <1>1, Before
<1>3. PICK u \in Urls : u = Src
  BY <1>2
<1>4. /\ UNCHANGED <<mode, sources, stopping, got, time, par, reported, buf, cut, failed,
                     mu, closed, infos, released, recording>>
      /\ buf = <<>> /\ buf' = <<>> /\ buf' \in Seq(Pkts) /\ job' = job
  <2>1. buf = <<>> /\ buf \in Seq(Pkts)
    BY <1>1, <1>2 DEF Control, Shape
  <2> QED
    BY <2>1 DEF Write, rest, input, Finish
<1>5. /\ File # NoFile /\ Strm.ring = <<>> /\ Range(Strm.ring) = {} /\ Strm.seen /\ recording
      /\ File.last \subseteq File.held /\ Pkt.id = got[u]
  <2>1. At(Src, {"write", "flush", "drain", "drainFlush", "drainEnd"}) /\ At(Src, InHandSteps)
    BY <1>1 DEF At
  <2> QED
    BY <1>2, <1>3, <2>1 DEF StreamFlow, StreamOwners, Range
<1>6. PICK g \in FileOf : /\ g = Written(File, Pkt) /\ g.ids = File.ids \cup {Pkt.id}
                          /\ g.start = File.start /\ g.held = File.held \cup {Pkt}
                          /\ g.last \subseteq g.held /\ g # NoFile
  BY <1>2, <1>5, WrittenIs, Records
<1>7. PICK s \in StreamOf : /\ streams' = [streams EXCEPT ![u] = s]
                            /\ s.file = g /\ s.ring = <<>> /\ s.seen
  <2>1. PICK n \in Nat : n = IF mode = "event" THEN Strm.session + Dur(Pkt) ELSE Strm.session
    BY <1>2 DEF StreamOf, Dur
  <2>2. PICK t : t = [Strm EXCEPT !.file = g]
    OBVIOUS
  <2>3. t \in StreamOf /\ t.file = g /\ t.ring = <<>> /\ t.seen
    BY <1>2, <1>5, <2>2 DEF StreamOf
  <2>4. PICK s : s = [t EXCEPT !.session = n]
    OBVIOUS
  <2>5. s \in StreamOf /\ s.file = g /\ s.ring = <<>> /\ s.seen
    BY <2>3, <2>4 DEF StreamOf
  <2>6. s = [Strm EXCEPT !.file = Written(@, Pkt),
                         !.session = IF mode = "event" THEN @ + Dur(Pkt) ELSE @]
    BY <1>2, <1>6, <2>1, <2>2, <2>4 DEF StreamOf, File
  <2> QED
    BY <1>3, <2>5, <2>6 DEF Write, SetStream
<1>8. Worked(u, s, {})
  <2>1. released' = released \cup Names({})
    BY <1>4 DEF Names
  <2>2. recording' \in BOOLEAN /\ \A v \in Urls : v # u /\ FileAt(v) # NoFile => recording'
    BY <1>2, <1>4, <1>5 DEF Shape
  <2> QED
    BY <1>1, <1>2, <1>3, <1>4, <1>7, <2>1, <2>2 DEF Worked
<1>9. /\ UsedOf(u) = File.held \cup {Pkt} /\ UsedOf(u)' = File.held \cup {Pkt}
      /\ Upto(u) = got[u] - 1 /\ Upto(u)' = got[u] /\ Passing(u)' = {}
  <2>1. Range(s.ring) = {}
    BY <1>7 DEF Range
  <2> QED
    BY <1>1, <1>3, <1>5, <1>6, <1>7, <1>8, <2>1, BeforePackets, AfterPackets
<1>10. Ordered(s.ring)
  BY <1>7 DEF Ordered
<1>11. StreamFlow(u)'
  BY <1>1, <1>4, <1>5, <1>6, <1>7, <1>8, AfterFlow
<1>12. StreamWhole(u)'
  <2>1. FileWhole(u, File)
    BY <1>2, <1>3, <1>5 DEF StreamWhole
  <2>2. File.ids = {} => File.start = Pkt
    BY <1>1, <2>1 DEF FileWhole, At
  <2>3. \A i \in Pkt.id + 1 .. got[u] : <<u, i>> \in cut'
    BY <1>2, <1>3, <1>5
  <2>4. Upto(u) = Pkt.id - 1 /\ got[u] \in Int /\ got[u] = Upto(u)' /\ Pkt.id <= got[u]
    BY <1>2, <1>3, <1>5, <1>9
  <2>5. File \in FileOf /\ cut \subseteq cut' /\ failed \subseteq failed'
    BY <1>2, <1>4, <1>5
  <2>6. FileWhole(u, g)'
    BY <1>2, <1>6, <2>1, <2>2, <2>3, <2>4, <2>5, FileGrows
  <2> QED
    BY <1>1, <1>7, <1>8, <2>6, AfterWhole
<1>13. Control'
  <2>1. Ordered(buf') /\ ClosedFilesReported'
    BY <1>2, <1>4 DEF Ordered, Control, ClosedFilesReported
  <2>2. pc' \notin {"open", "drainOpen", "drain", "drainNext", "drainFlush", "drainEnd"}
    BY <1>1
  <2> QED
    BY <1>1, <1>4, <1>8, <2>1, <2>2, WorkControl
<1> QED
  BY <1>1, <1>8, <1>9, <1>10, <1>11, <1>12, <1>13, WorkStep

-----------------------------------------------------------------------------
(* Flushes *)

\* What is flushed is given back; the file is the same.
LEMMA FlushMoves ==
    ASSUME IInv, pc \in {"flush", "drainFlush", "drainEnd"}, NEW u \in Urls, NEW s \in StreamOf,
           NEW G, Worked(u, s, G), s.file \in FileOf,
           s.file.ids = File.ids, s.file.start = File.start, s.file.damaged = File.damaged,
           s.file.last \subseteq s.file.held, s.file.held \subseteq File.held,
           G = File.held \ s.file.held, s.ring = Strm.ring, s.seen = Strm.seen, buf' = buf,
           pc' = IF pc = "drainEnd" THEN "send" ELSE After,
           UNCHANGED <<recording, closed, infos, mu, failed>>
    PROVE  IInv'
<1>1. /\ pc \in Working /\ pc \notin InHandSteps /\ pc' \notin InHandSteps
      /\ pc \in Draining <=> pc = "drainFlush"
      /\ pc' \in Draining <=> pc = "drainFlush" /\ buf # <<>>
      /\ pc' \in {"send", "drain", "drainEnd"}
  BY DEF Working, InHandSteps, Draining, After
<1>2. /\ Shape /\ Control /\ Src \in Urls /\ Strm \in StreamOf
      /\ mu = "free" /\ StreamFlow(Src) /\ StreamOwners(Src) /\ StreamWhole(Src)
      /\ FileAt(Src) = File /\ RingAt(Src) = Strm.ring /\ SeenAt(Src) = Strm.seen
  BY <1>1, Before
<1>3. u = Src /\ reported' = reported /\ stopping' = stopping /\ cut \subseteq cut'
      /\ failed \subseteq failed'
  BY DEF Worked
<1>4. File # NoFile /\ Strm.ring = <<>> /\ Range(Strm.ring) = {} /\ Strm.seen /\ recording
  <2>1. At(Src, {"write", "flush", "drain", "drainFlush", "drainEnd"})
    BY DEF At
  <2> QED
    BY <1>2, <2>1 DEF StreamFlow, Range
<1>5. buf # <<>> => pc \in Draining
  BY <1>2 DEF Control
<1>6. PICK P : P = IF pc = "drainFlush" THEN Range(buf) ELSE {}
  OBVIOUS
<1>7. Range(<<>>) = {}
  BY DEF Range
<1>8. Passing(u) = P /\ Passing(u)' = P
  <2>1. Passing(u) = P
    BY <1>1, <1>3, <1>6, BeforePackets
  <2>2. Passing(u)' = IF pc' \in Draining THEN Range(buf') ELSE {}
    BY <1>1, AfterPackets
  <2> QED
    BY <1>1, <1>6, <1>7, <2>1, <2>2
<1>9. /\ HeldAt(u) = File.held /\ UsedOf(u) = File.held \cup P
      /\ HeldAt(u)' = s.file.held /\ UsedOf(u)' = s.file.held \cup P
      /\ RingAt(u)' = <<>>
  <2>1. s.file # NoFile /\ Range(s.ring) = {}
    BY <1>4, Records
  <2> QED
    BY <1>1, <1>3, <1>4, <1>8, <2>1, BeforePackets, AfterPackets, AfterStreams
<1>10. P \cap File.held = {}
  BY <1>2, <1>3, <1>8, <1>9 DEF StreamOwners
<1>11. /\ G \subseteq UsedOf(u) /\ UsedOf(u)' \subseteq UsedOf(u) /\ UsedOf(u)' \cap G = {}
       /\ UsedOf(u) \subseteq UsedOf(u)' \cup G
       /\ Passing(u)' \cap (Range(RingAt(u)) \cup HeldAt(u))' = {}
  <2>1. Range(RingAt(u))' = {}
    BY <1>9 DEF Range
  <2> QED
    BY <1>8, <1>9, <1>10, <2>1
<1>12. Upto(u)' = Upto(u)
  BY <1>1, <1>3, <1>5, BeforePackets, AfterPackets
<1>13. Ordered(s.ring)
  BY <1>4 DEF Ordered
<1>14. pc' \in {"drain", "drainEnd"} => pc = "drainFlush"
  BY DEF After
<1>15. StreamFlow(u)'
  <2>1. pc' \in {"drain", "drainFlush", "drainEnd"} => ~ s.file.damaged
    <3>1. pc = "drainFlush" => At(Src, {"drain", "drainFlush", "drainEnd"})
      BY DEF At
    <3> QED
      BY <1>1, <1>2, <1>14, <3>1 DEF StreamFlow
  <2>2. s.file # NoFile /\ recording' /\ s.seen /\ s.ring = <<>>
    BY <1>4, Records
  <2>3. pc' \notin {"open", "drainOpen", "drainNext", "handle"}
    BY <1>1
  <2> QED
    BY <1>1, <2>1, <2>2, <2>3, AfterFlow
<1>16. StreamWhole(u)'
  <2>1. FileWhole(u, File)
    BY <1>2, <1>3, <1>4 DEF StreamWhole
  <2>2. File.ids # {}
    BY <2>1 DEF FileWhole, At
  <2>3. FileWhole(u, s.file)'
    BY <1>3, <1>12, <2>1, <2>2, FileStays
  <2>4. pc' \in Draining /\ buf' # <<>> =>
           \A i \in buf'[1].id .. got[u] : i \in IdsOf(buf') \/ <<u, i>> \in cut'
    <3>1. pc' \in Draining => At(Src, Draining)
      BY <1>1 DEF At
    <3> QED
      BY <1>2, <1>3, <3>1 DEF StreamWhole, Covers
  <2> QED
    BY <1>1, <1>4, <2>3, <2>4, AfterWhole
<1>17. ClosedFilesReported'
  BY <1>2, <1>3 DEF Control, ClosedFilesReported
<1>18. Control'
  <2>1. CASE pc' = "send"
    <3>1. pc' \notin Working /\ mu' = "free"
      BY <1>2, <2>1 DEF Working, InHandSteps, Draining
    <3>2. Known' \subseteq sources'
      BY <1>1, <1>2, AfterStreams DEF Control, Worked
    <3>3. buf' = <<>>
      BY <1>1, <1>5, <2>1 DEF After
    <3> QED
      BY <1>17, <2>1, <3>1, <3>2, <3>3, IdleControl
  <2>2. CASE pc' # "send"
    <3>1. pc' \in Working \ {"codec"} /\ pc' \in {"drain", "drainEnd"}
      BY <1>1, <2>2 DEF Working, Draining
    <3>2. (buf' # <<>> => pc' \in Draining) /\ (pc' = "drain" => buf' # <<>>)
      BY <1>1, <1>5 DEF After
    <3>3. Ordered(buf') /\ recording'
      BY <1>2, <1>4 DEF Control
    <3> QED
      BY <1>1, <1>17, <3>1, <3>2, <3>3, WorkControl
  <2> QED
    BY <2>1, <2>2
<1> QED
  BY <1>1, <1>11, <1>13, <1>15, <1>16, <1>18, WorkStep

\* What Step finds at a flush.
LEMMA BeforeFlush ==
    ASSUME IInv, pc \in {"flush", "drainFlush", "drainEnd"}
    PROVE  /\ File \in FileOf /\ File # NoFile /\ File.last \subseteq File.held
           /\ Strm.ring = <<>> /\ Strm.seen /\ recording /\ File.ids # {}
           /\ FileWhole(Src, File)
           /\ pc # "flush" => ~ File.damaged
<1>1. pc \in Working
  BY DEF Working, Draining
<1>2. /\ StreamFlow(Src) /\ StreamWhole(Src) /\ FileAt(Src) = File /\ RingAt(Src) = Strm.ring
      /\ SeenAt(Src) = Strm.seen /\ (File # NoFile => File \in FileOf)
  BY <1>1, Before
<1>3. At(Src, {"write", "flush", "drain", "drainFlush", "drainEnd"})
  BY DEF At
<1>4. File # NoFile
  BY <1>2, <1>3 DEF StreamFlow
<1>5. FileWhole(Src, File)
  BY <1>2, <1>4 DEF StreamWhole
<1>6. File.ids # {}
  BY <1>5 DEF FileWhole, At
<1>7. pc # "flush" => ~ File.damaged
  <2>1. pc # "flush" => At(Src, {"drain", "drainFlush", "drainEnd"})
    BY DEF At
  <2> QED
    BY <1>2, <2>1 DEF StreamFlow
<1> QED
  BY <1>2, <1>4, <1>5, <1>6, <1>7 DEF StreamFlow

\* Nothing is due.
LEMMA NoFlushStep ==
    ASSUME IInv, NoFlush
    PROVE  IInv'
<1>1. pc \in {"flush", "drainFlush"} /\ pc \in Working
  BY DEF NoFlush, Working, Draining
<1>2. Shape /\ Src \in Urls /\ Strm \in StreamOf /\ mu = "free"
  BY <1>1, Before
<1>3. PICK u \in Urls : u = Src
  BY <1>2
<1>4. File \in FileOf /\ File.last \subseteq File.held /\ recording
  BY <1>1, BeforeFlush
<1>5. /\ UNCHANGED <<mode, sources, stopping, got, time, par, reported, recording, buf, cut, failed,
                     mu, closed, infos, released, streams>>
      /\ pc' = After /\ (pc' # "send" => job' = job)
  BY <1>1 DEF NoFlush, rest, input, Finish, After
<1>6. Worked(u, Strm, {})
  <2>1. pc' \in Working \cup {"idle", "send"} /\ (pc' \in Working => job' = job)
        /\ pc' \notin InHandSteps
    BY <1>5 DEF After, Working, InHandSteps, Draining
  <2>2. released' = released \cup Names({})
    BY <1>5 DEF Names
  <2>3. streams' = [streams EXCEPT ![u] = Strm]
    BY <1>2, <1>3, <1>5 DEF Strm, Shape
  <2> QED
    BY <1>2, <1>3, <1>4, <1>5, <2>1, <2>2, <2>3 DEF Worked, Shape
<1>7. Strm.file = File
  BY DEF File
<1> QED
  BY <1>1, <1>2, <1>4, <1>5, <1>6, <1>7, FlushMoves

\* A flush gives back what it wrote.
LEMMA FlushStep ==
    ASSUME IInv, Flush
    PROVE  IInv'
<1>1. pc \in {"flush", "drainFlush", "drainEnd"} /\ pc \in Working
  BY DEF Flush, FlushDue, Working, Draining
<1>2. Shape /\ Src \in Urls /\ Strm \in StreamOf /\ mu = "free"
  BY <1>1, Before
<1>3. PICK u \in Urls : u = Src
  BY <1>2
<1>4. File \in FileOf /\ File.last \subseteq File.held /\ recording
  BY <1>1, BeforeFlush
<1>5. /\ UNCHANGED <<mode, sources, stopping, got, time, par, reported, recording, buf, cut, failed,
                     mu, closed, infos>>
      /\ pc' = (IF pc = "drainEnd" THEN "send" ELSE After) /\ (pc' # "send" => job' = job)
      /\ released' = released \cup Names(File.held \ File.last)
  BY <1>1 DEF Flush, rest, input, Finish, After, Free
<1>6. PICK g \in FileOf : /\ g = Flushed(File) /\ g.held = File.last /\ g.last = File.last
                          /\ g.ids = File.ids /\ g.start = File.start /\ g.damaged = File.damaged
  <2>1. PICK a : a = [File EXCEPT !.held = File.last]
    OBVIOUS
  <2>2. a \in FileOf /\ a.held = File.last /\ a.last = File.last
        /\ a.ids = File.ids /\ a.start = File.start /\ a.damaged = File.damaged
    BY <1>4, <2>1 DEF FileOf
  <2>3. PICK b : b = [a EXCEPT !.flush = File.dur]
    OBVIOUS
  <2>4. b \in FileOf /\ b.held = a.held /\ b.last = a.last
        /\ b.ids = a.ids /\ b.start = a.start /\ b.damaged = a.damaged
    BY <1>4, <2>2, <2>3 DEF FileOf
  <2>5. b = Flushed(File)
    BY <1>4, <2>1, <2>3 DEF Flushed, FileOf
  <2> QED
    BY <2>2, <2>4, <2>5
<1>7. PICK s \in StreamOf : /\ streams' = [streams EXCEPT ![u] = s]
                            /\ s.file = g /\ s.ring = Strm.ring /\ s.seen = Strm.seen
  <2>1. PICK b \in BOOLEAN : b = IF pc = "drainEnd" THEN TRUE ELSE Strm.saved
    BY <1>2 DEF StreamOf
  <2>2. PICK t : t = [Strm EXCEPT !.file = g]
    OBVIOUS
  <2>3. t \in StreamOf /\ t.file = g /\ t.ring = Strm.ring /\ t.seen = Strm.seen
    BY <1>2, <2>2 DEF StreamOf
  <2>4. PICK s : s = [t EXCEPT !.saved = b]
    OBVIOUS
  <2>5. s \in StreamOf /\ s.file = g /\ s.ring = Strm.ring /\ s.seen = Strm.seen
    BY <2>3, <2>4 DEF StreamOf
  <2>6. s = [Strm EXCEPT !.file = Flushed(@), !.saved = IF pc = "drainEnd" THEN TRUE ELSE @]
    BY <1>2, <1>6, <2>1, <2>2, <2>4 DEF StreamOf, File
  <2> QED
    BY <1>3, <2>5, <2>6 DEF Flush, SetStream
<1>8. Worked(u, s, File.held \ File.last)
  <2>1. pc' \in Working \cup {"idle", "send"} /\ (pc' \in Working => job' = job)
        /\ pc' \notin InHandSteps
    BY <1>5 DEF After, Working, InHandSteps, Draining
  <2> QED
    BY <1>2, <1>3, <1>4, <1>5, <1>7, <2>1 DEF Worked, Shape
<1> QED
  BY <1>1, <1>2, <1>4, <1>5, <1>6, <1>7, <1>8, FlushMoves

\* A step that leaves a file and goes no further with it: a flush failed, or
\* met a packet that a failed flush had given back.
LEMMA FlushEnds ==
    ASSUME IInv, pc \in {"flush", "drainFlush", "drainEnd"}, NEW u \in Urls, NEW s \in StreamOf,
           NEW G, Worked(u, s, G), s.file \in FileOf,
           s.file.ids = File.ids, s.file.start = File.start,
           s.file.last \subseteq s.file.held, s.file.held \subseteq File.held,
           G = File.held \ s.file.held, s.ring = Strm.ring, s.seen = Strm.seen, buf' = <<>>,
           pc' \in {"idle", "send"}, pc' = "idle" => infos' = {}, ClosedFilesReported',
           recording' = recording,
           pc # "flush" => "drain" \in failed'
    PROVE  IInv'
<1>1. /\ pc \in Working /\ pc \notin InHandSteps
      /\ pc' \notin Working /\ pc' \notin InHandSteps /\ pc' \notin Draining
      /\ pc = "flush" => pc \notin Draining
  BY DEF Working, InHandSteps, Draining
<1>2. /\ Control /\ StreamOwners(Src) /\ got[Src] \in Nat
  BY <1>1, Before
<1>3. u = Src /\ cut \subseteq cut' /\ failed \subseteq failed'
  BY DEF Worked
<1>4. /\ File \in FileOf /\ File # NoFile /\ Strm.ring = <<>> /\ Range(Strm.ring) = {}
      /\ Strm.seen /\ recording /\ File.ids # {} /\ FileWhole(u, File)
  <2>1. Range(<<>>) = {}
    BY DEF Range
  <2> QED
    BY <1>3, <2>1, BeforeFlush
<1>5. s.file # NoFile
  BY Records
<1>6. /\ UsedOf(u) = File.held \cup Passing(u) /\ HeldAt(u) = File.held
      /\ Passing(u)' = {} /\ UsedOf(u)' = s.file.held
      /\ Upto(u) <= got[u] /\ Upto(u) \in Int /\ Upto(u)' = got[u]
      /\ pc = "flush" => Passing(u) = {} /\ Upto(u) = got[u]
  <2>1. /\ UsedOf(u) = File.held \cup Passing(u) /\ HeldAt(u) = File.held
        /\ Upto(u) <= got[u] /\ Upto(u) \in Int
    BY <1>1, <1>3, <1>4, BeforePackets
  <2>2. pc = "flush" => Passing(u) = {} /\ Upto(u) = got[u]
    BY <1>1, <1>3, BeforePackets
  <2>3. Passing(u)' = {} /\ Upto(u)' = got[u]
    BY <1>1, AfterPackets
  <2>4. UsedOf(u)' = s.file.held
    <3>1. Range(s.ring) = {}
      BY <1>4
    <3> QED
      <4>1. UsedOf(u)' = Range(s.ring) \cup (IF s.file = NoFile THEN {} ELSE s.file.held)
                         \cup Passing(u)'
        BY <1>1, AfterPackets
      <4> QED
        BY <1>5, <2>3, <3>1, <4>1
  <2> QED
    BY <2>1, <2>2, <2>3, <2>4
<1>7. /\ G \subseteq UsedOf(u) /\ UsedOf(u)' \subseteq UsedOf(u) /\ UsedOf(u)' \cap G = {}
      /\ Passing(u)' \cap (Range(RingAt(u)) \cup HeldAt(u))' = {}
  BY <1>6
<1>8. Lost' \/ UsedOf(u) \subseteq UsedOf(u)' \cup G
  BY <1>6 DEF Lost
<1>9. Ordered(s.ring)
  BY <1>4 DEF Ordered
<1>10. StreamFlow(u)'
  <2>1. pc' \notin {"write", "flush", "drain", "drainFlush", "drainEnd", "open", "drainOpen",
                    "drainNext", "handle"}
    OBVIOUS
  <2> QED
    BY <1>1, <1>4, <2>1, AfterFlow
<1>11. StreamWhole(u)'
  <2>1. FileWhole(u, s.file)'
    <3>1. CASE pc = "flush"
      BY <1>3, <1>4, <1>6, <3>1, FileStays
    <3>2. CASE pc # "flush"
      <4>1. \A i \in File.ids : File.start.id <= i /\ i <= got[u]
        <5>1. \A i \in File.ids : i \in Nat /\ File.start.id <= i /\ i <= Upto(u)
          BY <1>4 DEF FileWhole, FileOf
        <5> QED
          BY <1>2, <1>3, <1>6, <5>1
      <4>2. Key(s.file.start)' /\ s.file.start.id \in s.file.ids
        BY <1>4 DEF FileWhole, Key
      <4> QED
        BY <1>4, <1>6, <3>2, <4>1, <4>2 DEF FileWhole
    <3> QED
      BY <3>1, <3>2
  <2> QED
    BY <1>1, <1>4, <2>1, AfterWhole
<1>12. Control'
  <2>1. pc' # "idle" => mu' = "free"
    BY DEF Worked
  <2>2. Known' \subseteq sources'
    BY <1>1, <1>2, AfterStreams DEF Control, Worked
  <2> QED
    BY <1>1, <2>1, <2>2, IdleControl
<1> QED
  BY <1>1, <1>7, <1>8, <1>9, <1>10, <1>11, <1>12, WorkStep

\* A flush that fails may give back what it did not write; a drain is cut short.
LEMMA FlushFailsStep ==
    ASSUME IInv, FlushFails
    PROVE  IInv'
<1>1. pc \in {"flush", "drainFlush", "drainEnd"} /\ pc \in Working /\ pc' = "send"
  BY DEF FlushFails, FlushDue, Finish, Working, Draining
<1>2. Shape /\ Control /\ Src \in Urls /\ Strm \in StreamOf /\ mu = "free"
  BY <1>1, Before
<1>3. PICK u \in Urls : u = Src
  BY <1>2
<1>4. File \in FileOf /\ File.last \subseteq File.held /\ recording
  BY <1>1, BeforeFlush
<1>5. /\ UNCHANGED <<mode, sources, stopping, got, time, par, reported, recording, cut,
                     mu, closed, infos>>
      /\ buf' = <<>>
      /\ failed' = failed \cup {"flush"} \cup (IF pc = "flush" THEN {} ELSE {"drain"})
  BY DEF FlushFails, rest, input
<1>6. PICK lost \in FlushLoses(File.held \ File.last) :
         /\ released' = released \cup Names(lost)
         /\ SetFile(u, [File EXCEPT !.held = @ \ lost, !.damaged = ~ Batched /\ lost # {}])
  BY <1>3 DEF FlushFails, Free
<1>7. lost \subseteq File.held \ File.last
  BY DEF FlushLoses
<1>8. PICK g \in FileOf : /\ g = [File EXCEPT !.held = @ \ lost, !.damaged = ~ Batched /\ lost # {}]
                          /\ g.held = File.held \ lost /\ g.last = File.last
                          /\ g.ids = File.ids /\ g.start = File.start
  <2>1. PICK b \in BOOLEAN : b = (~ Batched /\ lost # {})
    OBVIOUS
  <2>2. PICK a : a = [File EXCEPT !.held = @ \ lost]
    OBVIOUS
  <2>3. a \in FileOf /\ a.held = File.held \ lost /\ a.last = File.last
        /\ a.ids = File.ids /\ a.start = File.start
    BY <1>4, <2>2 DEF FileOf
  <2>4. PICK g : g = [a EXCEPT !.damaged = b]
    OBVIOUS
  <2>5. g \in FileOf /\ g.held = a.held /\ g.last = a.last /\ g.ids = a.ids /\ g.start = a.start
    BY <2>3, <2>4 DEF FileOf
  <2>6. g = [File EXCEPT !.held = @ \ lost, !.damaged = ~ Batched /\ lost # {}]
    BY <1>4, <2>1, <2>2, <2>4 DEF FileOf
  <2> QED
    BY <2>3, <2>5, <2>6
<1>9. PICK s \in StreamOf : /\ streams' = [streams EXCEPT ![u] = s]
                            /\ s.file = g /\ s.ring = Strm.ring /\ s.seen = Strm.seen
  <2>1. PICK s : s = [Strm EXCEPT !.file = g]
    OBVIOUS
  <2>2. s \in StreamOf /\ s.file = g /\ s.ring = Strm.ring /\ s.seen = Strm.seen
    BY <1>2, <2>1 DEF StreamOf
  <2>3. streams' = [streams EXCEPT ![u] = s]
    BY <1>2, <1>3, <1>6, <1>8, <2>1, SetFileIs DEF Strm
  <2> QED
    BY <2>2, <2>3
<1>10. Worked(u, s, lost)
  <2>1. pc' \in Working \cup {"idle", "send"} /\ pc' \notin Working /\ pc' \notin InHandSteps
    BY <1>1 DEF Working, InHandSteps, Draining
  <2> QED
    BY <1>2, <1>3, <1>4, <1>5, <1>6, <1>9, <2>1 DEF Worked, Shape
<1>11. lost = File.held \ g.held /\ g.last \subseteq g.held /\ g.held \subseteq File.held
  BY <1>4, <1>7, <1>8
<1>12. ClosedFilesReported'
  BY <1>2, <1>5 DEF Control, ClosedFilesReported
<1>13. pc # "flush" => "drain" \in failed'
  BY <1>5
<1>14. /\ s.file \in FileOf /\ s.file.ids = File.ids /\ s.file.start = File.start
       /\ s.file.last \subseteq s.file.held /\ s.file.held \subseteq File.held
       /\ lost = File.held \ s.file.held /\ s.ring = Strm.ring /\ s.seen = Strm.seen
  BY <1>8, <1>9, <1>11
<1>15. pc' \in {"idle", "send"} /\ (pc' = "idle" => infos' = {}) /\ recording' = recording
  BY <1>1, <1>5
<1> QED
  BY <1>1, <1>5, <1>10, <1>12, <1>13, <1>14, <1>15, FlushEnds

\* A flush of a damaged file panics, with the mutex held.
LEMMA FlushPanicsStep ==
    ASSUME IInv, FlushPanics
    PROVE  IInv'
<1>1. pc \in {"flush", "drainFlush", "drainEnd"} /\ pc \in Working /\ pc' = "idle" /\ File.damaged
  BY DEF FlushPanics, FlushDue, Panic, Working, Draining
<1>2. Shape /\ Control /\ Src \in Urls /\ Strm \in StreamOf /\ mu = "free"
  BY <1>1, Before
<1>3. PICK u \in Urls : u = Src
  BY <1>2
<1>4. File \in FileOf /\ File.last \subseteq File.held /\ recording /\ pc = "flush"
  BY <1>1, BeforeFlush
<1>5. /\ UNCHANGED <<mode, sources, stopping, got, time, par, reported, recording, cut, streams,
                     released, closed, failed>>
      /\ buf' = <<>> /\ infos' = {} /\ mu' = "lost"
  BY DEF FlushPanics, Panic, rest, input
<1>6. Worked(u, Strm, {})
  <2>1. pc' \in Working \cup {"idle", "send"} /\ pc' \notin Working /\ pc' \notin InHandSteps
    BY <1>1 DEF Working, InHandSteps, Draining
  <2>2. released' = released \cup Names({})
    BY <1>5 DEF Names
  <2>3. streams' = [streams EXCEPT ![u] = Strm]
    BY <1>2, <1>3, <1>5 DEF Strm, Shape
  <2> QED
    <3>1. recording' \in BOOLEAN /\ \A v \in Urls : v # u /\ FileAt(v) # NoFile => recording'
      BY <1>2, <1>4, <1>5 DEF Shape
    <3>2. buf' \in Seq(Pkts) /\ cut \subseteq cut' /\ failed \subseteq failed'
      BY <1>5
    <3> QED
      BY <1>1, <1>3, <1>5, <2>1, <2>2, <2>3, <3>1, <3>2 DEF Worked
<1>7. ClosedFilesReported'
  BY <1>5 DEF ClosedFilesReported
<1>8. Strm.file = File
  BY DEF File
<1> QED
  BY <1>1, <1>2, <1>4, <1>5, <1>6, <1>7, <1>8, FlushEnds

-----------------------------------------------------------------------------
(* The pre-buffer becomes the first files of a session *)

\* What Step finds in the pre-buffer it took.
LEMMA BeforeDrain ==
    ASSUME IInv, pc \in {"drainOpen", "drain", "drainNext"}
    PROVE  /\ pc \in Working /\ pc \in Draining /\ pc \notin InHandSteps
           /\ buf \in Seq(Pkts) /\ buf # <<>> /\ Len(buf) \in Nat \ {0} /\ DOMAIN buf = 1 .. Len(buf)
           /\ \A i \in 1 .. Len(buf) : /\ buf[i] \in Pkts /\ buf[i] \in Range(buf)
                                       /\ buf[i].id \in Nat /\ buf[i].id <= got[Src]
           /\ Head(buf) = buf[1] /\ Ordered(buf)
           /\ Covers(IdsOf(buf), Src, buf[1].id, got[Src])
           /\ Strm.ring = <<>> /\ Range(Strm.ring) = {} /\ Strm.seen
           /\ Passing(Src) = Range(buf) /\ UsedOf(Src) = HeldAt(Src) \cup Range(buf)
           /\ Range(buf) \cap HeldAt(Src) = {} /\ Upto(Src) = buf[1].id - 1
           /\ HeldAt(Src) = IF File = NoFile THEN {} ELSE File.held
           /\ pc # "drain" => File = NoFile
           /\ pc = "drain" => /\ File # NoFile /\ File \in FileOf /\ ~ File.damaged
                              /\ File.last \subseteq File.held /\ recording
<1>1. pc \in Working /\ pc \in Draining /\ pc \notin InHandSteps
  BY DEF Working, Draining, InHandSteps
<1>2. /\ Shape /\ Control /\ StreamFlow(Src) /\ StreamOwners(Src) /\ StreamWhole(Src)
      /\ FileAt(Src) = File /\ RingAt(Src) = Strm.ring /\ SeenAt(Src) = Strm.seen
      /\ (File # NoFile => File \in FileOf)
  BY <1>1, Before
<1>3. PICK n \in Nat : n = Len(buf) /\ DOMAIN buf = 1 .. n /\ buf \in Seq(Pkts) /\ buf # <<>>
  BY <1>2 DEF Shape, Control
<1>4. n # 0 /\ 1 \in 1 .. n
  BY <1>3, EmptyIsLengthZero
<1>5. /\ At(Src, Draining) /\ At(Src, Working \ {"codec", "handle"})
      /\ pc = "drain" <=> At(Src, {"drain"})
      /\ pc # "drain" <=> At(Src, {"open", "drainOpen", "drainNext"})
      /\ pc = "drain" <=> At(Src, {"drain", "drainFlush", "drainEnd"})
      /\ pc = "drain" <=> At(Src, {"write", "flush", "drain", "drainFlush", "drainEnd"})
  BY <1>1 DEF At
<1>6. Strm.ring = <<>> /\ Strm.seen
  BY <1>2, <1>5 DEF StreamFlow
<1>7. Range(Strm.ring) = {}
  BY <1>6 DEF Range
<1>8. /\ pc # "drain" => File = NoFile
      /\ pc = "drain" => /\ File # NoFile /\ File \in FileOf /\ ~ File.damaged
                         /\ File.last \subseteq File.held /\ recording
  BY <1>2, <1>5 DEF StreamFlow
<1>9. /\ Passing(Src) = Range(buf) /\ UsedOf(Src) = HeldAt(Src) \cup Range(buf)
      /\ Upto(Src) = buf[1].id - 1
      /\ HeldAt(Src) = IF File = NoFile THEN {} ELSE File.held
  <2>1. Passing(Src) = Range(buf)
    BY <1>1, BeforePackets
  <2>2. UsedOf(Src) = HeldAt(Src) \cup Range(buf)
    BY <1>1, <1>7, <2>1, BeforePackets
  <2>3. Upto(Src) = buf[1].id - 1
    BY <1>1, <1>3, BeforePackets
  <2> QED
    BY <1>1, <2>1, <2>2, <2>3, BeforePackets
<1>10. Range(buf) \cap HeldAt(Src) = {}
  BY <1>2, <1>9 DEF StreamOwners
<1>11. \A i \in 1 .. n : /\ buf[i] \in Pkts /\ buf[i] \in Range(buf)
                         /\ buf[i].id \in Nat /\ buf[i].id <= got[Src]
  <2>1. \A i \in 1 .. n : buf[i] \in Pkts /\ buf[i] \in Range(buf)
    BY <1>3 DEF Range
  <2> QED
    BY <1>1, <1>9, <2>1, BeforePackets
<1>12. Head(buf) = buf[1]
  BY <1>3
<1>13. Ordered(buf) /\ Covers(IdsOf(buf), Src, buf[1].id, got[Src])
  BY <1>2, <1>3, <1>5 DEF Control, StreamWhole
<1> QED
  BY <1>1, <1>3, <1>4, <1>6, <1>7, <1>8, <1>9, <1>10, <1>11, <1>12, <1>13

\* The keyframe a drain starts at.
LEMMA StartIsKeyframe ==
    ASSUME NEW ps \in Seq(Pkts), NEW n \in Nat \ {0}, n = Len(ps), Key(ps[n]), NEW stop \in Int
    PROVE  /\ findFirstKeyframe(ps) \in 1 .. n /\ Key(ps[findFirstKeyframe(ps)])
           /\ LET k == findKeyframeAtOrAfter(ps, findFirstKeyframe(ps), stop) IN
              k \in 1 .. n /\ Key(ps[k])
<1>1. PICK S : S = {i \in 1 .. Len(ps) : Key(ps[i])}
  OBVIOUS
<1>2. S \in SUBSET Nat /\ n \in S /\ S \subseteq 1 .. n
  BY <1>1
<1>3. PICK f : f = findFirstKeyframe(ps)
  OBVIOUS
<1>4. f = Min(S)
  BY <1>1, <1>2, <1>3 DEF findFirstKeyframe
<1>5. f \in 1 .. n /\ Key(ps[f])
  BY <1>1, <1>2, <1>4, MinProperties
<1>6. PICK T : T = {i \in f .. Len(ps) : Key(ps[i]) /\ ps[i].t >= stop}
  OBVIOUS
<1>7. T \in SUBSET Nat /\ \A i \in T : i \in 1 .. n /\ Key(ps[i])
  BY <1>5, <1>6
<1>8. PICK k : k = findKeyframeAtOrAfter(ps, f, stop)
  OBVIOUS
<1>9. k = IF T = {} THEN f ELSE Min(T)
  BY <1>6, <1>8 DEF findKeyframeAtOrAfter
<1>10. k \in 1 .. n /\ Key(ps[k])
  BY <1>5, <1>7, <1>9, MinProperties
<1> QED
  BY <1>3, <1>5, <1>8, <1>10

\* A sequence of packets, cut before its k-th.
Skipped(s, k) == {s[i] : i \in 1 .. k - 1}
Splits(s, k, t, G) ==
    /\ t \in Seq(Pkts) /\ t # <<>> /\ Ordered(t) /\ t[1] = s[k]
    /\ Range(s) = G \cup Range(t)
    /\ \A p \in G : p.id < s[k].id
    /\ \A q \in Range(t) : q.id >= s[k].id

\* What is before the k-th packet is older than all from there on.
LEMMA SuffixSplits ==
    ASSUME NEW s \in Seq(Pkts), Ordered(s), NEW k \in 1 .. Len(s), NEW t,
           t = SubSeq(s, k, Len(s)), NEW G, G = Skipped(s, k)
    PROVE  Splits(s, k, t, G)
<1> USE DEF Skipped
<1>1. PICK n \in Nat : n = Len(s) /\ DOMAIN s = 1 .. n
  OBVIOUS
<1>2. k \in 1 .. n /\ 1 \in 1 .. n - k + 1 /\ k + 1 - 1 = k
  BY <1>1
<1>3. /\ Left(t, s) /\ SameLast(t, s) /\ Len(t) = n - k + 1
      /\ \A j \in 1 .. n - k + 1 : t[j] = s[k + j - 1]
  BY <1>1, SuffixLeft
<1>4. t \in Seq(Pkts) /\ t # <<>> /\ Ordered(t) /\ DOMAIN t = 1 .. n - k + 1
  <2>1. t \in Seq(Pkts) /\ t # <<>> /\ Ordered(t)
    BY <1>3 DEF Left, SameLast
  <2>2. DOMAIN t = 1 .. Len(t)
    BY <2>1
  <2> QED
    BY <1>3, <2>1, <2>2
<1>5. t[1] = s[k]
  BY <1>2, <1>3
<1>6. \A i \in 1 .. n : s[i] \in Pkts /\ s[i].id \in Nat
  <2>1. \A i \in 1 .. n : s[i] \in Pkts
    BY <1>1
  <2>2. \A p \in Pkts : p.id \in Nat
    BY DEF Pkts
  <2> QED
    BY <2>1, <2>2
<1>7. \A p \in G : p \in Range(s) /\ p.id < s[k].id
  <2>1. \A i \in 1 .. k - 1 : i \in 1 .. n /\ i < k
    BY <1>2
  <2> QED
    BY <1>1, <1>2, <2>1 DEF Ordered, Range
<1>8. \A q \in Range(t) : q \in Range(s) /\ q.id >= s[k].id
  <2>1. \A j \in 1 .. n - k + 1 : /\ k + j - 1 \in 1 .. n /\ k + j - 1 >= k
    BY <1>2
  <2>2. \A j \in k .. n : s[j].id >= s[k].id
    <3> SUFFICES ASSUME NEW j \in k .. n PROVE s[j].id >= s[k].id
      OBVIOUS
    <3>1. j \in 1 .. n /\ (j = k \/ k < j)
      BY <1>2
    <3>2. CASE j = k
      BY <1>2, <1>6, <3>2
    <3>3. CASE k < j
      <4>1. s[k].id < s[j].id
        BY <1>1, <1>2, <3>1, <3>3 DEF Ordered
      <4> QED
        BY <1>2, <1>6, <3>1, <4>1
    <3> QED
      BY <3>1, <3>2, <3>3
  <2>3. \A j \in 1 .. n - k + 1 : t[j] \in Range(s) /\ t[j].id >= s[k].id
    <3>1. \A j \in 1 .. n - k + 1 : k + j - 1 \in k .. n
      BY <1>2
    <3> QED
      BY <1>1, <1>3, <2>1, <2>2, <3>1 DEF Range
  <2> QED
    BY <1>4, <2>3 DEF Range
<1>9. \A p \in Range(s) : p \in G \/ p \in Range(t)
  <2> SUFFICES ASSUME NEW i \in 1 .. n PROVE s[i] \in G \/ s[i] \in Range(t)
    BY <1>1 DEF Range
  <2>1. CASE i < k
    <3>1. i \in 1 .. k - 1
      BY <1>2, <2>1
    <3> QED
      BY <3>1
  <2>2. CASE i >= k
    <3>1. i - k + 1 \in 1 .. n - k + 1 /\ k + (i - k + 1) - 1 = i
      BY <1>2, <2>2
    <3>2. t[i - k + 1] = s[i]
      BY <1>3, <3>1
    <3> QED
      BY <1>4, <3>1, <3>2 DEF Range
  <2> QED
    BY <1>2, <2>1, <2>2
<1> QED
  BY <1>4, <1>5, <1>7, <1>8, <1>9 DEF Splits

\* A sequence of packets without its first.
LEMMA TailSplits ==
    ASSUME NEW s \in Seq(Pkts), s # <<>>, Ordered(s), NEW t, t = Tail(s)
    PROVE  /\ t \in Seq(Pkts) /\ Ordered(t)
           /\ Range(s) = {s[1]} \cup Range(t)
           /\ \A q \in Range(t) : s[1].id < q.id
           /\ t # <<>> => t[1] \in Range(t) /\ \A q \in Range(t) : t[1].id <= q.id
<1>1. PICK n \in Nat : n = Len(s) /\ DOMAIN s = 1 .. n /\ n # 0
  BY EmptyIsLengthZero
<1>2. /\ t \in Seq(Pkts) /\ Len(t) = n - 1 /\ DOMAIN t = 1 .. n - 1
      /\ \A i \in 1 .. n - 1 : t[i] = s[i + 1]
  <2>1. t \in Seq(Pkts) /\ Len(t) = n - 1 /\ \A i \in 1 .. n - 1 : t[i] = s[i + 1]
    BY <1>1
  <2> QED
    BY <1>1, <2>1
<1>3. \A i \in 1 .. n : s[i] \in Pkts /\ s[i].id \in Nat
  <2>1. \A i \in 1 .. n : s[i] \in Pkts
    BY <1>1
  <2>2. \A p \in Pkts : p.id \in Nat
    BY DEF Pkts
  <2> QED
    BY <2>1, <2>2
<1>4. \A i \in 1 .. n - 1 : i \in 1 .. n /\ i + 1 \in 1 .. n /\ 1 < i + 1 /\ 1 \in 1 .. n
  BY <1>1
<1>5. \A i \in 1 .. n - 1 : s[1].id < t[i].id
  BY <1>1, <1>2, <1>4 DEF Ordered
<1>6. ASSUME NEW i \in 1 .. n - 1, NEW j \in 1 .. n - 1, i < j
      PROVE  t[i].id < t[j].id
  <2>1. i + 1 \in 1 .. n /\ j + 1 \in 1 .. n /\ i + 1 < j + 1
    BY <1>1, <1>6
  <2> QED
    BY <1>1, <1>2, <2>1 DEF Ordered
<1>7. Ordered(t)
  BY <1>2, <1>6 DEF Ordered
<1>8. Range(s) = {s[1]} \cup Range(t)
  <2>1. \A i \in 1 .. n : i = 1 \/ (i - 1 \in 1 .. n - 1 /\ (i - 1) + 1 = i)
    BY <1>1
  <2>2. 1 \in 1 .. n
    BY <1>1
  <2>3. \A i \in 1 .. n : s[i] = s[1] \/ s[i] \in Range(t)
    <3> SUFFICES ASSUME NEW i \in 1 .. n, i # 1 PROVE s[i] \in Range(t)
      OBVIOUS
    <3>1. i - 1 \in DOMAIN t /\ t[i - 1] = s[i]
      BY <1>2, <2>1
    <3> QED
      BY <3>1 DEF Range
  <2>4. \A i \in 1 .. n - 1 : t[i] \in Range(s)
    BY <1>1, <1>2, <1>4 DEF Range
  <2>5. s[1] \in Range(s) /\ Range(t) \subseteq Range(s)
    BY <1>1, <1>2, <2>2, <2>4 DEF Range
  <2>6. \A p \in Range(s) : p = s[1] \/ p \in Range(t)
    BY <1>1, <2>3 DEF Range
  <2> QED
    BY <2>5, <2>6
<1>9. ASSUME t # <<>>
      PROVE  t[1] \in Range(t) /\ \A q \in Range(t) : t[1].id <= q.id
  <2>1. 1 \in 1 .. n - 1
    BY <1>1, <1>2, <1>9, EmptyIsLengthZero
  <2>2. ASSUME NEW i \in 1 .. n - 1
        PROVE  t[1].id <= t[i].id
    <3>1. PICK a \in Nat, b \in Nat : a = t[1].id /\ b = t[i].id
      BY <1>2, <1>3, <1>4, <2>1
    <3>2. CASE i = 1
      <4>1. a = b
        BY <3>1, <3>2, Zenon
      <4>2. a <= b
        BY <4>1
      <4> QED
        BY <3>1, <4>2, Zenon
    <3>3. CASE i # 1
      <4>1. 1 < i /\ 1 \in 1 .. n - 1
        BY <2>1, <3>3
      <4>2. t[1].id < t[i].id
        BY <1>6, <4>1
      <4>3. a < b
        BY <3>1, <4>2, Zenon
      <4>4. a <= b
        BY <4>3
      <4> QED
        BY <3>1, <4>4, Zenon
    <3> QED
      BY <3>2, <3>3
  <2> QED
    BY <1>2, <2>1, <2>2 DEF Range
<1> QED
  BY <1>2, <1>5, <1>7, <1>8, <1>9 DEF Range

\* The drain starts at a keyframe; what comes before is given back.
LEMMA DrainOpenStep ==
    ASSUME IInv, DrainOpen
    PROVE  IInv'
<1>1. pc = "drainOpen" /\ pc' = "drain" /\ pc \in Working /\ pc \in Draining /\ pc \notin InHandSteps
      /\ pc' \in Working /\ pc' \notin InHandSteps /\ pc' \in Draining /\ pc' # "codec"
  BY DEF DrainOpen, Finish, Working, InHandSteps, Draining
<1>2. /\ Shape /\ Control /\ Src \in Urls /\ Strm \in StreamOf /\ mu = "free"
      /\ got[Src] \in Nat
  BY <1>1, Before
<1>3. PICK u \in Urls : u = Src
  BY <1>2
<1>4. PICK n \in Nat \ {0} : n = Len(buf) /\ DOMAIN buf = 1 .. n
  BY <1>1, BeforeDrain
<1>5. /\ buf \in Seq(Pkts) /\ Ordered(buf) /\ Covers(IdsOf(buf), u, buf[1].id, got[u])
      /\ Strm.seen /\ Strm.ring = <<>>
      /\ \A i \in 1 .. n : buf[i] \in Pkts /\ buf[i].id \in Nat
      /\ HeldAt(u) = {} /\ UsedOf(u) = Range(buf)
  BY <1>1, <1>3, <1>4, BeforeDrain
<1>6. PICK k : k = Start
  OBVIOUS
<1>7. k \in 1 .. n /\ Key(buf[k])
  <2>1. Key(buf[n]) /\ Strm.stop \in Int
    BY <1>1, <1>2, <1>4 DEF Control, StreamOf
  <2> QED
    BY <1>4, <1>5, <1>6, <2>1, StartIsKeyframe DEF Start
<1>8. PICK t : t = SubSeq(buf, k, Len(buf))
  OBVIOUS
<1>9. PICK G : G = Skipped(buf, k)
  OBVIOUS
<1>10. /\ t \in Seq(Pkts) /\ t # <<>> /\ Ordered(t) /\ t[1] = buf[k]
       /\ Range(buf) = G \cup Range(t)
       /\ \A p \in G : p.id < buf[k].id
       /\ \A q \in Range(t) : q.id >= buf[k].id
  <2>1. k \in 1 .. Len(buf)
    BY <1>4, <1>7
  <2> QED
    <3>1. buf \in Seq(Pkts) /\ Ordered(buf)
      BY <1>5
    <3>2. Splits(buf, k, t, G)
      BY <1>8, <1>9, <2>1, <3>1, SuffixSplits, Zenon
    <3> QED
      BY <3>2 DEF Splits
<1>11. /\ UNCHANGED <<mode, sources, stopping, got, time, par, reported, cut, failed,
                      mu, closed, infos>>
       /\ buf' = t /\ job' = job /\ recording' = TRUE /\ released' = released \cup Names(G)
  BY <1>6, <1>8, <1>9 DEF DrainOpen, drained, rest, input, Finish, Free, Skipped
<1>12. PICK g \in FileOf : /\ g = NewFile(buf[k], Strm.par) /\ g # NoFile /\ g.ids = {}
                           /\ g.start = buf[k] /\ g.held = {} /\ g.last = {} /\ ~ g.damaged
  <2>1. Strm.par \in Nat
    BY <1>2 DEF StreamOf
  <2> QED
    BY <1>5, <1>7, <2>1, NewFileIs
<1>13. PICK s \in StreamOf : /\ streams' = [streams EXCEPT ![u] = s]
                             /\ s.file = g /\ s.ring = <<>> /\ s.seen
  <2>1. PICK a : a = [Strm EXCEPT !.file = g]
    OBVIOUS
  <2>2. a \in StreamOf /\ a.file = g /\ a.ring = <<>> /\ a.seen
    BY <1>2, <1>5, <2>1 DEF StreamOf
  <2>3. PICK b : b = [a EXCEPT !.session = 0]
    OBVIOUS
  <2>4. b \in StreamOf /\ b.file = g /\ b.ring = <<>> /\ b.seen
    BY <2>2, <2>3 DEF StreamOf
  <2>5. PICK c : c = [b EXCEPT !.wall = FALSE]
    OBVIOUS
  <2>6. c \in StreamOf /\ c.file = g /\ c.ring = <<>> /\ c.seen
    BY <2>4, <2>5 DEF StreamOf
  <2>7. c = [Strm EXCEPT !.file = g, !.session = 0, !.wall = FALSE]
    BY <1>2, <2>1, <2>3, <2>5 DEF StreamOf
  <2> QED
    BY <1>3, <1>6, <1>12, <2>6, <2>7 DEF DrainOpen, SetStream
<1>14. Worked(u, s, G)
  BY <1>1, <1>2, <1>3, <1>10, <1>11, <1>13 DEF Worked
<1>15. Passing(u)' = Range(t) /\ UsedOf(u)' = Range(t) /\ HeldAt(u)' = {} /\ RingAt(u)' = <<>>
  <2>1. Range(s.ring) = {}
    BY <1>13 DEF Range
  <2>2. Passing(u)' = Range(t)
    BY <1>1, <1>11, <1>14, AfterPackets
  <2>3. UsedOf(u)' = Range(s.ring) \cup (IF s.file = NoFile THEN {} ELSE s.file.held)
                     \cup Passing(u)'
    BY <1>1, <1>14, AfterPackets
  <2>4. HeldAt(u)' = IF s.file = NoFile THEN {} ELSE s.file.held
    BY <1>1, <1>14, AfterPackets
  <2>5. RingAt(u)' = <<>>
    BY <1>1, <1>13, <1>14, AfterStreams
  <2> QED
    BY <1>12, <1>13, <2>1, <2>2, <2>3, <2>4, <2>5
<1>16. Range(t) \cap G = {}
  <2> SUFFICES ASSUME NEW p \in Range(t), p \in G PROVE FALSE
    OBVIOUS
  <2>1. p.id < buf[k].id /\ p.id >= buf[k].id /\ buf[k].id \in Nat
    BY <1>5, <1>7, <1>10
  <2>2. p.id \in Nat
    <3>1. p \in Range(buf)
      BY <1>10
    <3> QED
      BY <1>4, <1>5, <3>1 DEF Range
  <2> QED
    BY <2>1, <2>2
<1>17. /\ G \subseteq UsedOf(u) /\ UsedOf(u)' \subseteq UsedOf(u) /\ UsedOf(u)' \cap G = {}
       /\ UsedOf(u) \subseteq UsedOf(u)' \cup G
       /\ Passing(u)' \cap (Range(RingAt(u)) \cup HeldAt(u))' = {}
  <2>1. Range(RingAt(u))' = {}
    BY <1>15 DEF Range
  <2> QED
    BY <1>5, <1>10, <1>15, <1>16, <2>1
<1>18. Ordered(s.ring)
  BY <1>13 DEF Ordered
<1>19. StreamFlow(u)'
  BY <1>1, <1>11, <1>12, <1>13, <1>14, AfterFlow
<1>20. StreamWhole(u)'
  <2>1. At(u, {"drain"})' /\ buf'[1] = buf[k]
    BY <1>1, <1>3, <1>10, <1>11 DEF At, Src
  <2>2. FileWhole(u, s.file)'
    BY <1>7, <1>12, <1>13, <2>1 DEF FileWhole, Key
  <2>3. ASSUME NEW i \in t[1].id .. got[u]
        PROVE  i \in IdsOf(t) \/ <<u, i>> \in cut'
    <3>1. buf[1].id <= buf[k].id
      <4>1. 1 \in 1 .. n /\ (k = 1 \/ 1 < k)
        BY <1>4, <1>7
      <4>2. CASE k = 1
        BY <1>5, <4>1, <4>2
      <4>3. CASE 1 < k
        <5>1. buf[1].id < buf[k].id
          BY <1>4, <1>5, <1>7, <4>1, <4>3 DEF Ordered
        <5> QED
          BY <1>5, <1>7, <4>1, <5>1
      <4> QED
        BY <4>1, <4>2, <4>3
    <3>2. i \in buf[1].id .. got[u] /\ i >= buf[k].id /\ buf[k].id \in Nat /\ i \in Nat
      <4>1. 1 \in 1 .. n /\ t[1].id = buf[k].id
        BY <1>4, <1>10
      <4>2. buf[1].id \in Nat /\ buf[k].id \in Nat
        BY <1>5, <1>7, <4>1
      <4> QED
        BY <1>2, <1>3, <2>3, <3>1, <4>1, <4>2
    <3>3. CASE <<u, i>> \in cut
      BY <1>11, <3>3
    <3>4. CASE i \in IdsOf(buf)
      <4>1. PICK p \in Range(buf) : p.id = i
        BY <3>4 DEF IdsOf
      <4>2. p \notin G
        BY <1>10, <3>2, <4>1
      <4> QED
        BY <1>10, <4>1, <4>2 DEF IdsOf
    <3> QED
      BY <1>5, <3>2, <3>3, <3>4 DEF Covers
  <2> QED
    BY <1>1, <1>11, <1>13, <1>14, <2>2, <2>3, AfterWhole
<1>21. Control'
  <2>1. ClosedFilesReported'
    BY <1>2, <1>11 DEF Control, ClosedFilesReported
  <2> QED
    BY <1>1, <1>10, <1>11, <1>14, <2>1, WorkControl
<1> QED
  BY <1>1, <1>14, <1>17, <1>18, <1>19, <1>20, <1>21, WorkStep

\* The drain ends when no file can be opened: the pre-buffer is given back.
LEMMA DrainOpenFailsStep ==
    ASSUME IInv, DrainOpenFails
    PROVE  IInv'
<1>1. pc \in {"drainOpen", "drainNext"} /\ pc' = "send" /\ pc \in Working
      /\ pc' \notin Working /\ pc' \notin InHandSteps
  BY DEF DrainOpenFails, Finish, Working, InHandSteps, Draining
<1>2. /\ Shape /\ Control /\ Src \in Urls /\ Strm \in StreamOf /\ mu = "free"
  BY <1>1, Before
<1>3. PICK u \in Urls : u = Src
  BY <1>2
<1>4. Strm.file = NoFile /\ Strm.ring = <<>> /\ UsedOf(u) = Range(buf)
  BY <1>1, <1>3, BeforeDrain DEF File
<1>5. /\ UNCHANGED <<mode, sources, stopping, got, time, par, reported, recording, streams,
                     cut, failed, closed, infos, mu>>
      /\ released' = released \cup Names(Range(buf)) /\ buf' = <<>>
  BY DEF DrainOpenFails, drained, rest, input, Free
<1>6. Worked(u, Strm, Range(buf))
  <2>1. streams' = [streams EXCEPT ![u] = Strm]
    BY <1>2, <1>3, <1>5 DEF Strm, Shape
  <2>2. \A v \in Urls : v # u /\ FileAt(v) # NoFile => recording'
    BY <1>5 DEF IInv, StreamFlow
  <2>3. recording' \in BOOLEAN /\ buf' \in Seq(Pkts) /\ cut \subseteq cut' /\ failed \subseteq failed'
    BY <1>2, <1>5 DEF Shape
  <2> QED
    BY <1>1, <1>2, <1>3, <1>5, <2>1, <2>2, <2>3 DEF Worked
<1>7. ClosedFilesReported'
  BY <1>2, <1>5 DEF Control, ClosedFilesReported
<1> QED
  BY <1>1, <1>2, <1>4, <1>5, <1>6, <1>7, StreamEnds

\* The next file of the drain starts at the keyframe the last one ended before.
LEMMA DrainNextStep ==
    ASSUME IInv, DrainNext
    PROVE  IInv'
<1>1. pc = "drainNext" /\ pc' = "drain" /\ pc \in Working /\ pc \in Draining /\ pc \notin InHandSteps
      /\ pc' \in Working /\ pc' \notin InHandSteps /\ pc' \in Draining /\ pc' # "codec"
  BY DEF DrainNext, Finish, Working, InHandSteps, Draining
<1>2. /\ Shape /\ Control /\ Src \in Urls /\ Strm \in StreamOf /\ mu = "free"
  BY <1>1, Before
<1>3. PICK u \in Urls : u = Src
  BY <1>2
<1>4. /\ buf \in Seq(Pkts) /\ buf # <<>> /\ Ordered(buf)
      /\ Covers(IdsOf(buf), u, buf[1].id, got[u])
      /\ Strm.seen /\ Strm.ring = <<>> /\ File = NoFile /\ Head(buf) = buf[1]
      /\ buf[1] \in Pkts /\ UsedOf(u) = Range(buf) /\ HeldAt(u) = {}
  <2>1. /\ buf \in Seq(Pkts) /\ buf # <<>> /\ Ordered(buf)
        /\ Covers(IdsOf(buf), u, buf[1].id, got[u])
        /\ Strm.seen /\ Strm.ring = <<>> /\ File = NoFile /\ Head(buf) = buf[1]
    BY <1>1, <1>3, BeforeDrain
  <2>2. UsedOf(u) = Range(buf) /\ HeldAt(u) = {}
    BY <1>1, <1>3, BeforeDrain
  <2>3. buf[1] \in Pkts
    BY <2>1, EmptyIsLengthZero
  <2> QED
    BY <2>1, <2>2, <2>3
<1>5. Key(buf[1]) /\ recording /\ recording \in BOOLEAN
  BY <1>1, <1>2 DEF Control, Shape
<1>6. /\ UNCHANGED <<mode, sources, stopping, got, time, par, reported, cut, failed, buf,
                     mu, closed, infos, recording, released>>
      /\ job' = job /\ SetFile(u, NewFile(buf[1], Strm.par))
  BY <1>3, <1>4 DEF DrainNext, drained, rest, input, Finish
<1>7. PICK g \in FileOf : /\ g = NewFile(buf[1], Strm.par) /\ g # NoFile /\ g.ids = {}
                          /\ g.start = buf[1] /\ g.held = {} /\ g.last = {} /\ ~ g.damaged
  <2>1. Strm.par \in Nat
    BY <1>2 DEF StreamOf
  <2> QED
    BY <1>4, <2>1, NewFileIs
<1>8. PICK s \in StreamOf : /\ streams' = [streams EXCEPT ![u] = s]
                            /\ s.file = g /\ s.ring = <<>> /\ s.seen
  <2>1. PICK s : s = [Strm EXCEPT !.file = g]
    OBVIOUS
  <2>2. s \in StreamOf /\ s.file = g /\ s.ring = <<>> /\ s.seen
    BY <1>2, <1>4, <2>1 DEF StreamOf
  <2>3. streams' = [streams EXCEPT ![u] = s]
    BY <1>2, <1>3, <1>6, <1>7, <2>1, SetFileIs DEF Strm
  <2> QED
    BY <2>2, <2>3
<1>9. Worked(u, s, {})
  <2>1. released' = released \cup Names({})
    BY <1>6 DEF Names
  <2> QED
    BY <1>1, <1>2, <1>3, <1>4, <1>5, <1>6, <1>8, <2>1 DEF Worked
<1>10. /\ Passing(u)' = Range(buf) /\ UsedOf(u)' = Range(buf)
       /\ HeldAt(u)' = {} /\ RingAt(u)' = <<>>
  <2>1. Range(s.ring) = {}
    BY <1>8 DEF Range
  <2>2. Passing(u)' = Range(buf)
    BY <1>1, <1>6, <1>9, AfterPackets
  <2>3. UsedOf(u)' = Range(s.ring) \cup (IF s.file = NoFile THEN {} ELSE s.file.held)
                     \cup Passing(u)'
    BY <1>1, <1>9, AfterPackets
  <2>4. HeldAt(u)' = IF s.file = NoFile THEN {} ELSE s.file.held
    BY <1>1, <1>9, AfterPackets
  <2>5. RingAt(u)' = <<>>
    BY <1>1, <1>8, <1>9, AfterStreams
  <2> QED
    BY <1>7, <1>8, <2>1, <2>2, <2>3, <2>4, <2>5
<1>11. /\ UsedOf(u)' \subseteq UsedOf(u) /\ UsedOf(u) \subseteq UsedOf(u)' \cup {}
       /\ Passing(u)' \cap (Range(RingAt(u)) \cup HeldAt(u))' = {}
  <2>1. Range(RingAt(u))' = {}
    BY <1>10 DEF Range
  <2> QED
    BY <1>4, <1>10, <2>1
<1>12. Ordered(s.ring)
  BY <1>8 DEF Ordered
<1>13. StreamFlow(u)'
  BY <1>1, <1>5, <1>6, <1>7, <1>8, <1>9, AfterFlow
<1>14. StreamWhole(u)'
  <2>1. At(u, {"drain"})' /\ buf'[1] = buf[1]
    BY <1>1, <1>3, <1>6 DEF At, Src
  <2>2. FileWhole(u, s.file)'
    BY <1>5, <1>7, <1>8, <2>1 DEF FileWhole, Key
  <2>3. \A i \in buf[1].id .. got[u] : i \in IdsOf(buf) \/ <<u, i>> \in cut'
    BY <1>4, <1>6 DEF Covers
  <2> QED
    BY <1>1, <1>6, <1>8, <1>9, <2>2, <2>3, AfterWhole
<1>15. Control'
  <2>1. ClosedFilesReported'
    BY <1>2, <1>6 DEF Control, ClosedFilesReported
  <2> QED
    BY <1>1, <1>4, <1>5, <1>6, <1>9, <2>1, WorkControl
<1> QED
  BY <1>1, <1>9, <1>11, <1>12, <1>13, <1>14, <1>15, WorkStep

\* At a keyframe the file of the drain may be long enough: it is finished.
LEMMA DrainCloseStep ==
    ASSUME IInv, DrainClose
    PROVE  IInv'
<1>1. pc = "drain" /\ pc \in Working /\ pc \in Draining /\ pc \notin InHandSteps
  BY DEF DrainClose, Working, InHandSteps, Draining
<1>2. /\ Shape /\ Control /\ Src \in Urls /\ Strm \in StreamOf /\ mu = "free"
  BY <1>1, Before
<1>3. PICK u \in Urls : u = Src
  BY <1>2
<1>4. /\ buf \in Seq(Pkts) /\ buf # <<>> /\ Ordered(buf)
      /\ Covers(IdsOf(buf), u, buf[1].id, got[u])
      /\ Strm.seen /\ Strm.ring = <<>> /\ File # NoFile /\ Head(buf) = buf[1]
      /\ HeldAt(u) = File.held /\ UsedOf(u) = File.held \cup Range(buf)
      /\ Range(buf) \cap File.held = {} /\ recording
  BY <1>1, <1>3, BeforeDrain
<1>5. /\ UNCHANGED <<mode, sources, stopping, got, time, par, reported, cut, failed, recording>>
      /\ Key(buf[1]) /\ recording \in BOOLEAN
  BY <1>2, <1>4 DEF DrainClose, DrainRotates, drained, rest, input, Shape
<1>6. PICK r \in CloseResults(File, 0) :
           /\ FileClosed(u, r)
           /\ Free(File.held \cup IF r = "error" THEN Range(buf) ELSE {})
           /\ buf' = IF r \in {"none", "info"} THEN buf ELSE <<>>
           /\ IF r = "panic" THEN Panic /\ job' = NoJob
              ELSE Finish(IF r = "error" THEN "send" ELSE "drainNext") /\ UNCHANGED mu
  BY <1>3, Zenon DEF DrainClose
<1>7. r \in {"none", "info", "error", "panic"}
  BY CloseResultsAre
<1>8. PICK G : G = File.held \cup IF r = "error" THEN Range(buf) ELSE {}
  OBVIOUS
<1>9. PICK s \in StreamOf : /\ streams' = [streams EXCEPT ![u] = s]
                            /\ s.file = NoFile /\ s.ring = <<>> /\ s.seen
  <2>1. PICK s : s = [Strm EXCEPT !.file = NoFile]
    OBVIOUS
  <2>2. s \in StreamOf /\ s.file = NoFile /\ s.ring = <<>> /\ s.seen
    BY <1>2, <1>4, <2>1 DEF StreamOf
  <2>3. SetFile(u, NoFile)
    BY <1>3 DEF DrainClose
  <2>4. streams' = [streams EXCEPT ![u] = s]
    BY <1>2, <1>3, <2>1, <2>3, SetFileIs DEF Strm
  <2> QED
    BY <2>2, <2>4
<1>10. /\ pc' = (IF r = "panic" THEN "idle" ELSE IF r = "error" THEN "send" ELSE "drainNext")
       /\ r = "panic" => mu' = "lost"
       /\ r # "panic" => mu' = "free"
       /\ pc' = "drainNext" => job' = job
  BY <1>2, <1>6, <1>7 DEF Panic, Finish
<1>11. Worked(u, s, G)
  <2>1. pc' \in Working \cup {"idle", "send"} /\ (pc' \in Working => job' = job)
        /\ (pc' \in InHandSteps => pc \in InHandSteps)
    BY <1>1, <1>10 DEF Working, InHandSteps, Draining
  <2>2. mu' = "free" \/ (mu' = "lost" /\ pc' = "idle")
    BY <1>10
  <2>3. released' = released \cup Names(G)
    BY <1>6, <1>8 DEF Free
  <2>4. buf' \in Seq(Pkts)
    <3>1. <<>> \in Seq(Pkts)
      OBVIOUS
    <3> QED
      BY <1>4, <1>6, <3>1
  <2> QED
    BY <1>3, <1>4, <1>5, <1>9, <2>1, <2>2, <2>3, <2>4 DEF Worked
<1>12. ClosedFilesReported' /\ (r = "panic" => infos' = {})
  BY <1>1, <1>3, <1>5, <1>6, <1>10, ReportsWork
<1>13. CASE r \in {"error", "panic"}
  <2>1. G \subseteq UsedOf(u) /\ (mu' = "lost" \/ G = UsedOf(u))
    BY <1>4, <1>8, <1>10, <1>13
  <2>2. pc' \in {"idle", "send"} /\ (pc' = "idle" => infos' = {}) /\ buf' = <<>>
    BY <1>6, <1>10, <1>12, <1>13
  <2> QED
    BY <1>1, <1>9, <1>11, <1>12, <2>1, <2>2, StreamEnds
<1>14. CASE r \in {"none", "info"}
  <2>1. G = File.held /\ pc' = "drainNext" /\ buf' = buf
    BY <1>6, <1>8, <1>10, <1>14
  <2>2. pc' \in Working /\ pc' \in Draining /\ pc' \notin InHandSteps
    BY <2>1 DEF Working, Draining, InHandSteps
  <2>3. /\ Passing(u)' = Range(buf) /\ UsedOf(u)' = Range(buf)
        /\ HeldAt(u)' = {} /\ RingAt(u)' = <<>>
    <3>1. Range(s.ring) = {}
      BY <1>9 DEF Range
    <3>2. Passing(u)' = Range(buf)
      BY <1>1, <1>11, <2>1, <2>2, AfterPackets
    <3>3. UsedOf(u)' = Range(s.ring) \cup (IF s.file = NoFile THEN {} ELSE s.file.held)
                       \cup Passing(u)'
      BY <1>1, <1>11, AfterPackets
    <3>4. HeldAt(u)' = IF s.file = NoFile THEN {} ELSE s.file.held
      BY <1>1, <1>11, AfterPackets
    <3>5. RingAt(u)' = <<>>
      BY <1>1, <1>9, <1>11, AfterStreams
    <3> QED
      BY <1>9, <3>1, <3>2, <3>3, <3>4, <3>5
  <2>4. /\ G \subseteq UsedOf(u) /\ UsedOf(u)' \subseteq UsedOf(u) /\ UsedOf(u)' \cap G = {}
        /\ UsedOf(u) \subseteq UsedOf(u)' \cup G
        /\ Passing(u)' \cap (Range(RingAt(u)) \cup HeldAt(u))' = {}
    <3>1. Range(RingAt(u))' = {}
      BY <2>3 DEF Range
    <3> QED
      BY <1>4, <2>1, <2>3, <3>1
  <2>5. Ordered(s.ring)
    BY <1>9 DEF Ordered
  <2>6. StreamFlow(u)'
    BY <1>1, <1>9, <1>11, <2>1, AfterFlow
  <2>7. StreamWhole(u)'
    <3>1. \A i \in buf[1].id .. got[u] : i \in IdsOf(buf) \/ <<u, i>> \in cut'
      BY <1>4, <1>5 DEF Covers
    <3> QED
      BY <1>1, <1>9, <1>11, <2>1, <3>1, AfterWhole
  <2>8. Control'
    BY <1>1, <1>4, <1>5, <1>11, <1>12, <2>1, <2>2, WorkControl
  <2> QED
    BY <1>1, <1>11, <2>4, <2>5, <2>6, <2>7, <2>8, WorkStep
<1> QED
  BY <1>7, <1>13, <1>14

\* A packet of the pre-buffer goes into the file; those the ring cut behind it
\* are no hole.
LEMMA DrainWriteStep ==
    ASSUME IInv, DrainWrite
    PROVE  IInv'
<1>1. pc = "drain" /\ pc' = "drainFlush" /\ pc \in Working /\ pc \in Draining /\ pc \notin InHandSteps
      /\ pc' \in Working /\ pc' \notin InHandSteps /\ pc' \in Draining /\ pc' # "codec"
  BY DEF DrainWrite, Finish, Working, InHandSteps, Draining
<1>2. /\ Shape /\ Control /\ Src \in Urls /\ Strm \in StreamOf /\ mu = "free"
      /\ got[Src] \in Nat /\ FileAt(Src) = File /\ StreamWhole(Src)
  BY <1>1, Before
<1>3. PICK u \in Urls : u = Src
  BY <1>2
<1>4. /\ buf \in Seq(Pkts) /\ buf # <<>> /\ Ordered(buf)
      /\ Covers(IdsOf(buf), u, buf[1].id, got[u])
      /\ Strm.seen /\ Strm.ring = <<>> /\ Head(buf) = buf[1]
      /\ HeldAt(u) = File.held /\ UsedOf(u) = File.held \cup Range(buf)
      /\ Range(buf) \cap File.held = {} /\ recording /\ Upto(u) = buf[1].id - 1
  BY <1>1, <1>3, BeforeDrain
<1>5. File \in FileOf /\ File # NoFile /\ ~ File.damaged /\ File.last \subseteq File.held
  BY <1>1, BeforeDrain
<1>6. PICK p \in Pkts : p = buf[1]
  BY <1>4, EmptyIsLengthZero
<1>7. PICK t : t = Tail(buf)
  OBVIOUS
<1>8. /\ t \in Seq(Pkts) /\ Ordered(t) /\ Range(buf) = {p} \cup Range(t)
      /\ \A q \in Range(t) : p.id < q.id
      /\ t # <<>> => t[1] \in Range(t) /\ \A q \in Range(t) : t[1].id <= q.id
  BY <1>4, <1>6, <1>7, TailSplits
<1>9. \A q \in Range(buf) : q \in Pkts /\ q.id \in Nat /\ q.id <= got[u]
  <2>1. \A q \in Range(buf) : q \in UsedOf(u)
    BY <1>4
  <2> QED
    BY <1>1, <1>3, <2>1, BeforePackets
<1>10. /\ UNCHANGED <<mode, sources, stopping, got, time, par, reported, cut, failed,
                      mu, closed, infos, recording, released>>
       /\ buf' = t /\ job' = job /\ recording \in BOOLEAN
  BY <1>2, <1>7 DEF DrainWrite, drained, rest, input, Finish, Shape
<1>11. PICK g \in FileOf : /\ g = Written(File, p) /\ g.ids = File.ids \cup {p.id}
                           /\ g.start = File.start /\ g.held = File.held \cup {p}
                           /\ g.last \subseteq g.held /\ g # NoFile /\ ~ g.damaged
  BY <1>5, WrittenIs, Records
<1>12. PICK s \in StreamOf : /\ streams' = [streams EXCEPT ![u] = s]
                             /\ s.file = g /\ s.ring = <<>> /\ s.seen
  <2>1. PICK n \in Nat : n = Strm.session + Dur(p)
    BY <1>2 DEF StreamOf, Dur
  <2>2. PICK a : a = [Strm EXCEPT !.file = g]
    OBVIOUS
  <2>3. a \in StreamOf /\ a.file = g /\ a.ring = <<>> /\ a.seen
    BY <1>2, <1>4, <2>2 DEF StreamOf
  <2>4. PICK s : s = [a EXCEPT !.session = n]
    OBVIOUS
  <2>5. s \in StreamOf /\ s.file = g /\ s.ring = <<>> /\ s.seen
    BY <2>3, <2>4 DEF StreamOf
  <2>6. s = [Strm EXCEPT !.file = Written(@, p), !.session = @ + Dur(p)]
    BY <1>2, <1>11, <2>1, <2>2, <2>4 DEF StreamOf, File
  <2>7. SetStream(u, s)
    BY <1>3, <1>4, <1>6, <2>6 DEF DrainWrite
  <2> QED
    BY <2>5, <2>7 DEF SetStream
<1>13. Worked(u, s, {})
  <2>1. released' = released \cup Names({})
    BY <1>10 DEF Names
  <2> QED
    BY <1>1, <1>2, <1>3, <1>4, <1>8, <1>10, <1>12, <2>1 DEF Worked
<1>14. /\ Passing(u)' = Range(t) /\ UsedOf(u)' = File.held \cup Range(buf)
       /\ HeldAt(u)' = File.held \cup {p} /\ RingAt(u)' = <<>>
       /\ Upto(u)' = IF t # <<>> THEN t[1].id - 1 ELSE got[u]
  <2>1. Range(s.ring) = {}
    BY <1>12 DEF Range
  <2>2. Passing(u)' = Range(t)
    BY <1>1, <1>10, <1>13, AfterPackets
  <2>3. UsedOf(u)' = Range(s.ring) \cup (IF s.file = NoFile THEN {} ELSE s.file.held)
                     \cup Passing(u)'
    BY <1>1, <1>13, AfterPackets
  <2>4. HeldAt(u)' = IF s.file = NoFile THEN {} ELSE s.file.held
    BY <1>1, <1>13, AfterPackets
  <2>5. RingAt(u)' = <<>>
    BY <1>1, <1>12, <1>13, AfterStreams
  <2>6. Upto(u)' = IF t # <<>> THEN t[1].id - 1 ELSE got[u]
    BY <1>1, <1>10, <1>13, AfterPackets
  <2> QED
    BY <1>8, <1>11, <1>12, <2>1, <2>2, <2>3, <2>4, <2>5, <2>6
<1>15. /\ UsedOf(u)' \subseteq UsedOf(u) /\ UsedOf(u) \subseteq UsedOf(u)' \cup {}
       /\ Passing(u)' \cap (Range(RingAt(u)) \cup HeldAt(u))' = {}
  <2>1. Range(RingAt(u))' = {}
    BY <1>14 DEF Range
  <2>2. p \notin Range(t)
    BY <1>6, <1>8 DEF Pkts
  <2> QED
    BY <1>4, <1>8, <1>14, <2>1, <2>2
<1>16. Ordered(s.ring)
  BY <1>12 DEF Ordered
<1>17. StreamFlow(u)'
  BY <1>1, <1>4, <1>10, <1>11, <1>12, <1>13, AfterFlow
<1>18. p \in Range(buf) /\ p.id \in Nat /\ p.id <= got[u] /\ got[u] \in Nat
  BY <1>2, <1>3, <1>8, <1>9
<1>19. t # <<>> => t[1] \in Range(buf) /\ p.id < t[1].id /\ t[1].id \in Nat /\ t[1].id <= got[u]
  BY <1>8, <1>9
\* Of the packets up to the end, those that are not in the rest were cut.
<1>20. ASSUME NEW i \in Nat, p.id < i, i <= got[u]
       PROVE  i \in IdsOf(t) \/ <<u, i>> \in cut'
  <2>1. i \in buf[1].id .. got[u]
    BY <1>6, <1>18, <1>20
  <2>2. i \in IdsOf(buf) \/ <<u, i>> \in cut'
    BY <1>4, <1>10, <2>1 DEF Covers
  <2>3. ASSUME NEW q \in Range(buf), q.id = i
        PROVE  q \in Range(t)
    BY <1>8, <1>18, <1>20, <2>3
  <2> QED
    BY <2>2, <2>3 DEF IdsOf
<1>21. StreamWhole(u)'
  <2>1. FileWhole(u, File)
    BY <1>2, <1>3, <1>5 DEF StreamWhole
  <2>2. File.ids = {} => File.start = p
    BY <1>1, <1>6, <2>1 DEF FileWhole, At
  <2>3. PICK hi \in Int : hi = Upto(u)' /\ p.id <= hi /\ hi <= got[u]
                          /\ (t # <<>> => hi = t[1].id - 1)
    <3>1. CASE t = <<>>
      BY <1>14, <1>18, <3>1
    <3>2. CASE t # <<>>
      BY <1>14, <1>18, <1>19, <3>2
    <3> QED
      BY <3>1, <3>2
  <2>4. ASSUME NEW i \in p.id + 1 .. hi
        PROVE  <<u, i>> \in cut'
    <3>1. i \in Nat /\ p.id < i /\ i <= got[u]
      BY <1>18, <2>3, <2>4
    <3>2. i \notin IdsOf(t)
      <4> SUFFICES ASSUME NEW q \in Range(t), q.id = i PROVE FALSE
        BY DEF IdsOf
      <4>1. t # <<>>
        BY DEF Range
      <4>2. t[1].id <= i /\ i <= t[1].id - 1
        BY <1>8, <2>3, <2>4, <4>1
      <4> QED
        BY <1>19, <3>1, <4>1, <4>2
    <3> QED
      BY <1>20, <3>1, <3>2
  <2>5. Upto(u) = p.id - 1 /\ cut \subseteq cut' /\ failed \subseteq failed'
    BY <1>4, <1>6, <1>10
  <2>6. FileWhole(u, g)'
    BY <1>5, <1>11, <2>1, <2>2, <2>3, <2>4, <2>5, FileGrows
  <2>7. t # <<>> => \A i \in t[1].id .. got[u] : i \in IdsOf(t) \/ <<u, i>> \in cut'
    <3> SUFFICES ASSUME t # <<>>, NEW i \in t[1].id .. got[u]
                 PROVE  i \in IdsOf(t) \/ <<u, i>> \in cut'
      OBVIOUS
    <3>1. i \in Nat /\ p.id < i /\ i <= got[u]
      BY <1>18, <1>19
    <3> QED
      BY <1>20, <3>1
  <2> QED
    BY <1>1, <1>10, <1>12, <1>13, <2>6, <2>7, AfterWhole
<1>22. Control'
  <2>1. ClosedFilesReported'
    BY <1>2, <1>10 DEF Control, ClosedFilesReported
  <2> QED
    BY <1>1, <1>4, <1>8, <1>10, <1>13, <2>1, WorkControl
<1> QED
  BY <1>1, <1>13, <1>15, <1>16, <1>17, <1>21, <1>22, WorkStep

-----------------------------------------------------------------------------
(* The pre-buffer *)

\* The ring b of u after a packet, with the packets G dropped and C cut.
BufferOf(u, b, G, C) ==
    /\ b \in Seq(Pkts) /\ b # <<>> /\ b[Len(b)] = Pkt /\ Pkt \in Range(b)
    /\ Ordered(b) /\ UsedOf(u) = G \cup Range(b) /\ G \cap Range(b) = {}
    /\ \A i \in b[1].id .. got[u] : i \in IdsOf(b) \/ <<u, i>> \in C

\* A packet that goes into the pre-buffer leaves it ordered, and what the ring
\* drops behind its first packet is cut.
LEMMA BufferedCovers ==
    ASSUME IInv, pc = "handle", File = NoFile, NEW u \in Urls, u = Src,
           NEW b, b = Buffered(Strm.ring, Pkt), NEW G, G = Range(Append(Strm.ring, Pkt)) \ Range(b),
           NEW C, C = cut \cup Names({p \in G : \E q \in Range(b) : q.id < p.id})
    PROVE  BufferOf(u, b, G, C)
<1>1. pc \in Working /\ pc \in InHandSteps /\ pc \notin Draining
  BY DEF Working, InHandSteps, Draining
<1>2. /\ Pkt \in Pkts /\ Strm \in StreamOf /\ got[u] \in Nat
      /\ RingAt(u) = Strm.ring /\ StreamOwners(u) /\ StreamWhole(u)
  BY <1>1, Before
<1>3. PICK r \in Seq(Pkts) : r = Strm.ring
  BY <1>2 DEF StreamOf
<1>4. /\ b \in Seq(Pkts) /\ b # <<>> /\ Len(b) \in Nat \ {0} /\ b[Len(b)] = Pkt
      /\ Pkt \in Range(b) /\ Range(b) \subseteq Range(r) \cup {Pkt}
      /\ Range(Append(r, Pkt)) = Range(r) \cup {Pkt}
      /\ Ordered(r) /\ (\A q \in Range(r) : q.id < Pkt.id) => Ordered(b)
  <2>1. b = Buffered(r, Pkt) /\ r \in Seq(Pkts) /\ Pkt \in Pkts
    BY <1>2, <1>3
  <2> QED
    BY <2>1, BufferedProperties, ZenonT(60)
<1>5. Passing(u) = {Pkt} /\ HeldAt(u) = {} /\ Upto(u) = got[u] - 1
  BY <1>1, BeforePackets
<1>6. UsedOf(u) = Range(r) \cup {Pkt}
  BY <1>1, <1>3, <1>5, BeforePackets
<1>7. Pkt.id = got[u] /\ Pkt \notin Range(r) /\ Ordered(r)
  BY <1>1, <1>2, <1>3, <1>5 DEF StreamOwners, At
<1>8. \A q \in UsedOf(u) : q \in Pkts /\ q.id \in Nat /\ q.id <= got[u]
  BY <1>1, BeforePackets
<1>9. \A q \in Range(r) : q.id < Pkt.id
  <2> SUFFICES ASSUME NEW q \in Range(r) PROVE q.id < Pkt.id
    OBVIOUS
  <2>1. q.id \in Nat /\ q.id <= got[u]
    BY <1>6, <1>8
  <2>2. q.id # Pkt.id
    <3>1. q \in UsedOf(u) /\ Pkt \in UsedOf(u) /\ q # Pkt
      BY <1>6, <1>7
    <3> QED
      BY <1>2, <3>1 DEF StreamOwners
  <2> QED
    BY <1>2, <1>7, <2>1, <2>2
<1>10. Ordered(b)
  BY <1>4, <1>7, <1>9
<1>11. UsedOf(u) = G \cup Range(b) /\ G \cap Range(b) = {} /\ G \subseteq UsedOf(u)
  BY <1>3, <1>4, <1>6
<1>12. b[1] \in Range(b) /\ b[1] \in UsedOf(u) /\ b[1].id \in Nat
  <2>1. b[1] \in Range(b)
    <3>1. 1 \in DOMAIN b
      BY <1>4
    <3> QED
      BY <3>1 DEF Range
  <2> QED
    BY <1>8, <1>11, <2>1
<1>13. ASSUME NEW i \in b[1].id .. got[u]
       PROVE  i \in IdsOf(b) \/ <<u, i>> \in C
  <2>1. CASE i = got[u]
    BY <1>4, <1>7, <2>1 DEF IdsOf
  <2>2. CASE i # got[u]
    <3>1. i \in Nat /\ b[1].id <= i /\ i <= got[u] - 1 /\ i < got[u]
      BY <1>2, <1>12, <1>13, <2>2
    <3>2. b[1] \in Range(r)
      <4>1. b[1].id # Pkt.id
        BY <1>7, <1>12, <3>1
      <4> QED
        BY <1>4, <1>12, <4>1
    <3>3. r # <<>> /\ 1 \in DOMAIN r /\ r[1] \in Range(r) /\ r[1].id \in Nat
      <4>1. r # <<>>
        BY <3>2 DEF Range
      <4>2. 1 \in DOMAIN r /\ r[1] \in Range(r)
        BY <4>1, EmptyIsLengthZero DEF Range
      <4> QED
        BY <1>6, <1>8, <4>1, <4>2
    <3>4. r[1].id <= b[1].id
      <4>1. PICK n \in Nat : n = Len(r) /\ DOMAIN r = 1 .. n
        OBVIOUS
      <4>2. PICK j \in 1 .. n : b[1] = r[j]
        BY <3>2, <4>1 DEF Range
      <4>3. CASE j = 1
        BY <1>12, <4>2, <4>3
      <4>4. CASE j # 1
        <5>1. 1 \in 1 .. n /\ 1 < j
          BY <4>1, <4>4
        <5>2. r[1].id < b[1].id
          BY <1>7, <4>1, <4>2, <5>1 DEF Ordered
        <5> QED
          BY <1>12, <3>3, <5>2
      <4> QED
        BY <4>3, <4>4
    <3>5. Covers(IdsOf(r), u, r[1].id, got[u] - 1)
      BY <1>2, <1>3, <1>5, <3>3 DEF StreamWhole
    <3>6. i \in IdsOf(r) \/ <<u, i>> \in cut
      <4>1. i \in r[1].id .. got[u] - 1
        BY <1>2, <1>12, <3>1, <3>3, <3>4
      <4> QED
        BY <3>5, <4>1 DEF Covers
    <3>7. ASSUME NEW p \in Range(r), p.id = i
          PROVE  p \in Range(b) \/ <<u, i>> \in C
      <4>1. CASE p \in G
        <5>1. p.url = u /\ p \in UsedOf(u)
          BY <1>2, <1>6, <3>7 DEF StreamOwners
        <5>2. b[1].id # i
          <6>1. p # b[1]
            BY <1>11, <1>12, <4>1
          <6> QED
            BY <1>2, <1>12, <3>7, <5>1, <6>1 DEF StreamOwners
        <5>3. b[1].id < p.id
          BY <1>12, <3>1, <3>7, <5>2
        <5>4. p \in {x \in G : \E q \in Range(b) : q.id < x.id}
          BY <1>12, <4>1, <5>3
        <5> QED
          BY <3>7, <5>1, <5>4 DEF Names
      <4>2. CASE p \notin G
        BY <1>6, <1>11, <4>2
      <4> QED
        BY <4>1, <4>2
    <3> QED
      BY <3>6, <3>7 DEF IdsOf
  <2> QED
    BY <2>1, <2>2
<1> QED
  BY <1>4, <1>10, <1>11, <1>13 DEF BufferOf

\* A stream with another ring, which has seen a keyframe.
LEMMA RingFields ==
    ASSUME NEW s \in StreamOf, NEW b \in Seq(Pkts)
    PROVE  \E t \in StreamOf :
              /\ t = [s EXCEPT !.ring = b, !.seen = TRUE]
              /\ t.ring = b /\ t.seen = TRUE /\ t.file = s.file
<1>1. PICK r : r = [s EXCEPT !.ring = b]
  OBVIOUS
<1>2. r \in StreamOf /\ r.ring = b /\ r.file = s.file
  BY <1>1 DEF StreamOf
<1>3. PICK t : t = [r EXCEPT !.seen = TRUE]
  OBVIOUS
<1>4. t \in StreamOf /\ t.ring = b /\ t.file = s.file /\ t.seen = TRUE
  BY <1>2, <1>3 DEF StreamOf
<1>5. t = [s EXCEPT !.ring = b, !.seen = TRUE]
  BY <1>1, <1>3 DEF StreamOf
<1> QED
  BY <1>4, <1>5

\* Between events a packet goes into the pre-buffer; at a keyframe a waiting event
\* takes the pre-buffer over.
LEMMA BufferStep ==
    ASSUME IInv, Buffer
    PROVE  IInv'
<1>1. pc = "handle" /\ pc \in Working /\ pc \in InHandSteps /\ mode = "event"
  BY DEF Buffer, Admitted, Idle, Working, InHandSteps
<1>2. /\ Shape /\ Control /\ Src \in Urls /\ Pkt \in Pkts /\ Strm \in StreamOf
      /\ mu = "free" /\ got[Src] \in Nat
      /\ Active(Src) <=> File # NoFile
  BY <1>1, Before
<1>3. PICK u \in Urls : u = Src
  BY <1>2
<1>4. File = NoFile /\ Strm.file = NoFile
  BY <1>2 DEF Buffer, Idle, File
<1>5. PICK b : b = Buffered(Strm.ring, Pkt)
  OBVIOUS
<1>6. PICK G : G = Range(Append(Strm.ring, Pkt)) \ Range(b)
  OBVIOUS
<1>7. PICK C : C = cut \cup Names({p \in G : \E q \in Range(b) : q.id < p.id})
  OBVIOUS
<1>8. /\ b \in Seq(Pkts) /\ b # <<>> /\ b[Len(b)] = Pkt /\ Pkt \in Range(b)
      /\ Ordered(b) /\ UsedOf(u) = G \cup Range(b) /\ G \cap Range(b) = {}
      /\ \A i \in b[1].id .. got[u] : i \in IdsOf(b) \/ <<u, i>> \in C
  <2>1. BufferOf(u, b, G, C)
    BY <1>1, <1>3, <1>4, <1>5, <1>6, <1>7, BufferedCovers
  <2> QED
    BY <2>1 DEF BufferOf
<1>9. PICK start \in BOOLEAN : start = (Key(Pkt) /\ ~ Strm.saved)
  OBVIOUS
<1>10. PICK w \in StreamOf : /\ w = [Strm EXCEPT !.ring = b, !.seen = TRUE]
                             /\ w.ring = b /\ w.seen = TRUE /\ w.file = NoFile
  <2>1. Strm \in StreamOf /\ b \in Seq(Pkts)
    BY <1>2, <1>8
  <2> QED
    BY <1>4, <2>1, RingFields, ZenonT(60)
<1>11. /\ UNCHANGED <<mode, sources, stopping, got, time, par, reported, recording,
                      mu, closed, infos, failed>>
       /\ released' = released \cup Names(G) /\ cut' = C
       /\ SetStream(u, IF start THEN [w EXCEPT !.ring = <<>>] ELSE w)
       /\ buf' = (IF start THEN b ELSE <<>>)
       /\ pc' = (IF start THEN "drainOpen" ELSE "send")
       /\ start => job' = job
  <2>1. UNCHANGED <<mode, sources, stopping, got, time, par, reported, recording,
                    mu, closed, infos, failed>>
    BY DEF Buffer, rest, input
  <2>2. released' = released \cup Names(G)
    BY <1>5, <1>6 DEF Buffer, Free
  <2>3. cut' = C
    BY <1>5, <1>6, <1>7 DEF Buffer
  <2>4. SetStream(u, IF start THEN [w EXCEPT !.ring = <<>>] ELSE w)
    BY <1>3, <1>5, <1>9, <1>10 DEF Buffer
  <2>5. buf' = (IF start THEN b ELSE <<>>)
    BY <1>5, <1>9 DEF Buffer
  <2>6. pc' = (IF start THEN "drainOpen" ELSE "send") /\ (start => job' = job)
    BY <1>9 DEF Buffer, Finish
  <2> QED
    BY <2>1, <2>2, <2>3, <2>4, <2>5, <2>6
<1>12. PICK s \in StreamOf : /\ streams' = [streams EXCEPT ![u] = s]
                             /\ s.ring = (IF start THEN <<>> ELSE b)
                             /\ s.seen /\ s.file = NoFile
  <2>1. CASE start
    <3>1. PICK s : s = [w EXCEPT !.ring = <<>>]
      OBVIOUS
    <3>2. <<>> \in Seq(Pkts)
      OBVIOUS
    <3>3. s \in StreamOf /\ s.ring = <<>> /\ s.seen /\ s.file = NoFile
      BY <1>10, <3>1, <3>2 DEF StreamOf
    <3> QED
      BY <1>11, <2>1, <3>1, <3>3 DEF SetStream
  <2>2. CASE ~ start
    BY <1>10, <1>11, <2>2 DEF SetStream
  <2> QED
    BY <2>1, <2>2
<1>13. /\ start => pc' \in Working /\ pc' \in Draining
       /\ ~ start => pc' \notin Working /\ pc' \notin Draining
       /\ pc' \notin InHandSteps /\ pc' # "codec"
  BY <1>11 DEF Working, InHandSteps, Draining
<1>14. Worked(u, s, G)
  <2>1. \A v \in Urls : v # u /\ FileAt(v) # NoFile => recording'
    BY <1>11 DEF IInv, StreamFlow
  <2>2. recording' \in BOOLEAN /\ cut \subseteq cut' /\ failed \subseteq failed'
    BY <1>2, <1>7, <1>11 DEF Shape
  <2>3. buf' \in Seq(Pkts)
    <3>1. <<>> \in Seq(Pkts)
      OBVIOUS
    <3> QED
      BY <1>8, <1>11, <3>1
  <2>4. pc' \in Working \cup {"idle", "send"} /\ (pc' \in Working => job' = job)
    BY <1>11, <1>13
  <2>5. /\ UNCHANGED <<mode, sources, stopping, got, time, par, reported>>
        /\ mu' = "free" /\ released' = released \cup Names(G)
    BY <1>2, <1>11
  <2> QED
    BY <1>3, <1>12, <1>13, <2>1, <2>2, <2>3, <2>4, <2>5 DEF Worked
<1>15. /\ Passing(u)' = (IF start THEN Range(b) ELSE {}) /\ UsedOf(u)' = Range(b)
       /\ HeldAt(u)' = {} /\ Range(RingAt(u))' = (IF start THEN {} ELSE Range(b))
       /\ Upto(u)' = IF start THEN b[1].id - 1 ELSE got[u]
  <2>1. Range(s.ring) = IF start THEN {} ELSE Range(b)
    BY <1>12 DEF Range
  <2>2. Passing(u)' = IF start THEN Range(b) ELSE {}
    BY <1>1, <1>11, <1>13, <1>14, AfterPackets
  <2>3. UsedOf(u)' = Range(s.ring) \cup (IF s.file = NoFile THEN {} ELSE s.file.held)
                     \cup Passing(u)'
    BY <1>1, <1>14, AfterPackets
  <2>4. HeldAt(u)' = IF s.file = NoFile THEN {} ELSE s.file.held
    BY <1>1, <1>14, AfterPackets
  <2>5. RingAt(u)' = s.ring
    BY <1>1, <1>14, AfterStreams
  <2>6. Range(RingAt(u))' = Range(s.ring)
    BY <2>5 DEF Range
  <2>7. Upto(u)' = IF start THEN b[1].id - 1 ELSE got[u]
    BY <1>1, <1>8, <1>11, <1>13, <1>14, AfterPackets
  <2> QED
    BY <1>12, <2>1, <2>2, <2>3, <2>4, <2>6, <2>7
<1>16. /\ G \subseteq UsedOf(u) /\ UsedOf(u)' \subseteq UsedOf(u) /\ UsedOf(u)' \cap G = {}
       /\ UsedOf(u) \subseteq UsedOf(u)' \cup G
       /\ Passing(u)' \cap (Range(RingAt(u)) \cup HeldAt(u))' = {}
  BY <1>8, <1>15
<1>17. Ordered(s.ring)
  BY <1>8, <1>12 DEF Ordered
<1>18. StreamFlow(u)'
  <2>1. start => s.ring = <<>>
    BY <1>12
  <2>2. /\ pc' \notin {"write", "flush", "drain", "drainFlush", "drainEnd"}
        /\ pc' \in {"open", "drainOpen", "drainNext"} => s.ring = <<>>
        /\ pc' # "handle"
    BY <1>11, <2>1
  <2> QED
    BY <1>1, <1>12, <1>14, <2>2, AfterFlow
<1>19. StreamWhole(u)'
  <2>1. s.ring # <<>> =>
           \A i \in s.ring[1].id .. Upto(u)' : i \in IdsOf(s.ring) \/ <<u, i>> \in cut'
    BY <1>8, <1>11, <1>12, <1>15
  <2>2. pc' \in Draining /\ buf' # <<>> =>
           \A i \in buf'[1].id .. got[u] : i \in IdsOf(buf') \/ <<u, i>> \in cut'
    BY <1>8, <1>11
  <2> QED
    BY <1>1, <1>12, <1>14, <2>1, <2>2, AfterWhole
<1>20. Control'
  <2>1. ClosedFilesReported'
    BY <1>2, <1>11 DEF Control, ClosedFilesReported
  <2>2. CASE start
    <3>1. Key(buf'[Len(buf')]) /\ pc' = "drainOpen" /\ buf' = b
      BY <1>8, <1>9, <1>11, <2>2
    <3> QED
      BY <1>1, <1>8, <1>13, <1>14, <2>1, <2>2, <3>1, WorkControl
  <2>3. CASE ~ start
    <3>1. Known' \subseteq sources'
      BY <1>1, <1>2, <1>11, <1>14, AfterStreams DEF Control
    <3>2. buf' = <<>> /\ pc' = "send" /\ pc' \notin Working
      BY <1>11, <1>13, <2>3
    <3>3. mu' = "free"
      BY <1>2, <1>11
    <3> QED
      BY <2>1, <3>1, <3>2, <3>3, IdleControl
  <2> QED
    BY <2>2, <2>3
<1> QED
  BY <1>1, <1>14, <1>16, <1>17, <1>18, <1>19, <1>20, WorkStep

\* A stream without a file, between two sessions.
LEMMA SessionFields ==
    ASSUME NEW s \in StreamOf, NEW b \in Seq(Pkts), NEW n \in Int
    PROVE  \E t \in StreamOf :
              /\ t = [s EXCEPT !.ring = b, !.session = 0, !.wall = FALSE, !.stop = n]
              /\ t.ring = b /\ t.seen = s.seen /\ t.file = s.file
<1>1. PICK a : a = [s EXCEPT !.ring = b]
  OBVIOUS
<1>2. a \in StreamOf /\ a.ring = b /\ a.seen = s.seen /\ a.file = s.file
  BY <1>1 DEF StreamOf
<1>3. PICK c : c = [a EXCEPT !.session = 0]
  OBVIOUS
<1>4. c \in StreamOf /\ c.ring = b /\ c.seen = s.seen /\ c.file = s.file
  BY <1>2, <1>3 DEF StreamOf
<1>5. PICK d : d = [c EXCEPT !.wall = FALSE]
  OBVIOUS
<1>6. d \in StreamOf /\ d.ring = b /\ d.seen = s.seen /\ d.file = s.file
  BY <1>4, <1>5 DEF StreamOf
<1>7. PICK t : t = [d EXCEPT !.stop = n]
  OBVIOUS
<1>8. t \in StreamOf /\ t.ring = b /\ t.seen = s.seen /\ t.file = s.file
  BY <1>6, <1>7 DEF StreamOf
<1>9. t = [s EXCEPT !.ring = b, !.session = 0, !.wall = FALSE, !.stop = n]
  BY <1>1, <1>3, <1>5, <1>7 DEF StreamOf
<1> QED
  BY <1>8, <1>9

\* The packet that ends a session is all there is in the pre-buffer.
LEMMA FirstBuffered ==
    ASSUME NEW p \in Pkts, NEW b, b = Buffered(<<>>, p)
    PROVE  /\ b \in Seq(Pkts) /\ b # <<>> /\ Range(b) = {p} /\ b[1] = p /\ Ordered(b)
           /\ Range(Append(<<>>, p)) = {p}
<1>1. PICK e \in Seq(Pkts) : e = <<>>
  <2>1. <<>> \in Seq(Pkts)
    OBVIOUS
  <2> QED
    BY <2>1
<1>2. Range(e) = {} /\ Ordered(e)
  BY <1>1 DEF Range, Ordered
<1>3. /\ b \in Seq(Pkts) /\ b # <<>> /\ Len(b) \in Nat \ {0} /\ p \in Range(b)
      /\ Range(b) \subseteq Range(e) \cup {p}
      /\ Range(Append(e, p)) = Range(e) \cup {p}
      /\ Ordered(e) /\ (\A q \in Range(e) : q.id < p.id) => Ordered(b)
  <2>1. b = Buffered(e, p)
    BY <1>1
  <2> QED
    BY <2>1, BufferedProperties, ZenonT(60)
<1>4. Range(b) = {p} /\ Ordered(b) /\ Range(Append(<<>>, p)) = {p}
  BY <1>1, <1>2, <1>3
<1>5. b[1] = p
  <2>1. 1 \in DOMAIN b
    BY <1>3
  <2>2. b[1] \in Range(b)
    BY <2>1 DEF Range
  <2> QED
    BY <1>4, <2>2
<1> QED
  BY <1>3, <1>4, <1>5

\* The session is over: its file is finished, and the status goes off unless
\* another stream has a file.
LEMMA EndSessionStep ==
    ASSUME IInv, EndSession
    PROVE  IInv'
<1>1. pc = "handle" /\ pc \in Working /\ pc \in InHandSteps /\ pc \notin Draining /\ mode = "event"
  BY DEF EndSession, Admitted, SessionOver, Working, InHandSteps, Draining
<1>2. /\ Shape /\ Control /\ Src \in Urls /\ Pkt \in Pkts /\ Strm \in StreamOf
      /\ mu = "free" /\ got[Src] \in Nat /\ StreamFlow(Src) /\ StreamOwners(Src)
      /\ FileAt(Src) = File /\ RingAt(Src) = Strm.ring
      /\ File # NoFile => File \in FileOf
  BY <1>1, Before
<1>3. PICK u \in Urls : u = Src
  BY <1>2
<1>4. Active(u) /\ File # NoFile /\ File \in FileOf /\ Strm.ring = <<>>
  <2>1. Active(u) /\ File # NoFile
    BY <1>3 DEF EndSession, SessionOver, Active, File, Strm
  <2> QED
    BY <1>2, <1>3, <2>1 DEF StreamFlow
<1>5. PICK b : b = Buffered(Strm.ring, Pkt)
  OBVIOUS
<1>6. /\ b \in Seq(Pkts) /\ b # <<>> /\ Range(b) = {Pkt} /\ b[1] = Pkt /\ Ordered(b)
      /\ Range(Append(Strm.ring, Pkt)) = {Pkt}
  BY <1>2, <1>4, <1>5, FirstBuffered
<1>7. PICK w \in StreamOf : /\ w = [Strm EXCEPT !.file = NoFile, !.seen = TRUE]
                            /\ w.file = NoFile /\ w.seen = TRUE /\ w.ring = Strm.ring
  <2>1. Strm \in StreamOf /\ NoFile \in {NoFile} \cup FileOf /\ TRUE \in BOOLEAN
    BY <1>2
  <2> QED
    BY <2>1, StreamFields, ZenonT(60)
<1>8. /\ UNCHANGED <<mode, sources, stopping, got, time, par, reported, buf, cut, failed>>
      /\ buf = <<>> /\ buf' = <<>> /\ buf' \in Seq(Pkts)
  <2>1. buf = <<>> /\ buf \in Seq(Pkts)
    BY <1>1, <1>2 DEF Control, Shape
  <2>2. UNCHANGED <<mode, sources, stopping, got, time, par, reported, buf, cut, failed>>
    BY DEF EndSession, rest, input
  <2> QED
    BY <2>1, <2>2
<1> DEFINE stop(r) == IF Key(Pkt) THEN Pkt.t
                      ELSE IF r = "info" THEN File.start.t + File.dur ELSE Strm.stop
<1>9. PICK r \in CloseResults(File, 0) :
         /\ FileClosed(u, r)
         /\ IF r \in {"info", "none"}
            THEN /\ SetStream(u, [w EXCEPT !.ring = b, !.session = 0, !.wall = FALSE,
                                           !.stop = stop(r)])
                 /\ recording' = (recording /\ \E v \in Urls \ {u} : Active(v))
                 /\ Free(File.held \cup (Range(Append(Strm.ring, Pkt)) \ Range(b)))
            ELSE /\ SetStream(u, w)
                 /\ Free(File.held \cup IF r = "error" THEN {Pkt} ELSE {})
                 /\ UNCHANGED recording
         /\ IF r = "panic" THEN Panic /\ job' = NoJob ELSE Finish("send") /\ UNCHANGED mu
  BY <1>3, <1>5, <1>7, Zenon DEF EndSession
<1>10. r \in {"none", "info", "error", "panic"}
  BY CloseResultsAre
<1>11. stop(r) \in Int
  BY <1>2, <1>4 DEF Pkts, FileOf, StreamOf
<1> HIDE DEF stop
<1>12. PICK s \in StreamOf : /\ streams' = [streams EXCEPT ![u] = s]
                             /\ s.ring = (IF r \in {"info", "none"} THEN b ELSE <<>>)
                             /\ s.seen /\ s.file = NoFile
  <2>1. CASE r \in {"info", "none"}
    <3>1. PICK t \in StreamOf :
              /\ t = [w EXCEPT !.ring = b, !.session = 0, !.wall = FALSE, !.stop = stop(r)]
              /\ t.ring = b /\ t.seen = w.seen /\ t.file = w.file
      BY <1>6, <1>11, SessionFields, ZenonT(60)
    <3> QED
      BY <1>7, <1>9, <2>1, <3>1 DEF SetStream
  <2>2. CASE r \notin {"info", "none"}
    BY <1>4, <1>7, <1>9, <2>2 DEF SetStream
  <2> QED
    BY <2>1, <2>2
<1>13. PICK G : G = File.held \cup IF r = "error" THEN {Pkt} ELSE {}
  OBVIOUS
<1>14. released' = released \cup Names(G)
  <2>1. Range(Append(Strm.ring, Pkt)) \ Range(b) = {}
    BY <1>6
  <2>2. r \in {"info", "none"} => G = File.held \cup (Range(Append(Strm.ring, Pkt)) \ Range(b))
    BY <1>13, <2>1
  <2> QED
    BY <1>9, <1>13, <2>2 DEF Free
<1>15. /\ pc' = (IF r = "panic" THEN "idle" ELSE "send")
       /\ r = "panic" => mu' = "lost"
       /\ r # "panic" => mu' = "free"
       /\ pc' \notin Working /\ pc' \notin InHandSteps /\ pc' \notin Draining
  <2>1. /\ pc' = (IF r = "panic" THEN "idle" ELSE "send")
        /\ r = "panic" => mu' = "lost"
        /\ r # "panic" => mu' = "free"
    BY <1>2, <1>9 DEF Panic, Finish
  <2> QED
    BY <2>1 DEF Working, InHandSteps, Draining
<1>16. recording' \in BOOLEAN /\ \A v \in Urls : v # u /\ FileAt(v) # NoFile => recording'
  <2>1. recording' = recording \/ recording' = (recording /\ \E v \in Urls \ {u} : Active(v))
    BY <1>9
  <2>2. recording \in BOOLEAN
    BY <1>2 DEF Shape
  <2>3. recording' \in BOOLEAN
    BY <2>1, <2>2
  <2>4. ASSUME NEW v \in Urls, v # u, FileAt(v) # NoFile
        PROVE  recording'
    <3>1. recording /\ Active(v)
      BY <1>2, <2>4, ViewTypes DEF IInv, StreamFlow
    <3> QED
      BY <2>1, <2>4, <3>1
  <2> QED
    BY <2>3, <2>4
<1>17. Worked(u, s, G)
  <2>1. pc' \in Working \cup {"idle", "send"} /\ (mu' = "free" \/ (mu' = "lost" /\ pc' = "idle"))
    BY <1>10, <1>15
  <2> QED
    BY <1>3, <1>8, <1>12, <1>14, <1>15, <1>16, <2>1 DEF Worked
<1>18. ClosedFilesReported' /\ (r = "panic" => infos' = {})
  BY <1>1, <1>3, <1>8, <1>9, <1>15, ReportsWork
<1>19. UsedOf(u) = File.held \cup {Pkt} /\ Pkt \notin File.held
  <2>1. Range(Strm.ring) = {}
    BY <1>4 DEF Range
  <2>2. UsedOf(u) = File.held \cup {Pkt} /\ Passing(u) = {Pkt} /\ HeldAt(u) = File.held
    BY <1>1, <1>3, <1>4, <2>1, BeforePackets
  <2> QED
    BY <1>2, <1>3, <2>2 DEF StreamOwners
<1>20. CASE r \in {"error", "panic"}
  <2>1. G \subseteq UsedOf(u) /\ (mu' = "lost" \/ G = UsedOf(u)) /\ s.ring = <<>>
    BY <1>12, <1>13, <1>15, <1>19, <1>20
  <2>2. pc' \in {"idle", "send"} /\ (pc' = "idle" => infos' = {})
    BY <1>15, <1>18
  <2> QED
    BY <1>1, <1>8, <1>12, <1>17, <1>18, <2>1, <2>2, StreamEnds
<1>21. CASE r \in {"none", "info"}
  <2>1. G = File.held /\ pc' = "send" /\ s.ring = b /\ mu' = "free"
    BY <1>12, <1>13, <1>15, <1>21
  <2>2. /\ Passing(u)' = {} /\ UsedOf(u)' = {Pkt} /\ Upto(u)' = got[u]
    <3>1. Passing(u)' = {}
      BY <1>1, <1>15, <1>17, AfterPackets
    <3>2. UsedOf(u)' = Range(s.ring) \cup (IF s.file = NoFile THEN {} ELSE s.file.held)
                       \cup Passing(u)'
      BY <1>1, <1>17, AfterPackets
    <3>3. Upto(u)' = got[u]
      BY <1>1, <1>15, <1>17, AfterPackets
    <3> QED
      BY <1>6, <1>12, <2>1, <3>1, <3>2, <3>3
  <2>3. /\ G \subseteq UsedOf(u) /\ UsedOf(u)' \subseteq UsedOf(u) /\ UsedOf(u)' \cap G = {}
        /\ UsedOf(u) \subseteq UsedOf(u)' \cup G
        /\ Passing(u)' \cap (Range(RingAt(u)) \cup HeldAt(u))' = {}
    BY <1>19, <2>1, <2>2
  <2>4. Ordered(s.ring)
    BY <1>6, <2>1
  <2>5. StreamFlow(u)'
    <3>1. pc' \notin {"write", "flush", "drain", "drainFlush", "drainEnd", "open", "drainOpen",
                      "drainNext", "handle"}
      BY <2>1
    <3> QED
      BY <1>1, <1>12, <1>15, <1>17, <3>1, AfterFlow
  <2>6. StreamWhole(u)'
    <3>1. ASSUME NEW i \in s.ring[1].id .. got[u]
          PROVE  i \in IdsOf(s.ring)
      <4>1. s.ring[1] = Pkt /\ Range(s.ring) = {Pkt}
        BY <1>6, <2>1
      <4>2. Pkt.id = got[u]
        BY <1>1, <1>2, <1>3 DEF StreamOwners, At
      <4>3. i = Pkt.id
        BY <1>2, <1>3, <3>1, <4>1, <4>2
      <4> QED
        BY <4>1, <4>3 DEF IdsOf
    <3> QED
      BY <1>1, <1>8, <1>12, <1>17, <2>2, <3>1, AfterWhole
  <2>7. Control'
    <3>1. Known' \subseteq sources'
      BY <1>1, <1>2, <1>8, <1>17, AfterStreams DEF Control
    <3> QED
      BY <1>8, <1>15, <1>18, <2>1, <3>1, IdleControl
  <2> QED
    BY <1>1, <1>17, <2>3, <2>4, <2>5, <2>6, <2>7, WorkStep
<1> QED
  BY <1>10, <1>20, <1>21

-----------------------------------------------------------------------------
(* A packet that comes in *)

\* Step takes a packet and keeps it at hand, or gives it back at once.
LEMMA ReceiveStep ==
    ASSUME IInv, NEW u \in Urls, NEW kind \in {"key", "delta", "audio"}, NEW newpar \in BOOLEAN,
           Receive(u, kind, newpar)
    PROVE  IInv'
<1>1. Shape /\ Control /\ StreamFlow(u) /\ StreamOwners(u) /\ StreamWhole(u)
  BY DEF IInv
<1>2. /\ pc = "idle" /\ mu = "free" /\ infos = {} /\ buf = <<>>
      /\ got[u] \in Nat /\ time[u] \in Nat /\ par[u] \in Nat
  BY <1>1 DEF Receive, Ready, Control, Shape, Draining
<1>3. PICK version \in Nat : version = IF newpar THEN par[u] + 1 ELSE par[u]
  BY <1>2
<1>4. PICK p \in Pkts :
         /\ p = [url |-> u, id |-> got[u] + 1, kind |-> kind, t |-> time[u], par |-> version]
         /\ p.url = u /\ p.id = got[u] + 1
  <2>1. PICK n \in Nat \ {0} : n = got[u] + 1
    BY <1>2
  <2>2. PICK p : p = [url |-> u, id |-> n, kind |-> kind, t |-> time[u], par |-> version]
    OBVIOUS
  <2>3. p \in Pkts /\ p.url = u /\ p.id = n
    BY <1>2, <2>2 DEF Pkts
  <2> QED
    BY <2>1, <2>2, <2>3
<1>5. /\ got' = [got EXCEPT ![u] = @ + 1]
      /\ time' = [time EXCEPT ![u] = @ + Dur(p)]
      /\ par' = [par EXCEPT ![u] = version]
      /\ UNCHANGED <<mode, recording, idle, sources, mu, buf, infos, stopping, cut, files,
                     reported>>
  BY <1>3, <1>4 DEF Receive
<1>6. \/ /\ mode = "never" \/ u \notin sources
         /\ released' = released \cup Names({p}) /\ UNCHANGED <<streams, pc, job>>
      \/ /\ mode # "never" /\ u \in sources
         /\ pc' = "codec" /\ job' = [kind |-> "pkt", pkt |-> p]
         /\ streams' = [streams EXCEPT ![u] = IF u \in Known THEN @ ELSE NewStream]
         /\ UNCHANGED released
  BY <1>3, <1>4 DEF Receive, Free
<1>7. /\ got' \in [Urls -> Nat] /\ time' \in [Urls -> Nat] /\ par' \in [Urls -> Nat]
      /\ got'[u] = got[u] + 1 /\ \A v \in Urls : v # u => got'[v] = got[v]
  BY <1>1, <1>2, <1>5 DEF Shape, Dur
<1>8. Names({p}) = {<<u, got[u] + 1>>}
  BY <1>4 DEF Names
<1>9. /\ released' \subseteq Urls \X Nat
      /\ \A v \in Urls : v # u => \A i \in Nat : <<v, i>> \in released' <=> <<v, i>> \in released
  <2>1. released' = released \/ released' = released \cup {<<u, got[u] + 1>>}
    BY <1>6, <1>8
  <2>2. got[u] + 1 \in Nat /\ released \subseteq Urls \X Nat
    BY <1>1, <1>2 DEF Shape
  <2> QED
    BY <2>1, <2>2
<1>10. /\ \A L \in SUBSET Working : ~ At(u, L)
       /\ Passing(u) = {} /\ Upto(u) = got[u]
       /\ UsedOf(u) = Range(RingAt(u)) \cup HeldAt(u)
  <2>1. pc \notin Working /\ pc \notin InHandSteps /\ pc \notin Draining
    BY <1>2 DEF Working, InHandSteps, Draining
  <2>2. \A L \in SUBSET Working : ~ At(u, L)
    BY <2>1 DEF At
  <2>3. Passing(u) = {} /\ Upto(u) = got[u]
    BY <2>1 DEF Passing, Upto, At
  <2> QED
    BY <2>2, <2>3 DEF UsedOf
<1>11. \A q \in UsedOf(u) : q \in Pkts /\ q.id \in Nat /\ q.id <= got[u]
  <2>1. \A q \in UsedOf(u) : q \in Pkts
    BY <1>1, <1>10, ViewTypes DEF Range
  <2>2. \A q \in Pkts : q.id \in Nat
    BY DEF Pkts
  <2> QED
    BY <1>1, <2>1, <2>2 DEF StreamOwners
<1>12. \A x \in released : x[1] = u => x[2] \in 1 .. got[u]
  BY <1>1 DEF StreamOwners
<1>13. ~ Lost' => ~ Lost
  <2>1. mu' = mu /\ failed' = failed /\ pc # "crashed"
    BY <1>2, <1>5 DEF files
  <2> QED
    BY <2>1 DEF Lost
<1>14. FileAt(u) # NoFile => FileAt(u).ids # {}
  <2>1. {"write"} \in SUBSET Working /\ {"drain"} \in SUBSET Working
    BY DEF Working, InHandSteps, Draining
  <2>2. ~ At(u, {"write"}) /\ ~ At(u, {"drain"})
    BY <1>10, <2>1
  <2> QED
    BY <1>1, <2>2 DEF StreamWhole, FileWhole
<1>15. CASE /\ mode = "never" \/ u \notin sources
            /\ released' = released \cup Names({p}) /\ UNCHANGED <<streams, pc, job>>
  <2>1. FileAt(u) = NoFile /\ RingAt(u) = <<>>
    <3>1. CASE mode = "never"
      BY <1>1, <3>1 DEF StreamFlow
    <3>2. CASE u \notin sources
      BY <1>1, <3>2 DEF Control, FileAt, RingAt
    <3> QED
      BY <1>15, <3>1, <3>2
  <2>2. /\ Known' = Known
        /\ \A v \in Urls : FileAt(v)' = FileAt(v) /\ RingAt(v)' = RingAt(v) /\ SeenAt(v)' = SeenAt(v)
    BY <1>15, SameStreams
  <2>3. \A v \in Urls : \A L \in SUBSET Working : ~ At(v, L) /\ ~ At(v, L)'
    BY <1>2, <1>15 DEF At, Working, InHandSteps, Draining
  <2>4. Passing(u)' = {} /\ UsedOf(u)' = {} /\ HeldAt(u)' = {} /\ Upto(u)' = got'[u]
    <3>1. ~ At(u, InHandSteps)' /\ ~ At(u, Draining)'
      BY <2>3 DEF Working
    <3>2. Range(RingAt(u))' = {}
      BY <2>1, <2>2 DEF Range
    <3>3. HeldAt(u)' = {}
      BY <2>1, <2>2 DEF HeldAt
    <3> QED
      BY <3>1, <3>2, <3>3 DEF Passing, UsedOf, Upto
  <2>5. UsedOf(u) = {}
    BY <1>10, <2>1 DEF HeldAt, Range
  <2>6. StreamFlow(u)'
    <3>1. /\ {"write", "flush", "drain", "drainFlush", "drainEnd"} \in SUBSET Working
          /\ {"open", "drainOpen", "drainNext"} \in SUBSET Working
          /\ {"drain", "drainFlush", "drainEnd"} \in SUBSET Working
          /\ Working \ {"codec", "handle"} \in SUBSET Working
          /\ {"handle"} \in SUBSET Working
      BY DEF Working, InHandSteps, Draining
    <3>2. pc' \notin {"mode", "release"}
      BY <1>2, <1>15
    <3> QED
      BY <2>1, <2>2, <2>3, <3>1, <3>2 DEF StreamFlow
  <2>7. StreamOwners(u)'
    <3>1. ~ At(u, InHandSteps)'
      BY <2>3 DEF Working
    <3>2. Ordered(RingAt(u))'
      BY <2>1, <2>2 DEF Ordered
    <3>3. \A x \in released' : x[1] = u => x[2] \in 1 .. got'[u]
      <4> SUFFICES ASSUME NEW x \in released', x[1] = u PROVE x[2] \in 1 .. got[u] + 1
        BY <1>7
      <4>1. CASE x \in released
        <5>1. x[2] \in 1 .. got[u]
          BY <1>12, <4>1
        <5> QED
          BY <1>2, <5>1
      <4>2. CASE x = <<u, got[u] + 1>>
        BY <1>2, <4>2
      <4> QED
        BY <1>8, <1>15, <4>1, <4>2
    <3>4. ~ Lost' => \A i \in 1 .. got'[u] : <<u, i>> \in released'
      <4> SUFFICES ASSUME ~ Lost', NEW i \in 1 .. got[u] + 1 PROVE <<u, i>> \in released'
        BY <1>7
      <4>1. CASE i = got[u] + 1
        BY <1>8, <1>15, <4>1
      <4>2. CASE i # got[u] + 1
        <5>1. i \in 1 .. got[u]
          BY <1>2, <4>2
        <5> QED
          BY <1>1, <1>13, <1>15, <2>5, <5>1 DEF StreamOwners
      <4> QED
        BY <4>1, <4>2
    <3> QED
      BY <2>4, <3>1, <3>2, <3>3, <3>4 DEF StreamOwners
  <2>8. StreamWhole(u)'
    <3>1. ~ At(u, Draining)'
      BY <2>3 DEF Working
    <3> QED
      BY <2>1, <2>2, <3>1 DEF StreamWhole
  <2>9. ASSUME NEW v \in Urls, v # u
        PROVE  StreamFlow(v)' /\ StreamOwners(v)' /\ StreamWhole(v)'
    <3>1. StreamFlow(v) /\ StreamOwners(v) /\ StreamWhole(v)
      BY DEF IInv
    <3>2. ~ At(v, Working) /\ ~ At(v, Working)' /\ pc' \notin {"mode", "release"}
      BY <1>2, <1>15, <2>3
    <3>3. mode' = mode /\ recording' = recording /\ cut' = cut /\ failed' = failed /\ mu' = mu
      BY <1>5 DEF files
    <3>4. FileAt(v) # NoFile => recording'
      BY <3>1, <3>3 DEF StreamFlow
    <3>5. Lost => Lost'
      BY <1>15, <3>3 DEF Lost
    <3> QED
      BY <1>1, <1>7, <1>9, <2>2, <2>9, <3>1, <3>2, <3>3, <3>4, <3>5, OtherStream
  <2>10. Shape'
    BY <1>1, <1>5, <1>7, <1>9, <1>15 DEF Shape
  <2>11. Control'
    <3>1. pc' = "idle" /\ pc' \notin Working
      BY <1>2, <1>15 DEF Working, InHandSteps, Draining
    <3>2. ClosedFilesReported' /\ Known' \subseteq sources' /\ buf' = <<>> /\ infos' = {}
      BY <1>1, <1>2, <1>5, <2>2 DEF Control, ClosedFilesReported, files
    <3> QED
      BY <3>1, <3>2, IdleControl
  <2> QED
    BY <2>6, <2>7, <2>8, <2>9, <2>10, <2>11 DEF IInv
<1>16. CASE /\ mode # "never" /\ u \in sources
            /\ pc' = "codec" /\ job' = [kind |-> "pkt", pkt |-> p]
            /\ streams' = [streams EXCEPT ![u] = IF u \in Known THEN @ ELSE NewStream]
            /\ UNCHANGED released
  <2>1. PICK s \in StreamOf : s = IF u \in Known THEN streams[u] ELSE NewStream
    BY <1>1, KnownStreams, Records
  <2>2. streams' = [streams EXCEPT ![u] = s] /\ s # NoStream
    BY <1>1, <1>16, <2>1, Records DEF Shape
  <2>3. /\ streams' \in [Urls -> {NoStream} \cup StreamOf]
        /\ FileAt(u)' = s.file /\ RingAt(u)' = s.ring /\ SeenAt(u)' = s.seen
        /\ Known' = Known \cup {u}
        /\ \A v \in Urls : v # u => /\ FileAt(v)' = FileAt(v) /\ RingAt(v)' = RingAt(v)
                                    /\ SeenAt(v)' = SeenAt(v)
    BY <1>1, <2>1, <2>2, SetOneStream
  <2>4. s.file = FileAt(u) /\ s.ring = RingAt(u) /\ s.seen = SeenAt(u)
    <3>1. s.seen \in BOOLEAN
      BY <2>1 DEF StreamOf
    <3>2. CASE u \in Known
      BY <2>1, <3>1, <3>2 DEF FileAt, RingAt, SeenAt
    <3>3. CASE u \notin Known
      <4>1. s.file = NoFile /\ s.ring = <<>> /\ ~ s.seen
        BY <2>1, <3>3, Records
      <4> QED
        BY <3>1, <3>3, <4>1 DEF FileAt, RingAt, SeenAt
    <3> QED
      BY <3>2, <3>3
  <2>5. FileAt(u)' = FileAt(u) /\ RingAt(u)' = RingAt(u) /\ SeenAt(u)' = SeenAt(u)
    BY <2>3, <2>4
  <2>6. Src' = u /\ Pkt' = p /\ pc' \in Working /\ pc' \in InHandSteps /\ pc' \notin Draining
    BY <1>4, <1>16 DEF Src, Pkt, Working, InHandSteps, Draining
  <2>7. /\ Passing(u)' = {p} /\ UsedOf(u)' = UsedOf(u) \cup {p} /\ HeldAt(u)' = HeldAt(u)
        /\ Upto(u)' = Upto(u)
    <3>1. At(u, InHandSteps)' /\ ~ At(u, Draining)'
      BY <2>6 DEF At
    <3>2. Passing(u)' = {p}
      BY <2>6, <3>1 DEF Passing
    <3>3. HeldAt(u)' = HeldAt(u)
      BY <2>5 DEF HeldAt
    <3>4. Range(RingAt(u))' = Range(RingAt(u))
      BY <2>5 DEF Range
    <3>5. UsedOf(u)' = UsedOf(u) \cup {p}
      BY <1>10, <3>2, <3>3, <3>4 DEF UsedOf
    <3>6. Upto(u)' = Upto(u)
      BY <1>2, <1>7, <1>10, <3>1 DEF Upto
    <3> QED
      BY <3>2, <3>3, <3>5, <3>6
  <2>8. StreamFlow(u)'
    <3>1. /\ ~ At(u, {"write", "flush", "drain", "drainFlush", "drainEnd"})'
          /\ ~ At(u, {"open", "drainOpen", "drainNext"})'
          /\ ~ At(u, {"drain", "drainFlush", "drainEnd"})'
          /\ ~ At(u, Working \ {"codec", "handle"})' /\ ~ At(u, {"handle"})'
      BY <1>16 DEF At
    <3>2. mode' = mode /\ recording' = recording /\ pc' \notin {"mode", "release"}
      BY <1>5, <1>16
    <3> QED
      BY <1>1, <2>5, <3>1, <3>2 DEF StreamFlow
  <2>9. StreamOwners(u)'
    <3>1. \A q \in UsedOf(u)' : q.url = u /\ q.id <= got'[u] /\ <<u, q.id>> \notin released'
      <4>1. <<u, got[u] + 1>> \notin released
        <5> SUFFICES ASSUME <<u, got[u] + 1>> \in released PROVE FALSE
          OBVIOUS
        <5>1. got[u] + 1 \in 1 .. got[u]
          BY <1>12
        <5> QED
          BY <1>2, <5>1
      <4>2. \A q \in UsedOf(u) : q.url = u /\ q.id <= got[u] + 1 /\ <<u, q.id>> \notin released
        <5>1. \A q \in UsedOf(u) : q.url = u /\ <<u, q.id>> \notin released
          BY <1>1 DEF StreamOwners
        <5>2. \A q \in UsedOf(u) : q.id <= got[u] + 1
          BY <1>2, <1>11
        <5> QED
          BY <5>1, <5>2
      <4>3. p.url = u /\ p.id <= got[u] + 1 /\ <<u, p.id>> \notin released
        BY <1>2, <1>4, <4>1
      <4> QED
        BY <1>7, <1>16, <2>7, <4>2, <4>3
    <3>2. \A q \in UsedOf(u) : q.id # p.id
      BY <1>2, <1>4, <1>11
    <3>3. \A q, r \in UsedOf(u)' : q.id = r.id => q = r
      <4>1. \A q, r \in UsedOf(u) : q.id = r.id => q = r
        BY <1>1 DEF StreamOwners
      <4> QED
        BY <2>7, <3>2, <4>1
    <3>4. Passing(u)' \cap (Range(RingAt(u)) \cup HeldAt(u))' = {}
      <4>1. Range(RingAt(u))' = Range(RingAt(u))
        BY <2>5 DEF Range
      <4>2. p \notin UsedOf(u)
        BY <3>2
      <4> QED
        BY <1>10, <2>7, <4>1, <4>2
    <3>5. Pkt'.id = got'[u]
      BY <1>4, <1>7, <2>6
    <3>6. Ordered(RingAt(u))'
      BY <1>1, <2>5 DEF StreamOwners, Ordered
    <3>7. \A x \in released' : x[1] = u => x[2] \in 1 .. got'[u]
      <4>1. 1 .. got[u] \subseteq 1 .. got'[u]
        BY <1>2, <1>7
      <4> QED
        BY <1>12, <1>16, <4>1
    <3>8. ~ Lost' =>
             \A i \in 1 .. got'[u] : <<u, i>> \in released' \/ \E q \in UsedOf(u)' : q.id = i
      <4> SUFFICES ASSUME ~ Lost', NEW i \in 1 .. got[u] + 1
                   PROVE  <<u, i>> \in released' \/ \E q \in UsedOf(u)' : q.id = i
        BY <1>7
      <4>1. CASE i = got[u] + 1
        BY <1>4, <2>7, <4>1
      <4>2. CASE i # got[u] + 1
        <5>1. i \in 1 .. got[u]
          BY <1>2, <4>2
        <5>2. <<u, i>> \in released \/ \E q \in UsedOf(u) : q.id = i
          BY <1>1, <1>13, <5>1 DEF StreamOwners
        <5> QED
          BY <1>16, <2>7, <5>2
      <4> QED
        BY <4>1, <4>2
    <3> QED
      BY <3>1, <3>3, <3>4, <3>5, <3>6, <3>7, <3>8 DEF StreamOwners
  <2>10. StreamWhole(u)'
    <3>1. cut' = cut /\ failed' = failed /\ ~ At(u, Draining)'
      BY <1>5, <2>6 DEF files, At
    <3>2. RingAt(u)' # <<>> => Covers(IdsOf(RingAt(u)), u, RingAt(u)[1].id, Upto(u))'
      <4>1. IdsOf(RingAt(u))' = IdsOf(RingAt(u))
        BY <2>5 DEF IdsOf, Range
      <4> QED
        BY <1>1, <2>5, <2>7, <3>1, <4>1 DEF StreamWhole, Covers
    <3>3. FileAt(u)' # NoFile => FileWhole(u, FileAt(u))'
      <4> SUFFICES ASSUME FileAt(u) # NoFile PROVE FileWhole(u, FileAt(u))'
        BY <2>5
      <4>1. FileWhole(u, FileAt(u)) /\ FileAt(u).ids # {}
        BY <1>1, <1>14 DEF StreamWhole
      <4> QED
        BY <2>5, <2>7, <3>1, <4>1 DEF FileWhole, Covers, Key
    <3> QED
      BY <3>1, <3>2, <3>3 DEF StreamWhole
  <2>11. ASSUME NEW v \in Urls, v # u
         PROVE  StreamFlow(v)' /\ StreamOwners(v)' /\ StreamWhole(v)'
    <3>1. StreamFlow(v) /\ StreamOwners(v) /\ StreamWhole(v)
      BY DEF IInv
    <3>2. ~ At(v, Working) /\ ~ At(v, Working)' /\ pc' \notin {"mode", "release"}
      BY <1>2, <1>16, <2>6, <2>11 DEF At, Working, InHandSteps, Draining
    <3>3. mode' = mode /\ recording' = recording /\ cut' = cut /\ failed' = failed /\ mu' = mu
      BY <1>5 DEF files
    <3>4. FileAt(v) # NoFile => recording'
      BY <3>1, <3>3 DEF StreamFlow
    <3>5. Lost => Lost'
      BY <1>2, <3>3 DEF Lost
    <3> QED
      BY <1>1, <1>7, <1>9, <2>3, <2>11, <3>1, <3>2, <3>3, <3>4, <3>5, OtherStream
  <2>12. Shape'
    <3>1. pc' \in Labels /\ pc' \notin {"mode", "release"} /\ job' \in [kind : {"pkt"}, pkt : Pkts]
      BY <1>4, <1>16 DEF Labels, Working, InHandSteps
    <3> QED
      BY <1>1, <1>5, <1>7, <1>9, <2>3, <3>1 DEF Shape
  <2>13. Control'
    <3>1. ClosedFilesReported' /\ Known' \subseteq sources' /\ buf' = <<>> /\ infos' = {}
      BY <1>1, <1>2, <1>5, <1>16, <2>3 DEF Control, ClosedFilesReported, files
    <3>2. mu' = "free" /\ mode' # "never" /\ Src' \in Known'
      BY <1>2, <1>5, <1>16, <2>3, <2>6
    <3>3. Ordered(buf)'
      BY <3>1 DEF Ordered
    <3> QED
      BY <1>16, <3>1, <3>2, <3>3 DEF Control
  <2> QED
    BY <2>8, <2>9, <2>10, <2>11, <2>12, <2>13 DEF IInv
<1> QED
  BY <1>6, <1>15, <1>16

-----------------------------------------------------------------------------
(* The invariant *)

\* Nothing is known, nothing has come.
LEMMA InitInvariant ==
    ASSUME Init
    PROVE  IInv
<1>1. /\ mode \in RecordModes /\ recording = FALSE /\ sources = {}
      /\ streams = [u \in Urls |-> NoStream]
      /\ mu = "free" /\ pc = "idle" /\ buf = <<>> /\ infos = {} /\ stopping = FALSE
      /\ got = [u \in Urls |-> 0] /\ time = [u \in Urls |-> 0] /\ par = [u \in Urls |-> 1]
      /\ released = {} /\ cut = {} /\ closed = {} /\ reported = {} /\ failed = {}
  BY ModesAssumption DEF Init, RecordModes
<1>2. Known = {}
  BY <1>1 DEF Known
<1>3. pc \notin Working /\ pc \notin InHandSteps /\ pc \notin Draining
  BY <1>1 DEF Working, InHandSteps, Draining
<1>4. Shape
  <2>1. <<>> \in Seq(Pkts)
    OBVIOUS
  <2>2. pc \in Labels
    BY <1>1 DEF Labels
  <2> QED
    BY <1>1, <1>3, <2>1, <2>2 DEF Shape
<1>5. Control
  <2>1. Ordered(buf)
    BY <1>1 DEF Ordered
  <2> QED
    BY <1>1, <1>2, <1>3, <2>1 DEF Control, ClosedFilesReported
<1>6. ASSUME NEW u \in Urls
      PROVE  StreamFlow(u) /\ StreamOwners(u) /\ StreamWhole(u)
  <2>1. FileAt(u) = NoFile /\ RingAt(u) = <<>>
    BY <1>2 DEF FileAt, RingAt
  <2>2. \A L \in SUBSET Working : ~ At(u, L)
    BY <1>3 DEF At
  <2>3. StreamFlow(u)
    <3>1. /\ {"write", "flush", "drain", "drainFlush", "drainEnd"} \in SUBSET Working
          /\ {"open", "drainOpen", "drainNext"} \in SUBSET Working
          /\ {"drain", "drainFlush", "drainEnd"} \in SUBSET Working
          /\ Working \ {"codec", "handle"} \in SUBSET Working
          /\ {"handle"} \in SUBSET Working
      BY DEF Working, InHandSteps, Draining
    <3> QED
      BY <1>1, <2>1, <2>2, <3>1 DEF StreamFlow
  <2>4. UsedOf(u) = {} /\ Passing(u) = {}
    <3>1. ~ At(u, InHandSteps) /\ ~ At(u, Draining)
      BY <2>2 DEF Working
    <3> QED
      BY <2>1, <3>1 DEF UsedOf, Passing, HeldAt, Range
  <2>5. StreamOwners(u)
    <3>1. ~ At(u, InHandSteps) /\ Ordered(RingAt(u))
      BY <2>1, <2>2 DEF Working, Ordered
    <3>2. \A i \in 1 .. got[u] : FALSE
      BY <1>1
    <3> QED
      BY <1>1, <2>4, <3>1, <3>2 DEF StreamOwners
  <2>6. StreamWhole(u)
    BY <1>1, <2>1 DEF StreamWhole
  <2> QED
    BY <2>3, <2>5, <2>6
<1> QED
  BY <1>4, <1>5, <1>6 DEF IInv

\* A step that changes nothing.
LEMMA StutterStep ==
    ASSUME IInv, UNCHANGED vars
    PROVE  IInv'
<1>1. /\ UNCHANGED <<mode, recording, sources, streams, mu, pc, job, buf, infos, stopping>>
      /\ UNCHANGED <<got, time, par, released, cut, closed, reported, failed>>
  BY DEF vars, input, files
<1>2. /\ Known' = Known
      /\ \A v \in Urls : FileAt(v)' = FileAt(v) /\ RingAt(v)' = RingAt(v) /\ SeenAt(v)' = SeenAt(v)
  BY <1>1, SameStreams
<1>3. \A v, L : At(v, L)' <=> At(v, L)
  BY <1>1 DEF At, Src
<1>4. Pkt' = Pkt /\ Src' = Src /\ (Lost' <=> Lost) /\ (ClosedFilesReported' <=> ClosedFilesReported)
  BY <1>1 DEF Pkt, Src, Lost, ClosedFilesReported
<1>5. Shape'
  BY <1>1 DEF IInv, Shape
<1>6. Control'
  BY <1>1, <1>2, <1>4 DEF IInv, Control, Ordered, Key
<1>7. ASSUME NEW v \in Urls
      PROVE  StreamFlow(v)' /\ StreamOwners(v)' /\ StreamWhole(v)'
  <2>1. StreamFlow(v) /\ StreamOwners(v) /\ StreamWhole(v)
    BY DEF IInv
  <2>2. StreamFlow(v)'
    BY <1>1, <1>2, <1>3, <2>1 DEF StreamFlow
  <2>3. Passing(v)' = Passing(v) /\ HeldAt(v)' = HeldAt(v) /\ Upto(v)' = Upto(v)
    BY <1>1, <1>2, <1>3, <1>4 DEF Passing, HeldAt, Upto
  <2>4. UsedOf(v)' = UsedOf(v) /\ Range(RingAt(v))' = Range(RingAt(v))
    BY <1>2, <2>3 DEF UsedOf
  <2>5. StreamOwners(v)'
    BY <1>1, <1>2, <1>3, <1>4, <2>1, <2>3, <2>4 DEF StreamOwners, Ordered
  <2>6. StreamWhole(v)'
    BY <1>1, <1>2, <1>3, <1>4, <2>1, <2>3 DEF StreamWhole, FileWhole, Covers, IdsOf, Key
  <2> QED
    BY <2>2, <2>5, <2>6
<1> QED
  BY <1>5, <1>6, <1>7 DEF IInv

\* One action after the other.
LEMMA EveryStep ==
    ASSUME IInv, [Next]_vars
    PROVE  IInv'
<1>1. CASE \E u \in Urls : addSource(u)
  BY <1>1, MessagesStep
<1>2. CASE \E u \in Urls : removeSource(u)
  BY <1>2, RemoveSourceStep
<1>3. CASE \E u \in Urls : ClockMax(u)
  BY <1>3, ClocksStep
<1>4. CASE \E u \in Urls : ModeClose(u)
  BY <1>4, ModeCloseStep
<1>5. CASE \E u \in Urls : ModeCloseFails(u)
  BY <1>5, ModeCloseFailsStep
<1>6. CASE \E u \in Urls : ReleaseStream(u)
  BY <1>6, ReleaseStreamStep
<1>7. CASE Event \/ ClockIdle
  BY <1>7, ClocksStep
<1>8. CASE (\E m \in Modes : ChangeMode(m)) \/ ModeChanged \/ SendInfos \/ Stop \/ Release \/ Released
  BY <1>8, MessagesStep
<1>9. CASE \E u \in Urls, k \in {"key", "delta", "audio"}, new \in BOOLEAN : Receive(u, k, new)
  BY <1>9, ReceiveStep
<1>10. CASE Packet
  <2>1. CASE \E u \in Urls, k \in {"key", "delta", "audio"}, new \in BOOLEAN : Receive(u, k, new)
    BY <1>9, <2>1
  <2>2. CASE CodecParameters
    BY <2>2, CodecParametersStep
  <2>3. CASE BeforeKeyframe
    BY <2>3, BeforeKeyframeStep
  <2>4. CASE Buffer
    BY <2>4, BufferStep
  <2>5. CASE EndSession
    BY <2>5, EndSessionStep
  <2>6. CASE Rotate
    BY <2>6, RotateStep
  <2>7. CASE Handle
    BY <2>7, HandleStep
  <2>8. CASE Open
    BY <2>8, OpenStep
  <2>9. CASE OpenFails
    BY <2>9, OpenFailsStep
  <2>10. CASE Write
    BY <2>10, WriteStep
  <2>11. CASE NoFlush
    BY <2>11, NoFlushStep
  <2>12. CASE Flush
    BY <2>12, FlushStep
  <2>13. CASE FlushFails
    BY <2>13, FlushFailsStep
  <2>14. CASE FlushPanics
    BY <2>14, FlushPanicsStep
  <2> QED
    BY <1>10, <2>1, <2>2, <2>3, <2>4, <2>5, <2>6, <2>7, <2>8, <2>9, <2>10, <2>11, <2>12, <2>13,
       <2>14 DEF Packet
<1>11. CASE Drain
  <2>1. CASE DrainOpen
    BY <2>1, DrainOpenStep
  <2>2. CASE DrainOpenFails
    BY <2>2, DrainOpenFailsStep
  <2>3. CASE DrainClose
    BY <2>3, DrainCloseStep
  <2>4. CASE DrainNext
    BY <2>4, DrainNextStep
  <2>5. CASE DrainWrite
    BY <2>5, DrainWriteStep
  <2> QED
    BY <1>11, <2>1, <2>2, <2>3, <2>4, <2>5 DEF Drain
<1>12. CASE UNCHANGED vars
  BY <1>12, StutterStep
<1> QED
  BY <1>1, <1>2, <1>3, <1>4, <1>5, <1>6, <1>7, <1>8, <1>10, <1>11, <1>12 DEF Next

\* The invariant: the streams, Step and the packets agree after every part of a
\* Step (segmenter.go:552-722).
THEOREM InductiveInvariant == Spec => []IInv
<1>1. Init => IInv
  BY InitInvariant
<1>2. IInv /\ [Next]_vars => IInv'
  BY EveryStep
<1> QED
  BY <1>1, <1>2, PTL DEF Spec

-----------------------------------------------------------------------------
(* What follows from it *)

\* The places a packet can be at are those of its stream.
LEMMA PlacesAre ==
    ASSUME IInv, NEW P \in Places \cup {Range(buf)}, NEW p \in P
    PROVE  \E v \in Urls :
              /\ p \in UsedOf(v)
              /\ \/ P = Range(RingAt(v)) \/ P = HeldAt(v)
                 \/ P = Range(buf) /\ P \subseteq Passing(v)
<1>1. Shape /\ Control
  BY DEF IInv
<1>2. CASE P = Range(buf)
  <2>1. buf # <<>>
    BY <1>2 DEF Range
  <2>2. pc \in Draining /\ pc \in Working
    BY <1>1, <2>1 DEF Control, Working
  <2>3. Src \in Urls /\ P \subseteq Passing(Src)
    BY <1>2, <2>2, Before, BeforePackets
  <2> QED
    BY <1>2, <2>3 DEF UsedOf
<1>3. CASE \E v \in Known : P = Range(streams[v].ring)
  <2>1. PICK v \in Known : P = Range(streams[v].ring)
    BY <1>3
  <2>2. v \in Urls /\ P = Range(RingAt(v))
    BY <2>1 DEF Known, RingAt
  <2> QED
    BY <2>2 DEF UsedOf
<1>4. CASE \E v \in Urls : Active(v) /\ P = streams[v].file.held
  <2>1. PICK v \in Urls : Active(v) /\ P = streams[v].file.held
    BY <1>4
  <2>2. P = HeldAt(v)
    BY <2>1, HeldIsAll
  <2> QED
    BY <2>2 DEF UsedOf
<1> QED
  BY <1>2, <1>3, <1>4 DEF Places

\* A packet is in one place.
LEMMA OnePlace ==
    ASSUME IInv, NEW v \in Urls
    PROVE  Range(RingAt(v)) \cap HeldAt(v) = {} /\ Passing(v) \cap (Range(RingAt(v)) \cup HeldAt(v)) = {}
<1>1. StreamFlow(v) /\ StreamOwners(v)
  BY DEF IInv
<1>2. Range(RingAt(v)) \cap HeldAt(v) = {}
  <2>1. CASE FileAt(v) = NoFile
    BY <2>1 DEF HeldAt
  <2>2. CASE FileAt(v) # NoFile
    BY <1>1, <2>2 DEF StreamFlow, Range
  <2> QED
    BY <2>1, <2>2
<1> QED
  BY <1>1, <1>2 DEF StreamOwners

\* What is used is what the streams use.
LEMMA UsedIs ==
    ASSUME IInv
    PROVE  \A p : p \in InHand \cup Range(buf) \cup InPlace <=> \E v \in Urls : p \in UsedOf(v)
<1>1. Shape /\ Control
  BY DEF IInv
<1>2. ASSUME NEW p \in InHand
      PROVE  \E v \in Urls : p \in UsedOf(v)
  <2>1. pc \in InHandSteps /\ pc \in Working /\ p = Pkt
    BY <1>2 DEF InHand, InHandSteps, Working
  <2>2. Src \in Urls /\ Pkt \in Passing(Src)
    BY <2>1, Before, BeforePackets
  <2> QED
    BY <2>1, <2>2 DEF UsedOf
<1>3. ASSUME NEW p \in Range(buf) \cup InPlace
      PROVE  \E v \in Urls : p \in UsedOf(v)
  <2>1. PICK P \in Places \cup {Range(buf)} : p \in P
    BY <1>3 DEF InPlace
  <2> QED
    BY <2>1, PlacesAre
<1>4. ASSUME NEW v \in Urls, NEW p \in UsedOf(v)
      PROVE  p \in InHand \cup Range(buf) \cup InPlace
  <2>1. CASE p \in Range(RingAt(v))
    <3>1. v \in Known
      BY <2>1 DEF RingAt, Range
    <3>2. Range(streams[v].ring) \in Places /\ p \in Range(streams[v].ring)
      BY <2>1, <3>1 DEF Places, RingAt
    <3> QED
      BY <3>2 DEF InPlace
  <2>2. CASE p \in HeldAt(v)
    <3>1. Active(v)
      BY <1>1, <2>2, ViewTypes DEF HeldAt
    <3>2. HeldAt(v) = streams[v].file.held
      BY <3>1, HeldIsAll
    <3>3. HeldAt(v) \in Places
      BY <3>1, <3>2 DEF Places
    <3> QED
      BY <2>2, <3>3 DEF InPlace
  <2>3. CASE p \in Passing(v)
    <3>1. CASE At(v, InHandSteps) /\ p = Pkt
      <4>1. pc \in Working /\ pc \in {"codec", "handle", "open", "write"}
        BY <3>1 DEF At, Working, InHandSteps
      <4>2. job.kind = "pkt"
        BY <1>1, <4>1 DEF Shape
      <4> QED
        BY <3>1, <4>1, <4>2 DEF InHand
    <3> QED
      BY <2>3, <3>1 DEF Passing
  <2> QED
    BY <2>1, <2>2, <2>3 DEF UsedOf
<1> QED
  BY <1>2, <1>3, <1>4

\* Every packet has one owner or was given back (segmenter.go:552-722, 991-1152).
THEOREM PacketsHaveOneOwner == Spec => []PacketsOwnedOnce
<1>1. ASSUME IInv
      PROVE  PacketsOwnedOnce
  <2> DEFINE used == InHand \cup Range(buf) \cup InPlace
  <2>1. \A p : p \in used <=> \E v \in Urls : p \in UsedOf(v)
    BY <1>1, UsedIs
  <2>2. \A v \in Urls : \A p \in UsedOf(v) : p.url = v /\ <<v, p.id>> \notin released
    BY <1>1 DEF IInv, StreamOwners
  <2>3. released \cap Names(used) = {}
    <3> SUFFICES ASSUME NEW p \in used PROVE <<p.url, p.id>> \notin released
      BY DEF Names
    <3>1. PICK v \in Urls : p \in UsedOf(v)
      BY <2>1
    <3> QED
      BY <2>2, <3>1
  <2>4. ASSUME NEW P \in Places \cup {Range(buf)}, NEW Q \in Places \cup {Range(buf)}, P # Q,
               NEW p \in P, p \in Q
        PROVE  FALSE
    <3>1. PICK v \in Urls : /\ p \in UsedOf(v)
                            /\ \/ P = Range(RingAt(v)) \/ P = HeldAt(v)
                               \/ P = Range(buf) /\ P \subseteq Passing(v)
      BY <1>1, <2>4, PlacesAre
    <3>2. PICK w \in Urls : /\ p \in UsedOf(w)
                            /\ \/ Q = Range(RingAt(w)) \/ Q = HeldAt(w)
                               \/ Q = Range(buf) /\ Q \subseteq Passing(w)
      BY <1>1, <2>4, PlacesAre
    <3>3. v = w
      BY <2>2, <3>1, <3>2
    <3> QED
      BY <1>1, <2>4, <3>1, <3>2, <3>3, OnePlace
  <2>5. ASSUME ~ Lost
        PROVE  Received \subseteq released \cup Names(used)
    <3> SUFFICES ASSUME NEW u \in Urls, NEW i \in 1 .. got[u]
                 PROVE  <<u, i>> \in released \cup Names(used)
      BY DEF Received
    <3>1. <<u, i>> \in released \/ \E p \in UsedOf(u) : p.id = i
      BY <1>1, <2>5 DEF IInv, StreamOwners
    <3> QED
      BY <2>1, <2>2, <3>1 DEF Names
  <2> QED
    BY <2>3, <2>4, <2>5 DEF PacketsOwnedOnce, Lost
<1> QED
  BY <1>1, InductiveInvariant, PTL

\* A file starts with a keyframe and holds all that follows, but for what the ring
\* cut (segmenter.go:119-180, 525-543, 991-1069).
THEOREM FilesAreWhole == Spec => []FilesHaveNoHoles
<1>1. ASSUME IInv, NEW v \in Urls, Active(v), streams[v].file.ids # {}, NEW f, f = streams[v].file
      PROVE  /\ Key(f.start) /\ f.start.id = Min(f.ids)
             /\ \A i \in Min(f.ids) .. Max(f.ids) :
                   i \in f.ids \/ <<v, i>> \in cut \/ "drain" \in failed
  <2>1. Shape /\ StreamWhole(v)
    BY <1>1 DEF IInv
  <2>2. f \in FileOf /\ FileAt(v) = f /\ f # NoFile
    BY <1>1, HeldIsAll
  <2>3. FileWhole(v, f)
    BY <2>1, <2>2 DEF StreamWhole
  <2>4. Upto(v) \in Int /\ Upto(v) <= got[v] /\ got[v] \in Nat
    <3>1. CASE At(v, Working)
      BY <1>1, <3>1, Before, BeforePackets DEF At
    <3>2. CASE ~ At(v, Working)
      BY <2>1, <3>2 DEF Upto, At, Working, Shape
    <3> QED
      BY <3>1, <3>2
  <2>5. f.ids \in SUBSET Nat /\ f.ids # {} /\ f.start.id \in f.ids
        /\ \A i \in f.ids : f.start.id <= i /\ i <= Upto(v)
    BY <1>1, <2>2, <2>3 DEF FileOf, FileWhole
  <2>6. Min(f.ids) \in f.ids /\ \A i \in f.ids : Min(f.ids) <= i
    BY <2>5, MinProperties
  <2>7. f.start.id = Min(f.ids)
    BY <2>5, <2>6
  <2>8. Max(f.ids) \in f.ids
    <3>1. \A i \in f.ids : i <= got[v]
      BY <2>4, <2>5
    <3> QED
      BY <2>4, <2>5, <3>1, MaxProperties
  <2>9. ASSUME NEW i \in Min(f.ids) .. Max(f.ids), "drain" \notin failed
        PROVE  i \in f.ids \/ <<v, i>> \in cut
    <3>1. Covers(f.ids, v, f.start.id, Upto(v))
      BY <1>1, <2>3, <2>9 DEF FileWhole
    <3>2. i \in f.start.id .. Upto(v)
      BY <2>4, <2>5, <2>6, <2>7, <2>8, <2>9
    <3> QED
      BY <3>1, <3>2 DEF Covers
  <2> QED
    BY <2>3, <2>7, <2>9 DEF FileWhole
<1>2. IInv => FilesHaveNoHoles
  BY <1>1 DEF FilesHaveNoHoles
<1> QED
  BY <1>2, InductiveInvariant, PTL

\* The status is on while any stream is recorded (segmenter.go:415-461, 944-989).
THEOREM StatusIsOnWhileRecording == Spec => []StatusCoversRecording
<1>1. IInv => StatusCoversRecording
  BY HeldIsAll DEF StatusCoversRecording
<1> QED
  BY <1>1, InductiveInvariant, PTL

\* Every finished file is told of (segmenter.go:463-523).
THEOREM EveryFileIsReported == Spec => []ClosedFilesReported
<1>1. IInv => ClosedFilesReported
  BY DEF IInv, Control
<1> QED
  BY <1>1, InductiveInvariant, PTL

-----------------------------------------------------------------------------
(* The MP4 muxer *)

CONSTANTS Layouts, MaxPackets, MaxDuration, Gaps
VARIABLES layout, batched, mux, file, written, freed, stage

Muxer == INSTANCE MP4Muxer

muxed == <<layout, batched, mux, file, written, freed, stage>>

\* What MP4Muxer has and takes.  How many entries of a list hold packet id.
Mine(q, id) == {i \in DOMAIN q : q[i].live /\ q[i].pkt.id = id}
Copies(q, id) == Cardinality(Mine(q, id))
Holding(X, id) == {x \in X : x.live /\ x.pkt.id = id}
Held(m, id) == Copies(m.pending, id) + Copies(Muxer!Lasts(m.streams), id)

Entries(W) == [pkt : W \cup {Muxer!NoPacket}, live : BOOLEAN]
TableFields == {"last", "stco", "stsz", "stss", "stts", "ctts"}

\* A muxer that holds packets of W: what waits in a stream is of that stream.
Holds(m, W) ==
    /\ DOMAIN m = {"pending", "pos", "flushed", "streams"}
    /\ m.pending \in Seq(Entries(W))
    /\ DOMAIN m.streams = DOMAIN layout
    /\ \A s \in DOMAIN layout :
          /\ DOMAIN m.streams[s] = TableFields
          /\ m.streams[s].last \in W \cup {Muxer!NoPacket}
          /\ m.streams[s].last # Muxer!NoPacket => m.streams[s].last.s = s

Given == {written[i] : i \in DOMAIN written}

\* Of every packet written, one holder or one release.
MuxInvariant ==
    /\ layout \in Layouts
    /\ written \in Seq(Given)
    /\ \A i \in DOMAIN written : written[i].id = i /\ written[i].s \in DOMAIN layout
    /\ DOMAIN freed = DOMAIN written
    /\ Holds(mux, Given)
    /\ \A id \in DOMAIN written : freed[id] \in Nat /\ freed[id] + Held(mux, id) = 1
    /\ stage \in {"done", "holed", "failed"} => \A id \in DOMAIN written : freed[id] = 1

\* The module's cardinality is the one of the library.
LEMMA MuxCardinality ==
    ASSUME NEW S
    PROVE  Muxer!Cardinality(S) = Cardinality(S)
BY DEF Muxer!Cardinality, Cardinality

\* And so is its maximum.
LEMMA MuxMax ==
    ASSUME NEW S
    PROVE  Muxer!Max(S) = Max(S)
BY DEF Muxer!Max, Max

\* The entries that hold a packet are counted.
LEMMA CopiesAreCounted ==
    ASSUME NEW X, NEW q \in Seq(X), NEW id
    PROVE  Copies(q, id) = CountIn(q, Holding(X, id)) /\ Copies(q, id) \in Nat
<1>1. \A i \in DOMAIN q : q[i] \in X
  OBVIOUS
<1>2. Mine(q, id) = PlacesIn(q, Holding(X, id))
  BY <1>1 DEF Mine, PlacesIn, Holding
<1> QED
  BY <1>2, CountType DEF Copies, CountIn

\* In two sequences of entries.
LEMMA CopiesConcat ==
    ASSUME NEW X, NEW q \in Seq(X), NEW r \in Seq(X), NEW id
    PROVE  Copies(q \o r, id) = Copies(q, id) + Copies(r, id)
<1>1. PICK S : S = Holding(X, id)
  OBVIOUS
<1>2. PICK u \in Seq(X) : u = q \o r
  BY ConcatProperties
<1>3. Copies(q, id) = CountIn(q, S) /\ Copies(r, id) = CountIn(r, S) /\ Copies(u, id) = CountIn(u, S)
  <2>1. Copies(q, id) = CountIn(q, S)
    BY <1>1, CopiesAreCounted
  <2>2. Copies(r, id) = CountIn(r, S)
    BY <1>1, CopiesAreCounted
  <2>3. Copies(u, id) = CountIn(u, S)
    BY <1>1, <1>2, CopiesAreCounted
  <2> QED
    BY <2>1, <2>2, <2>3
<1>4. CountIn(u, S) = CountIn(q, S) + CountIn(r, S)
  BY <1>2, CountConcat
<1> QED
  BY <1>2, <1>3, <1>4

\* One entry more.
LEMMA CopiesAppend ==
    ASSUME NEW X, NEW q \in Seq(X), NEW x \in X, NEW id
    PROVE  Copies(Append(q, x), id) = Copies(q, id) + (IF x.live /\ x.pkt.id = id THEN 1 ELSE 0)
<1>1. PICK S : S = Holding(X, id)
  OBVIOUS
<1>2. PICK u \in Seq(X) : u = Append(q, x)
  BY AppendProperties
<1>3. x \in S <=> x.live /\ x.pkt.id = id
  BY <1>1 DEF Holding
<1>4. Copies(q, id) = CountIn(q, S) /\ Copies(u, id) = CountIn(u, S)
  <2>1. Copies(q, id) = CountIn(q, S)
    BY <1>1, CopiesAreCounted
  <2>2. Copies(u, id) = CountIn(u, S)
    BY <1>1, <1>2, CopiesAreCounted
  <2> QED
    BY <2>1, <2>2
<1>5. CountIn(u, S) = CountIn(q, S) + (IF x \in S THEN 1 ELSE 0)
  BY <1>2, CountAppend
<1> QED
  BY <1>2, <1>3, <1>4, <1>5

\* One entry in the place of another.
LEMMA CopiesReplace ==
    ASSUME NEW X, NEW q \in Seq(X), NEW k \in DOMAIN q, NEW x \in X, NEW id
    PROVE  Copies([q EXCEPT ![k] = x], id) + (IF q[k].live /\ q[k].pkt.id = id THEN 1 ELSE 0)
             = Copies(q, id) + (IF x.live /\ x.pkt.id = id THEN 1 ELSE 0)
<1>1. PICK S : S = Holding(X, id)
  OBVIOUS
<1>2. [q EXCEPT ![k] = x] \in Seq(X) /\ q[k] \in X
  BY ExceptSeq
<1>3. /\ x \in S <=> x.live /\ x.pkt.id = id
      /\ q[k] \in S <=> q[k].live /\ q[k].pkt.id = id
  BY <1>1, <1>2 DEF Holding
<1>4. /\ Copies(q, id) = CountIn(q, S)
      /\ Copies([q EXCEPT ![k] = x], id) = CountIn([q EXCEPT ![k] = x], S)
  BY <1>1, <1>2, CopiesAreCounted
<1>5. CountIn([q EXCEPT ![k] = x], S) + (IF q[k] \in S THEN 1 ELSE 0)
        = CountIn(q, S) + (IF x \in S THEN 1 ELSE 0)
  BY CountReplace
<1> QED
  BY <1>3, <1>4, <1>5

\* No entry holds it.
LEMMA CopiesByNone ==
    ASSUME NEW q, NEW id, \A i \in DOMAIN q : ~ (q[i].live /\ q[i].pkt.id = id)
    PROVE  Copies(q, id) = 0
<1>1. Mine(q, id) = {}
  BY DEF Mine
<1> QED
  BY <1>1, FS_EmptySet DEF Copies

\* What a torn Flush released is what was before the entry it stopped at.
LEMMA CopiesTorn ==
    ASSUME NEW W, NEW q \in Seq(Entries(W)), NEW k \in DOMAIN q, NEW id
    PROVE  /\ Muxer!Left(q, k) \in Seq(Entries(W))
           /\ SubSeq(q, 1, k - 1) \in Seq(Entries(W))
           /\ Copies(q, id) = Copies(SubSeq(q, 1, k - 1), id)
                + Copies(Muxer!Left(q, k), id)
<1>1. PICK n \in Nat : n = Len(q) /\ DOMAIN q = 1 .. n
  OBVIOUS
<1>2. PICK u : u = Muxer!Left(q, k)
  OBVIOUS
<1>3. PICK r : r = SubSeq(q, 1, k - 1)
  OBVIOUS
<1>4. k \in 1 .. n
  BY <1>1
<1>5. ASSUME NEW j \in 1 .. n
      PROVE  /\ u[j] \in Entries(W) /\ u[j].pkt = q[j].pkt
             /\ u[j].live = (q[j].live /\ j >= k)
  <2>7. q[j] \in Entries(W)
    BY <1>1, ElementOfSeq, Zenon
  <2>1. PICK p \in W \cup {Muxer!NoPacket}, b \in BOOLEAN : q[j] = [pkt |-> p, live |-> b]
    BY <2>7 DEF Entries
  <2>2. u[j] = [q[j] EXCEPT !.live = @ /\ j >= k]
    BY <1>1, <1>2 DEF Muxer!Left
  <2>3. u[j] = [pkt |-> p, live |-> (b /\ j >= k)]
    BY <2>1, <2>2
  <2>4. (b /\ j >= k) \in BOOLEAN
    OBVIOUS
  <2>5. u[j] \in Entries(W)
    BY <2>1, <2>3, <2>4 DEF Entries
  <2>6. u[j].pkt = p /\ u[j].live = (b /\ j >= k)
    BY <2>3
  <2>8. q[j].pkt = p /\ q[j].live = b
    BY <2>1
  <2> QED
    BY <2>5, <2>6, <2>8
<1>6. u \in Seq(Entries(W)) /\ DOMAIN u = 1 .. n
  BY <1>1, <1>2, <1>5 DEF Muxer!Left
<1>7. r \in Seq(Entries(W)) /\ DOMAIN r = 1 .. k - 1 /\ \A i \in 1 .. k - 1 : r[i] = q[i]
  <2>1. 1 \in Int /\ k - 1 \in Int /\ \A i \in 1 .. k - 1 : i \in 1 .. n
    BY <1>4
  <2>2. \A i \in 1 .. n : q[i] \in Entries(W)
    BY <1>1, ElementOfSeq, Zenon
  <2>3. \A i \in 1 .. k - 1 : q[i] \in Entries(W)
    BY <2>1, <2>2
  <2>4. /\ r \in Seq(Entries(W)) /\ Len(r) = (IF 1 <= k - 1 THEN k - 1 - 1 + 1 ELSE 0)
        /\ \A i \in 1 .. k - 1 - 1 + 1 : r[i] = q[1 + i - 1]
    BY <1>3, <2>1, <2>3, SubSeqProperties
  <2>5. Len(r) = k - 1
    BY <1>4, <2>4
  <2> QED
    BY <1>4, <2>4, <2>5
<1>8. PICK S : S = Holding(Entries(W), id)
  OBVIOUS
<1>9. \A i \in 1 .. n : u[i] \in S <=> q[i] \in S /\ i >= k
  <2>1. \A i \in 1 .. n : q[i] \in Entries(W)
    BY <1>1, ElementOfSeq, Zenon
  <2> QED
    BY <1>5, <1>8, <2>1, Zenon DEF Holding
<1>10. PlacesIn(u, S) = {i \in 1 .. n : q[i] \in S /\ i >= k}
  BY <1>6, <1>9 DEF PlacesIn
<1>11. PlacesIn(r, S) = {i \in 1 .. k - 1 : q[i] \in S}
  BY <1>7 DEF PlacesIn
<1>12. PlacesIn(q, S) = {i \in 1 .. n : q[i] \in S}
  BY <1>1 DEF PlacesIn
<1>13. PlacesIn(q, S) = PlacesIn(r, S) \cup PlacesIn(u, S)
  <2>1. \A i \in 1 .. n : i >= k \/ i \in 1 .. k - 1
    BY <1>4
  <2>2. \A i \in 1 .. k - 1 : i \in 1 .. n
    BY <1>4
  <2> QED
    BY <1>10, <1>11, <1>12, <2>1, <2>2
<1>14. PlacesIn(r, S) \cap PlacesIn(u, S) = {}
  <2>1. \A i \in 1 .. k - 1 : ~ (i >= k)
    BY <1>4
  <2> QED
    BY <1>10, <1>11, <2>1
<1>15. CountIn(q, S) = CountIn(r, S) + CountIn(u, S)
  BY <1>6, <1>7, <1>13, <1>14, CountSplit
<1>16. Copies(q, id) = CountIn(q, S) /\ Copies(r, id) = CountIn(r, S) /\ Copies(u, id) = CountIn(u, S)
  <2>1. Copies(q, id) = CountIn(q, S)
    BY <1>8, CopiesAreCounted
  <2>2. Copies(r, id) = CountIn(r, S)
    BY <1>7, <1>8, CopiesAreCounted
  <2>3. Copies(u, id) = CountIn(u, S)
    BY <1>6, <1>8, CopiesAreCounted
  <2> QED
    BY <2>1, <2>2, <2>3
<1> QED
  BY <1>2, <1>3, <1>6, <1>7, <1>15, <1>16

\* Streams, one for each codec, in which packets of W wait.
Waiting(a, W) == /\ DOMAIN a = DOMAIN layout
                 /\ \A s \in DOMAIN layout : a[s].last \in W \cup {Muxer!NoPacket}

\* What waits in the streams is a list of entries.
LEMMA LastsAreEntries ==
    ASSUME NEW C, layout \in Seq(C), NEW W, NEW a, Waiting(a, W)
    PROVE  /\ Muxer!Lasts(a) \in Seq(Entries(W)) /\ DOMAIN Muxer!Lasts(a) = DOMAIN layout
           /\ \A s \in DOMAIN layout : Muxer!Lasts(a)[s] = [pkt |-> a[s].last, live |-> TRUE]
<1>1. PICK n \in Nat : DOMAIN layout = 1 .. n
  OBVIOUS
<1>2. Muxer!Lasts(a) = [s \in 1 .. n |-> [pkt |-> a[s].last, live |-> TRUE]]
  BY <1>1 DEF Muxer!Lasts, Waiting
<1>3. \A s \in 1 .. n : [pkt |-> a[s].last, live |-> TRUE] \in Entries(W)
  BY <1>1 DEF Entries, Waiting
<1>4. Muxer!Lasts(a) \in Seq(Entries(W))
  BY <1>2, <1>3
<1> QED
  BY <1>1, <1>2, <1>4

\* Another packet that waits in a stream.
LEMMA LastReplaced ==
    ASSUME NEW C, layout \in Seq(C), NEW W, NEW a, NEW b,
           Waiting(a, W), Waiting(b, W), NEW s \in DOMAIN layout,
           \A t \in DOMAIN layout : t # s => b[t].last = a[t].last,
           NEW id
    PROVE  Copies(Muxer!Lasts(b), id) + (IF a[s].last.id = id THEN 1 ELSE 0)
             = Copies(Muxer!Lasts(a), id) + (IF b[s].last.id = id THEN 1 ELSE 0)
<1>1. PICK q : q = Muxer!Lasts(a)
  OBVIOUS
<1>2. PICK r : r = Muxer!Lasts(b)
  OBVIOUS
<1>3. /\ q \in Seq(Entries(W)) /\ DOMAIN q = DOMAIN layout
      /\ \A t \in DOMAIN layout : q[t] = [pkt |-> a[t].last, live |-> TRUE]
  BY <1>1, LastsAreEntries
<1>4. /\ r \in Seq(Entries(W)) /\ DOMAIN r = DOMAIN layout
      /\ \A t \in DOMAIN layout : r[t] = [pkt |-> b[t].last, live |-> TRUE]
  BY <1>2, LastsAreEntries
<1>5. r[s] \in Entries(W) /\ s \in DOMAIN q
  <2>1. s \in DOMAIN r
    BY <1>4
  <2> QED
    BY <1>3, <1>4, <2>1, ElementOfSeq
<1>6. r = [q EXCEPT ![s] = r[s]]
  BY <1>1, <1>2, <1>3, <1>4 DEF Muxer!Lasts, Waiting
<1>7. Copies([q EXCEPT ![s] = r[s]], id) + (IF q[s].live /\ q[s].pkt.id = id THEN 1 ELSE 0)
        = Copies(q, id) + (IF r[s].live /\ r[s].pkt.id = id THEN 1 ELSE 0)
  <2>1. PICK x \in Entries(W) : x = r[s]
    BY <1>5
  <2>2. Copies([q EXCEPT ![s] = x], id) + (IF q[s].live /\ q[s].pkt.id = id THEN 1 ELSE 0)
          = Copies(q, id) + (IF x.live /\ x.pkt.id = id THEN 1 ELSE 0)
    <3>1. q \in Seq(Entries(W)) /\ s \in DOMAIN q
      BY <1>3, <1>5
    <3> QED
      BY <2>1, <3>1, CopiesReplace
  <2> QED
    BY <2>1, <2>2
<1>8. /\ q[s].live /\ q[s].pkt = a[s].last
      /\ r[s].live /\ r[s].pkt = b[s].last
  BY <1>3, <1>4
<1> QED
  BY <1>1, <1>2, <1>6, <1>7, <1>8

\* What is held is a number.
LEMMA HeldType ==
    ASSUME NEW C, layout \in Seq(C), NEW W, NEW m, Holds(m, W), NEW id
    PROVE  /\ m.pending \in Seq(Entries(W)) /\ Muxer!Lasts(m.streams) \in Seq(Entries(W))
           /\ Copies(m.pending, id) \in Nat /\ Copies(Muxer!Lasts(m.streams), id) \in Nat
<1>1. m.pending \in Seq(Entries(W)) /\ Muxer!Lasts(m.streams) \in Seq(Entries(W))
  <2>1. Waiting(m.streams, W)
    BY DEF Holds, Waiting
  <2> QED
    BY <2>1, LastsAreEntries DEF Holds
<1> QED
  BY <1>1, CopiesAreCounted

\* writePacket as it changes the muxer.
LEMMA WriteLastIs ==
    ASSUME NEW W, NEW m, Holds(m, W), NEW next, next.s \in DOMAIN layout,
           NEW r, r = Muxer!WriteLast(m, next)
    PROVE  /\ DOMAIN r = {"pending", "pos", "flushed", "streams"}
           /\ r.pending = IF m.streams[next.s].last = Muxer!NoPacket THEN m.pending
                          ELSE Append(m.pending, [pkt |-> m.streams[next.s].last, live |-> TRUE])
           /\ DOMAIN r.streams = DOMAIN layout
           /\ \A t \in DOMAIN layout : t # next.s => r.streams[t] = m.streams[t]
           /\ DOMAIN r.streams[next.s] = TableFields
           /\ r.streams[next.s].last = next
<1>1. PICK s \in DOMAIN layout : s = next.s
  OBVIOUS
<1>2. CASE m.streams[s].last = Muxer!NoPacket
  <2>1. r = [m EXCEPT !.streams[s].last = next]
    BY <1>1, <1>2 DEF Muxer!WriteLast
  <2> QED
    BY <1>1, <1>2, <2>1 DEF Holds, TableFields
<1>3. CASE m.streams[s].last # Muxer!NoPacket
  <2>1. PICK p, e1, e2, e3, e4, e5 :
           r = [m EXCEPT !.pending = Append(@, [pkt |-> m.streams[s].last, live |-> TRUE]),
                         !.pos = p,
                         !.streams[s] = [last |-> next, stco |-> e1, stsz |-> e2, stss |-> e3,
                                         stts |-> e4, ctts |-> e5]]
    BY <1>1, <1>3, Zenon DEF Muxer!WriteLast
  <2> QED
    BY <1>1, <1>3, <2>1 DEF Holds, TableFields
<1> QED
  BY <1>2, <1>3

\* writePacket takes one packet more, and loses none.
LEMMA WriteLastHolds ==
    ASSUME NEW C, layout \in Seq(C), NEW W, NEW m, Holds(m, W),
           NEW next, next.s \in DOMAIN layout, NEW r, r = Muxer!WriteLast(m, next)
    PROVE  /\ Holds(r, W \cup {next})
           /\ r.streams[next.s].last = next
           /\ \A id \in Nat \ {0} :
                 Held(r, id) = Held(m, id) + (IF next.id = id THEN 1 ELSE 0)
<1>1. PICK s \in DOMAIN layout : s = next.s
  OBVIOUS
<1>2. PICK last \in W \cup {Muxer!NoPacket} : last = m.streams[s].last
  BY DEF Holds
<1>3. PICK V : V = W \cup {next}
  OBVIOUS
<1>4. Entries(W) \subseteq Entries(V)
  BY <1>3 DEF Entries
<1>5. m.pending \in Seq(Entries(V))
  BY <1>4 DEF Holds
<1>6. /\ DOMAIN r = {"pending", "pos", "flushed", "streams"}
      /\ r.pending = IF last = Muxer!NoPacket THEN m.pending
                     ELSE Append(m.pending, [pkt |-> last, live |-> TRUE])
      /\ DOMAIN r.streams = DOMAIN layout
      /\ \A t \in DOMAIN layout : t # s => r.streams[t] = m.streams[t]
      /\ DOMAIN r.streams[s] = TableFields
      /\ r.streams[s].last = next
  BY <1>1, <1>2, WriteLastIs
<1>7. [pkt |-> last, live |-> TRUE] \in Entries(V)
  BY <1>2, <1>3 DEF Entries
<1>8. r.pending \in Seq(Entries(V))
  BY <1>5, <1>6, <1>7, AppendProperties
<1>9. \A t \in DOMAIN layout :
         /\ DOMAIN r.streams[t] = TableFields
         /\ r.streams[t].last \in V \cup {Muxer!NoPacket}
         /\ r.streams[t].last # Muxer!NoPacket => r.streams[t].last.s = t
  BY <1>1, <1>3, <1>6 DEF Holds
<1>10. Holds(r, V)
  BY <1>6, <1>8, <1>9 DEF Holds
<1>11. ASSUME NEW id \in Nat \ {0}
       PROVE  Held(r, id) = Held(m, id) + (IF next.id = id THEN 1 ELSE 0)
  <2>1. Copies(Muxer!Lasts(r.streams), id) + (IF last.id = id THEN 1 ELSE 0)
          = Copies(Muxer!Lasts(m.streams), id) + (IF next.id = id THEN 1 ELSE 0)
    <3>1. Waiting(m.streams, V)
      BY <1>3 DEF Holds, Waiting
    <3>2. Waiting(r.streams, V)
      BY <1>6, <1>9 DEF Waiting
    <3>3. \A t \in DOMAIN layout : t # s => r.streams[t].last = m.streams[t].last
      BY <1>6
    <3>4. Copies(Muxer!Lasts(r.streams), id) + (IF m.streams[s].last.id = id THEN 1 ELSE 0)
            = Copies(Muxer!Lasts(m.streams), id) + (IF r.streams[s].last.id = id THEN 1 ELSE 0)
      BY <3>1, <3>2, <3>3, LastReplaced
    <3> QED
      BY <1>2, <1>6, <3>4
  <2>2. PICK a \in Nat, b \in Nat, c \in Nat :
           /\ a = Copies(m.pending, id) /\ b = Copies(Muxer!Lasts(m.streams), id)
           /\ c = Copies(Muxer!Lasts(r.streams), id)
    BY <1>10, HeldType
  <2>3. CASE last = Muxer!NoPacket
    <3>1. last.id # id
      BY <2>3 DEF Muxer!NoPacket
    <3> QED
      BY <1>6, <2>1, <2>2, <2>3, <3>1 DEF Held
  <2>4. CASE last # Muxer!NoPacket
    <3>1. PICK x \in Entries(V) : x = [pkt |-> last, live |-> TRUE]
      BY <1>7
    <3>2. Copies(Append(m.pending, x), id)
            = Copies(m.pending, id) + (IF x.live /\ x.pkt.id = id THEN 1 ELSE 0)
      BY <1>5, CopiesAppend
    <3>3. Copies(r.pending, id) = a + (IF last.id = id THEN 1 ELSE 0)
      BY <1>6, <2>2, <2>4, <3>1, <3>2
    <3>4. PICK x1 \in {0, 1}, y1 \in {0, 1} :
             x1 = (IF last.id = id THEN 1 ELSE 0) /\ y1 = (IF next.id = id THEN 1 ELSE 0)
      OBVIOUS
    <3>5. Copies(r.pending, id) = a + x1 /\ c + x1 = b + y1
      BY <2>1, <2>2, <3>3, <3>4
    <3>6. Held(r, id) = (a + x1) + c /\ Held(m, id) = a + b
      BY <2>2, <3>5 DEF Held
    <3> QED
      BY <3>4, <3>5, <3>6
  <2> QED
    BY <2>3, <2>4
<1> QED
  BY <1>1, <1>3, <1>6, <1>10, <1>11

\* A packet that waits becomes pending; none is lost.
LEMMA TakeLastHolds ==
    ASSUME NEW C, layout \in Seq(C), NEW W, NEW m, Holds(m, W), NEW s \in DOMAIN layout,
           NEW r, r = Muxer!TakeLast(m, s)
    PROVE  Holds(r, W) /\ \A id \in Nat \ {0} : Held(r, id) = Held(m, id)
<1>1. PICK last \in W \cup {Muxer!NoPacket} : last = m.streams[s].last
  BY DEF Holds
<1>2. CASE last = Muxer!NoPacket
  <2>1. r = m
    BY <1>1, <1>2 DEF Muxer!TakeLast
  <2> QED
    BY <2>1
<1>3. CASE last # Muxer!NoPacket
  <2>1. last.s = s /\ last \in W
    BY <1>1, <1>3 DEF Holds
  <2>2. PICK w : w = Muxer!WriteLast(m, last)
    OBVIOUS
  <2>3. r = [w EXCEPT !.streams[s].last = Muxer!NoPacket]
    BY <1>1, <1>3, <2>2 DEF Muxer!TakeLast
  <2>4. W \cup {last} = W
    BY <2>1
  <2>5. /\ Holds(w, W \cup {last})
        /\ w.streams[last.s].last = last
        /\ \A id \in Nat \ {0} : Held(w, id) = Held(m, id) + (IF last.id = id THEN 1 ELSE 0)
    <3>1. last.s \in DOMAIN layout
      BY <2>1
    <3>2. PICK next : next = last
      OBVIOUS
    <3>3. next.s \in DOMAIN layout /\ w = Muxer!WriteLast(m, next)
      BY <2>2, <3>1, <3>2
    <3>4. /\ Holds(w, W \cup {next})
          /\ w.streams[next.s].last = next
          /\ \A id \in Nat \ {0} : Held(w, id) = Held(m, id) + (IF next.id = id THEN 1 ELSE 0)
      BY <3>3, WriteLastHolds
    <3> QED
      BY <3>2, <3>4
  <2>6. Holds(w, W) /\ w.streams[s].last = last
    BY <2>1, <2>4, <2>5
  <2>7. /\ DOMAIN r = {"pending", "pos", "flushed", "streams"}
        /\ r.pending = w.pending
        /\ DOMAIN r.streams = DOMAIN layout
        /\ \A t \in DOMAIN layout : t # s => r.streams[t] = w.streams[t]
        /\ DOMAIN r.streams[s] = TableFields
        /\ r.streams[s].last = Muxer!NoPacket
    BY <2>3, <2>6 DEF Holds, TableFields
  <2>8. \A t \in DOMAIN layout :
           /\ DOMAIN r.streams[t] = TableFields
           /\ r.streams[t].last \in W \cup {Muxer!NoPacket}
           /\ r.streams[t].last # Muxer!NoPacket => r.streams[t].last.s = t
    BY <2>6, <2>7 DEF Holds
  <2>9. r.pending \in Seq(Entries(W))
    BY <2>6, <2>7 DEF Holds
  <2>10. Holds(r, W)
    BY <2>7, <2>8, <2>9 DEF Holds
  <2>11. ASSUME NEW id \in Nat \ {0}
         PROVE  Held(r, id) = Held(m, id)
    <3>1. Waiting(w.streams, W)
      BY <2>6 DEF Holds, Waiting
    <3>2. Waiting(r.streams, W)
      BY <2>7, <2>8 DEF Waiting
    <3>3. \A t \in DOMAIN layout : t # s => r.streams[t].last = w.streams[t].last
      BY <2>7
    <3>4. Copies(Muxer!Lasts(r.streams), id) + (IF w.streams[s].last.id = id THEN 1 ELSE 0)
            = Copies(Muxer!Lasts(w.streams), id) + (IF r.streams[s].last.id = id THEN 1 ELSE 0)
      BY <3>1, <3>2, <3>3, LastReplaced
    <3>5. r.streams[s].last.id # id
      BY <2>7 DEF Muxer!NoPacket
    <3>6. PICK a \in Nat, b \in Nat :
             a = Copies(w.pending, id) /\ b = Copies(Muxer!Lasts(w.streams), id)
      BY <2>6, HeldType
    <3>7. PICK c \in Nat : c = Copies(Muxer!Lasts(r.streams), id)
      BY <2>10, HeldType
    <3>8. PICK d \in Nat, e \in Nat :
             d = Copies(m.pending, id) /\ e = Copies(Muxer!Lasts(m.streams), id)
      BY HeldType
    <3>9. PICK x \in {0, 1} : x = (IF last.id = id THEN 1 ELSE 0)
      OBVIOUS
    <3>10. c + x = b
      BY <2>6, <3>4, <3>5, <3>6, <3>7, <3>9
    <3>11. a + b = (d + e) + x
      BY <2>5, <3>6, <3>8, <3>9 DEF Held
    <3>12. Held(r, id) = a + c /\ Held(m, id) = d + e
      BY <2>7, <3>6, <3>7, <3>8 DEF Held
    <3> QED
      BY <3>10, <3>11, <3>12
  <2> QED
    BY <2>10, <2>11
<1> QED
  BY <1>2, <1>3

(* WriteTrailer takes the last packets, stream by stream *)

\* Where they are listed; and what the function that folds over them must do.
Order == [s \in DOMAIN layout |-> s]
CompletedStep(h, t) ==
    IF t = {} THEN mux
    ELSE Muxer!TakeLast(h[t \ {Muxer!Max(t)}], Order[Muxer!Max(t)])

\* Completed is a recursive function of the subsets of the streams.
LEMMA CompletedIs ==
    Muxer!Completed
      = (CHOOSE h : h = [t \in SUBSET DOMAIN Order |-> CompletedStep(h, t)])[DOMAIN Order]
BY DEF Muxer!Completed, Muxer!FoldLeft, Muxer!MapThenFoldSet, CompletedStep, Order

\* There is such a function.
LEMMA CompletedExists ==
    ASSUME NEW n \in Nat, DOMAIN layout = 1 .. n
    PROVE  \E h : h = [t \in SUBSET (1 .. n) |-> CompletedStep(h, t)]
<1> DEFINE Solves(k, h) == \A t \in SUBSET (1 .. n) :
                            Cardinality(t) <= k => h[t] = CompletedStep(h, t)
           G == {k \in Nat : \E h : Solves(k, h)}
<1>1. \A t \in SUBSET (1 .. n) :
         IsFiniteSet(t) /\ Cardinality(t) \in Nat /\ Cardinality(t) <= n
  <2>1. IsFiniteSet(1 .. n) /\ Cardinality(1 .. n) = n
    BY FS_Interval
  <2>2. \A t \in SUBSET (1 .. n) :
           IsFiniteSet(t) /\ Cardinality(t) <= Cardinality(1 .. n)
    BY <2>1, FS_Subset
  <2> QED
    BY <2>1, <2>2, FS_CardinalityType
<1>2. ASSUME NEW t \in SUBSET (1 .. n), t # {}
      PROVE  Muxer!Max(t) \in t
  <2>1. t \in SUBSET Nat /\ \A x \in t : x <= n
    OBVIOUS
  <2> QED
    BY <1>2, <2>1, MuxMax, MaxProperties
<1>3. 0 \in G
  <2>1. \A t \in SUBSET (1 .. n) : Cardinality(t) <= 0 => t = {}
    BY <1>1, FS_EmptySet
  <2>2. PICK h : h = [t \in SUBSET (1 .. n) |-> mux]
    OBVIOUS
  <2>3. Solves(0, h)
    BY <2>1, <2>2 DEF CompletedStep
  <2> QED
    BY <2>3
<1>4. ASSUME NEW k \in G
      PROVE  k + 1 \in G
  <2>1. PICK h : Solves(k, h)
    OBVIOUS
  <2>2. PICK f : f = [t \in SUBSET (1 .. n) |-> CompletedStep(h, t)]
    OBVIOUS
  <2>3. ASSUME NEW t \in SUBSET (1 .. n), Cardinality(t) <= k + 1
        PROVE  f[t] = CompletedStep(f, t)
    <3>1. CASE t = {}
      BY <2>2, <3>1 DEF CompletedStep
    <3>2. CASE t # {}
      <4>1. PICK c \in t : c = Muxer!Max(t)
        BY <1>2, <3>2
      <4>2. Cardinality(t \ {c}) = Cardinality(t) - 1
        BY <1>1, <4>1, FS_RemoveElement
      <4>3. t \ {c} \in SUBSET (1 .. n) /\ Cardinality(t \ {c}) <= k
        BY <1>1, <2>3, <4>2
      <4>4. f[t \ {c}] = h[t \ {c}]
        BY <2>1, <2>2, <4>3
      <4>5. f[t] = Muxer!TakeLast(h[t \ {c}], Order[c])
        BY <2>2, <3>2, <4>1 DEF CompletedStep
      <4> QED
        BY <3>2, <4>1, <4>4, <4>5 DEF CompletedStep
    <3> QED
      BY <3>1, <3>2
  <2>4. Solves(k + 1, f)
    BY <2>3
  <2> QED
    BY <2>4
<1>5. n \in G
  <2>1. G \in SUBSET Nat
    OBVIOUS
  <2> HIDE DEF G
  <2> QED
    BY <1>3, <1>4, <2>1, InductionOnNat
<1>6. PICK h : Solves(n, h)
  BY <1>5
<1>7. PICK f : f = [t \in SUBSET (1 .. n) |-> h[t]]
  OBVIOUS
<1>8. ASSUME NEW t \in SUBSET (1 .. n)
      PROVE  h[t] = CompletedStep(f, t)
  <2>1. h[t] = CompletedStep(h, t)
    BY <1>1, <1>6
  <2>2. CASE t = {}
    BY <2>1, <2>2 DEF CompletedStep
  <2>3. CASE t # {}
    <3>1. PICK c \in t : c = Muxer!Max(t)
      BY <1>2, <2>3
    <3>2. f[t \ {c}] = h[t \ {c}]
      BY <1>7
    <3> QED
      BY <2>1, <2>3, <3>1, <3>2 DEF CompletedStep
  <2> QED
    BY <2>2, <2>3
<1>9. f = [t \in SUBSET (1 .. n) |-> CompletedStep(f, t)]
  <2>1. [t \in SUBSET (1 .. n) |-> h[t]] = [t \in SUBSET (1 .. n) |-> CompletedStep(f, t)]
    BY <1>8
  <2> QED
    BY <1>7, <2>1
<1> QED
  BY <1>9

\* The last packets are taken, and none is lost.
LEMMA CompletedHolds ==
    ASSUME NEW C, layout \in Seq(C), NEW W, Holds(mux, W)
    PROVE  /\ Holds(Muxer!Completed, W)
           /\ \A id \in Nat \ {0} : Held(Muxer!Completed, id) = Held(mux, id)
<1>1. PICK n \in Nat : DOMAIN layout = 1 .. n
  OBVIOUS
<1>2. PICK h : h = (CHOOSE g : g = [t \in SUBSET (1 .. n) |-> CompletedStep(g, t)])
  OBVIOUS
<1>3. h = [t \in SUBSET (1 .. n) |-> CompletedStep(h, t)]
  BY <1>1, <1>2, CompletedExists, Zenon
<1>4. \A t \in SUBSET (1 .. n) : h[t] = CompletedStep(h, t)
  BY <1>3
<1>5. Muxer!Completed = h[1 .. n]
  <2>1. DOMAIN Order = 1 .. n
    BY <1>1 DEF Order
  <2> QED
    BY <1>2, <2>1, CompletedIs
<1> DEFINE Sound(m) == Holds(m, W) /\ \A id \in Nat \ {0} : Held(m, id) = Held(mux, id)
           G == {k \in Nat : k <= n => Sound(h[1 .. k])}
<1>6. 0 \in G
  <2>1. 1 .. 0 = {} /\ {} \in SUBSET (1 .. n)
    OBVIOUS
  <2>2. h[1 .. 0] = mux
    BY <1>4, <2>1 DEF CompletedStep
  <2> QED
    BY <2>2
<1>7. ASSUME NEW k \in G
      PROVE  k + 1 \in G
  <2>1. SUFFICES ASSUME k + 1 <= n
                 PROVE  Sound(h[1 .. k + 1])
    OBVIOUS
  <2>12. k \in Nat /\ k + 1 \in Nat
    OBVIOUS
  <2>2. Sound(h[1 .. k])
    BY <2>1
  <2>3. PICK t \in SUBSET (1 .. n) : t = 1 .. k + 1
    BY <2>1
  <2>13. /\ \A x \in t : x \in Nat /\ 1 <= x /\ x <= k + 1
         /\ \A x \in Nat : 1 <= x /\ x <= k + 1 => x \in t
    BY <2>3, <2>12
  <2>4. Muxer!Max(t) = k + 1
    <3>1. Max(t) \in t /\ \A x \in t : x <= Max(t)
      <4>1. t \in SUBSET Nat /\ t # {} /\ \A x \in t : x <= k + 1
        BY <2>13
      <4> QED
        BY <2>12, <4>1, MaxProperties
    <3>2. k + 1 \in t
      BY <2>3
    <3> QED
      BY <2>3, <3>1, <3>2, MuxMax
  <2>5. t \ {k + 1} = 1 .. k /\ t # {}
    <3>1. \A x \in t : x # k + 1 => x \in 1 .. k
      BY <2>12, <2>13
    <3>2. \A x \in 1 .. k : x \in t /\ x # k + 1
      BY <2>12, <2>13
    <3>3. k + 1 \in t
      BY <2>12, <2>13
    <3>4. t \ {k + 1} = 1 .. k
      BY <3>1, <3>2
    <3> QED
      BY <3>3, <3>4
  <2>6. k + 1 \in DOMAIN layout /\ Order[k + 1] = k + 1
    BY <1>1, <2>1 DEF Order
  <2>7. h[t] = Muxer!TakeLast(h[1 .. k], k + 1)
    BY <1>4, <2>4, <2>5, <2>6 DEF CompletedStep
  <2>8. PICK m : m = h[1 .. k]
    OBVIOUS
  <2>9. PICK r : r = Muxer!TakeLast(m, k + 1)
    OBVIOUS
  <2>10. Holds(r, W) /\ \A id \in Nat \ {0} : Held(r, id) = Held(m, id)
    BY <2>2, <2>6, <2>8, <2>9, TakeLastHolds
  <2>11. Sound(r)
    BY <2>2, <2>8, <2>10
  <2> QED
    BY <2>3, <2>7, <2>8, <2>9, <2>11
<1>8. n \in G
  <2>1. G \in SUBSET Nat
    OBVIOUS
  <2> HIDE DEF G
  <2> QED
    BY <1>6, <1>7, <2>1, InductionOnNat
<1>9. Sound(h[1 .. n])
  BY <1>8
<1> QED
  BY <1>5, <1>9

\* What a step keeps of the packets written when it writes none.
NoneWritten == UNCHANGED <<layout, written>>

\* A release gives each packet back as often as it is in the entries.
LEMMA ReleaseIs ==
    ASSUME NEW q, Muxer!Release(q)
    PROVE  /\ DOMAIN freed' = DOMAIN freed
           /\ \A id \in DOMAIN freed : freed'[id] = freed[id] + Copies(q, id)
<1>1. freed' = [id \in DOMAIN freed |->
                  freed[id] + Muxer!Cardinality({i \in DOMAIN q : q[i].live /\ q[i].pkt.id = id})]
  BY DEF Muxer!Release
<1>2. \A id \in DOMAIN freed :
         Copies(q, id) = Muxer!Cardinality({i \in DOMAIN q : q[i].live /\ q[i].pkt.id = id})
  BY MuxCardinality DEF Copies, Mine
<1> QED
  BY <1>1, <1>2

\* A step that releases q and keeps a muxer that holds what is not in q.
LEMMA ReleasingStep ==
    ASSUME MuxInvariant, NoneWritten, NEW q, Muxer!Release(q), Holds(mux', Given),
           \A id \in DOMAIN written : Copies(q, id) \in Nat,
           \A id \in DOMAIN written : Held(mux', id) \in Nat,
           \A id \in DOMAIN written : Copies(q, id) + Held(mux', id) = Held(mux, id),
           stage' \in {"done", "holed", "failed"} =>
             \A id \in DOMAIN written : Copies(q, id) = Held(mux, id)
    PROVE  MuxInvariant'
<1>1. /\ DOMAIN freed' = DOMAIN freed
      /\ \A id \in DOMAIN freed : freed'[id] = freed[id] + Copies(q, id)
  BY ReleaseIs
<1>2. Given' = Given
  BY DEF Given, NoneWritten
<1>3. Holds(mux, Given)'
  BY <1>2 DEF Holds, NoneWritten
<1>4. ASSUME NEW id \in DOMAIN written
      PROVE  /\ freed'[id] \in Nat /\ freed'[id] + Held(mux', id) = 1
             /\ stage' \in {"done", "holed", "failed"} => freed'[id] = 1
  <2>1. PICK a \in Nat, b \in Nat, c \in Nat :
           a = freed[id] /\ b = Copies(q, id) /\ c = Held(mux', id)
    BY DEF MuxInvariant
  <2>2. a + (b + c) = 1 /\ Held(mux, id) = b + c
    BY <2>1 DEF MuxInvariant
  <2>3. freed'[id] = a + b
    BY <1>1, <2>1 DEF MuxInvariant
  <2> QED
    BY <2>1, <2>2, <2>3
<1>5. \A id \in DOMAIN written : (Held(mux, id))' = Held(mux', id)
  BY DEF Held, Copies, Mine, Muxer!Lasts
<1>6. /\ layout' = layout /\ written' = written
  BY DEF NoneWritten
<1> QED
  BY <1>1, <1>2, <1>3, <1>4, <1>5, <1>6 DEF MuxInvariant

\* A muxer that has nothing holds nothing.
LEMMA DroppedHolds ==
    ASSUME NEW C, layout \in Seq(C), NEW W, NEW m, Holds(m, W), NEW r,
           r = Muxer!Dropped(m) \/ r = Muxer!Dropped(Muxer!FlushedOut(m))
    PROVE  Holds(r, W) /\ \A id \in Nat \ {0} : Held(r, id) = 0
<1>1. /\ DOMAIN r = {"pending", "pos", "flushed", "streams"}
      /\ r.pending = <<>> /\ DOMAIN r.streams = DOMAIN layout
      /\ \A s \in DOMAIN layout :
            DOMAIN r.streams[s] = TableFields /\ r.streams[s].last = Muxer!NoPacket
  <2>1. PICK f \in {m, Muxer!FlushedOut(m)} : r = Muxer!Dropped(f)
    OBVIOUS
  <2>2. DOMAIN f = {"pending", "pos", "flushed", "streams"} /\ f.streams = m.streams
    BY <2>1 DEF Holds, Muxer!FlushedOut
  <2>3. r = [f EXCEPT !.pending = <<>>,
                      !.streams = [s \in DOMAIN @ |-> [@[s] EXCEPT !.last = Muxer!NoPacket]]]
    BY <2>1, Zenon DEF Muxer!Dropped
  <2>4. r.streams = [s \in DOMAIN m.streams |->
                       [m.streams[s] EXCEPT !.last = Muxer!NoPacket]]
    BY <2>2, <2>3
  <2>5. \A s \in DOMAIN layout :
           DOMAIN r.streams[s] = TableFields /\ r.streams[s].last = Muxer!NoPacket
    BY <2>4 DEF Holds, TableFields
  <2> QED
    BY <2>2, <2>3, <2>4, <2>5 DEF Holds
<1>2. Holds(r, W)
  BY <1>1 DEF Holds
<1>3. ASSUME NEW id \in Nat \ {0}
      PROVE  Held(r, id) = 0
  <2>1. Copies(r.pending, id) = 0
    BY <1>1, CopiesByNone
  <2>2. Waiting(r.streams, W)
    BY <1>1 DEF Waiting
  <2>3. /\ DOMAIN Muxer!Lasts(r.streams) = DOMAIN layout
        /\ \A s \in DOMAIN layout : Muxer!Lasts(r.streams)[s] = [pkt |-> r.streams[s].last, live |-> TRUE]
    BY <2>2, LastsAreEntries
  <2>4. \A s \in DOMAIN layout : Muxer!Lasts(r.streams)[s].pkt.id # id
    <3>1. \A s \in DOMAIN layout : Muxer!Lasts(r.streams)[s].pkt = Muxer!NoPacket
      <4> SUFFICES ASSUME NEW s \in DOMAIN layout
                   PROVE  Muxer!Lasts(r.streams)[s].pkt = Muxer!NoPacket
        OBVIOUS
      <4>1. Muxer!Lasts(r.streams)[s] = [pkt |-> r.streams[s].last, live |-> TRUE]
        BY <2>3
      <4>2. r.streams[s].last = Muxer!NoPacket
        BY <1>1
      <4> QED
        BY <4>1, <4>2
    <3> QED
      BY <3>1 DEF Muxer!NoPacket
  <2>5. Copies(Muxer!Lasts(r.streams), id) = 0
    BY <2>3, <2>4, CopiesByNone
  <2> QED
    BY <2>1, <2>5 DEF Held
<1> QED
  BY <1>2, <1>3

\* A muxer whose pending packets are written keeps what waits.
LEMMA FlushedOutHolds ==
    ASSUME NEW C, layout \in Seq(C), NEW W, NEW m, Holds(m, W), NEW r, r = Muxer!FlushedOut(m)
    PROVE  /\ Holds(r, W)
           /\ \A id \in Nat \ {0} : Held(r, id) \in Nat /\ Copies(m.pending, id) \in Nat
           /\ \A id \in Nat \ {0} : Copies(m.pending, id) + Held(r, id) = Held(m, id)
<1>1. /\ DOMAIN r = {"pending", "pos", "flushed", "streams"}
      /\ r.pending = <<>> /\ r.streams = m.streams
  BY DEF Holds, Muxer!FlushedOut
<1>2. Holds(r, W)
  BY <1>1 DEF Holds
<1>3. ASSUME NEW id \in Nat \ {0}
      PROVE  /\ Held(r, id) \in Nat /\ Copies(m.pending, id) \in Nat
             /\ Copies(m.pending, id) + Held(r, id) = Held(m, id)
  <2>1. Copies(r.pending, id) = 0
    BY <1>1, CopiesByNone
  <2>2. PICK a \in Nat, b \in Nat :
           a = Copies(m.pending, id) /\ b = Copies(Muxer!Lasts(m.streams), id)
    BY HeldType
  <2> QED
    BY <1>1, <2>1, <2>2 DEF Held
<1> QED
  BY <1>2, <1>3

\* The first packet has number 1, and what the invariant says of the state.
LEMMA MuxFacts ==
    ASSUME NEW C, Layouts \subseteq Seq(C), MuxInvariant
    PROVE  /\ layout \in Seq(C) /\ Holds(mux, Given)
           /\ \A id \in DOMAIN written : id \in Nat \ {0}
BY DEF MuxInvariant

\* At first nothing is written.
LEMMA MuxStarts ==
    ASSUME NEW C, Layouts \subseteq Seq(C), Muxer!MuxInit
    PROVE  MuxInvariant
<1>1. layout \in Layouts /\ written = <<>> /\ freed = <<>> /\ stage = "open"
  BY DEF Muxer!MuxInit
<1>2. Holds(mux, Given)
  BY DEF Muxer!MuxInit, Muxer!NewStream, Holds, TableFields
<1> QED
  BY <1>1, <1>2 DEF MuxInvariant

\* The packet that is written waits.
LEMMA WritingStep ==
    ASSUME NEW C, Layouts \subseteq Seq(C), MuxInvariant, Muxer!WriteAny
    PROVE  MuxInvariant'
<1>1. PICK n \in Nat : n = Len(written) /\ DOMAIN written = 1 .. n
  BY DEF MuxInvariant
<1>2. PICK pkt : pkt.id = n + 1 /\ pkt.s \in DOMAIN layout /\ Muxer!WritePacket(pkt)
  <2>1. PICK s \in DOMAIN layout, gap \in Gaps, key \in BOOLEAN, k \in 1 .. 2 :
           Muxer!WritePacket([id |-> Len(written) + 1, s |-> s, ts |-> Muxer!TimeOf(s) + gap,
                              key |-> key, n |-> k])
    BY Zenon DEF Muxer!WriteAny
  <2>2. PICK pkt : pkt = [id |-> Len(written) + 1, s |-> s, ts |-> Muxer!TimeOf(s) + gap,
                          key |-> key, n |-> k]
    OBVIOUS
  <2>3. pkt.id = n + 1 /\ pkt.s = s
    BY <1>1, <2>2
  <2> QED
    BY <2>1, <2>2, <2>3
<1>3. /\ mux' = Muxer!WriteLast(mux, pkt) /\ written' = Append(written, pkt)
      /\ freed' = Append(freed, 0) /\ layout' = layout /\ stage' = stage
      /\ stage \in {"open", "torn"}
  BY <1>2 DEF Muxer!WritePacket
<1>4. /\ layout \in Seq(C) /\ Holds(mux, Given)
  BY MuxFacts
<1>5. /\ Holds(mux', Given \cup {pkt})
      /\ \A id \in Nat \ {0} :
            Held(mux', id) = Held(mux, id) + (IF pkt.id = id THEN 1 ELSE 0)
  <2>1. pkt.s \in DOMAIN layout
    BY <1>2
  <2> QED
    BY <1>3, <1>4, <2>1, WriteLastHolds
<1>6. /\ DOMAIN written' = 1 .. n + 1 /\ written'[n + 1] = pkt
      /\ \A i \in 1 .. n : written'[i] = written[i]
      /\ written' \in Seq(Given \cup {pkt})
  <2>1. PICK V : V = Given \cup {pkt}
    OBVIOUS
  <2>2. Given \subseteq V /\ pkt \in V
    BY <2>1
  <2>3. written \in Seq(V)
    BY <2>2 DEF MuxInvariant
  <2>4. written' \in Seq(V) /\ Len(written') = n + 1
    BY <1>1, <1>3, <2>2, <2>3
  <2> QED
    BY <1>1, <1>3, <2>1, <2>3, <2>4
<1>7. Given' = Given \cup {pkt}
  <2>1. Given = {written[i] : i \in 1 .. n} /\ Given' = {written'[i] : i \in 1 .. n + 1}
    BY <1>1, <1>6 DEF Given
  <2>2. \A i \in 1 .. n + 1 : i \in 1 .. n \/ i = n + 1
    OBVIOUS
  <2>3. n + 1 \in 1 .. n + 1 /\ \A i \in 1 .. n : i \in 1 .. n + 1
    OBVIOUS
  <2> QED
    BY <1>6, <2>1, <2>2, <2>3
<1>8. Holds(mux, Given)'
  BY <1>3, <1>5, <1>7 DEF Holds
<1>9. /\ DOMAIN freed' = 1 .. n + 1 /\ freed'[n + 1] = 0
      /\ \A i \in 1 .. n : freed'[i] = freed[i]
  <2>1. DOMAIN freed = 1 .. n
    BY <1>1 DEF MuxInvariant
  <2> QED
    BY <1>3, <2>1
<1>10. ASSUME NEW id \in 1 .. n + 1
       PROVE  freed'[id] \in Nat /\ freed'[id] + Held(mux', id) = 1
  <2>1. CASE id = n + 1
    <3>1. Held(mux, id) = 0
      <4>1. \A p \in Given : p.id # id
        <5>1. \A i \in 1 .. n : written[i].id # id
          BY <1>1, <2>1 DEF MuxInvariant
        <5> QED
          BY <1>1, <5>1 DEF Given
      <4>2. Muxer!NoPacket.id # id
        BY <2>1 DEF Muxer!NoPacket
      <4>3. \A x \in Entries(Given) : x.pkt.id # id
        BY <4>1, <4>2 DEF Entries
      <4>4. mux.pending \in Seq(Entries(Given)) /\ Muxer!Lasts(mux.streams) \in Seq(Entries(Given))
        BY <1>4, HeldType
      <4>5. Copies(mux.pending, id) = 0
        BY <4>3, <4>4, CopiesByNone
      <4>6. Copies(Muxer!Lasts(mux.streams), id) = 0
        BY <4>3, <4>4, CopiesByNone
      <4> QED
        BY <4>5, <4>6 DEF Held
    <3>2. Held(mux', id) = 1
      BY <1>2, <1>5, <2>1, <3>1
    <3> QED
      BY <1>9, <2>1, <3>2
  <2>2. CASE id # n + 1
    <3>1. id \in 1 .. n
      BY <2>2
    <3>2. PICK a \in Nat : a = freed[id] /\ a + Held(mux, id) = 1
      BY <1>1, <3>1 DEF MuxInvariant
    <3>3. PICK d \in Nat, e \in Nat :
             d = Copies(mux.pending, id) /\ e = Copies(Muxer!Lasts(mux.streams), id)
      BY <1>4, HeldType
    <3>4. Held(mux', id) = d + e /\ Held(mux, id) = d + e
      BY <1>2, <1>5, <2>2, <3>3 DEF Held
    <3> QED
      BY <1>9, <3>1, <3>2, <3>4
  <2> QED
    BY <2>1, <2>2
<1>11. \A i \in 1 .. n + 1 : written'[i].id = i /\ written'[i].s \in DOMAIN layout
  <2>1. \A i \in 1 .. n : written[i].id = i /\ written[i].s \in DOMAIN layout
    BY <1>1 DEF MuxInvariant
  <2>2. \A i \in 1 .. n + 1 : i \in 1 .. n \/ i = n + 1
    OBVIOUS
  <2> QED
    BY <1>2, <1>6, <2>1, <2>2
<1>12. \A id \in 1 .. n + 1 : (Held(mux, id))' = Held(mux', id)
  BY DEF Held, Copies, Mine, Muxer!Lasts
<1>13. written' \in Seq(Given')
  BY <1>6, <1>7
<1>14. layout' \in Layouts
  BY <1>3 DEF MuxInvariant
<1> QED
  BY <1>3, <1>6, <1>8, <1>9, <1>10, <1>11, <1>12, <1>13, <1>14 DEF MuxInvariant

\* A flush that writes all that is pending, and one in a batch that fails.
LEMMA FlushingStep ==
    ASSUME NEW C, Layouts \subseteq Seq(C), MuxInvariant, NoneWritten,
           Muxer!Release(mux.pending), mux' = Muxer!FlushedOut(mux),
           stage' \notin {"done", "holed", "failed"}
    PROVE  MuxInvariant'
<1>1. layout \in Seq(C) /\ Holds(mux, Given) /\ \A id \in DOMAIN written : id \in Nat \ {0}
  BY MuxFacts
<1>2. /\ Holds(mux', Given)
      /\ \A id \in Nat \ {0} : Held(mux', id) \in Nat /\ Copies(mux.pending, id) \in Nat
      /\ \A id \in Nat \ {0} : Copies(mux.pending, id) + Held(mux', id) = Held(mux, id)
  BY <1>1, FlushedOutHolds
<1>3. PICK q : q = mux.pending
  OBVIOUS
<1>4. Muxer!Release(q)
  BY <1>3
<1> QED
  BY <1>1, <1>2, <1>3, <1>4, ReleasingStep

\* A direct flush that stops at an entry.
LEMMA TearingStep ==
    ASSUME NEW C, Layouts \subseteq Seq(C), MuxInvariant, NoneWritten,
           NEW k \in DOMAIN mux.pending, Muxer!Release(SubSeq(mux.pending, 1, k - 1)),
           mux' = Muxer!Torn(mux, k), stage' \notin {"done", "holed", "failed"}
    PROVE  MuxInvariant'
<1>1. layout \in Seq(C) /\ Holds(mux, Given) /\ \A id \in DOMAIN written : id \in Nat \ {0}
  BY MuxFacts
<1>2. PICK p : p = mux.pending
  OBVIOUS
<1>3. PICK q : q = SubSeq(p, 1, k - 1)
  OBVIOUS
<1>4. PICK u : u = Muxer!Left(p, k)
  OBVIOUS
<1>5. /\ DOMAIN mux' = {"pending", "pos", "flushed", "streams"}
      /\ mux'.pending = u /\ mux'.streams = mux.streams
  <2>1. mux' = [mux EXCEPT !.flushed = TRUE, !.pending = Muxer!Left(mux.pending, k)]
    BY Zenon DEF Muxer!Torn
  <2>2. mux' = [mux EXCEPT !.flushed = TRUE, !.pending = u]
    BY <1>2, <1>4, <2>1
  <2> QED
    BY <1>1, <2>2 DEF Holds
<1>6. p \in Seq(Entries(Given)) /\ k \in DOMAIN p
  BY <1>1, <1>2 DEF Holds
<1>7. ASSUME NEW id
      PROVE  u \in Seq(Entries(Given)) /\ q \in Seq(Entries(Given))
             /\ Copies(p, id) = Copies(q, id) + Copies(u, id)
  <2>1. p \in Seq(Entries(Given)) /\ k \in DOMAIN p
    BY <1>6
  <2>2. /\ Muxer!Left(p, k) \in Seq(Entries(Given))
        /\ SubSeq(p, 1, k - 1) \in Seq(Entries(Given))
        /\ Copies(p, id) = Copies(SubSeq(p, 1, k - 1), id)
             + Copies(Muxer!Left(p, k), id)
    BY <2>1, CopiesTorn
  <2> QED
    BY <1>3, <1>4, <2>2
<1>8. Holds(mux', Given)
  <2>1. u \in Seq(Entries(Given))
    BY <1>7
  <2> QED
    BY <1>1, <1>5, <2>1 DEF Holds
<1>9. ASSUME NEW id \in DOMAIN written
      PROVE  /\ Copies(q, id) \in Nat /\ Held(mux', id) \in Nat
             /\ Copies(q, id) + Held(mux', id) = Held(mux, id)
  <2>1. PICK a \in Nat, b \in Nat : a = Copies(q, id) /\ b = Copies(u, id)
    BY <1>7, CopiesAreCounted
  <2>2. PICK c \in Nat : c = Copies(Muxer!Lasts(mux.streams), id)
    BY <1>1, HeldType
  <2>3. Held(mux', id) = b + c /\ Held(mux, id) = (a + b) + c
    BY <1>2, <1>5, <1>7, <2>1, <2>2 DEF Held
  <2> QED
    BY <2>1, <2>2, <2>3
<1>10. Muxer!Release(q)
  BY <1>2, <1>3
<1> QED
  BY <1>8, <1>9, <1>10, ReleasingStep

\* All that a muxer m holds is given back, and it is emptied.
LEMMA EmptyingStep ==
    ASSUME NEW C, Layouts \subseteq Seq(C), MuxInvariant, NoneWritten,
           NEW m, Holds(m, Given), \A id \in Nat \ {0} : Held(m, id) = Held(mux, id),
           Muxer!Release(m.pending \o Muxer!Lasts(m.streams)),
           mux' = Muxer!Dropped(m) \/ mux' = Muxer!Dropped(Muxer!FlushedOut(m))
    PROVE  MuxInvariant'
<1>1. layout \in Seq(C) /\ \A id \in DOMAIN written : id \in Nat \ {0}
  BY MuxFacts
<1>2. Holds(mux', Given) /\ \A id \in Nat \ {0} : Held(mux', id) = 0
  BY <1>1, DroppedHolds
<1>3. PICK q : q = m.pending \o Muxer!Lasts(m.streams)
  OBVIOUS
<1>4. ASSUME NEW id \in DOMAIN written
      PROVE  /\ Copies(q, id) \in Nat /\ Copies(q, id) = Held(mux, id)
             /\ Held(mux', id) \in Nat /\ Copies(q, id) + Held(mux', id) = Held(mux, id)
  <2>1. /\ m.pending \in Seq(Entries(Given)) /\ Muxer!Lasts(m.streams) \in Seq(Entries(Given))
        /\ Copies(m.pending, id) \in Nat /\ Copies(Muxer!Lasts(m.streams), id) \in Nat
    BY <1>1, HeldType
  <2>2. Copies(q, id) = Copies(m.pending, id) + Copies(Muxer!Lasts(m.streams), id)
    BY <1>3, <2>1, CopiesConcat
  <2>3. Copies(q, id) = Held(mux, id) /\ Held(mux', id) = 0
    BY <1>1, <1>2, <2>2 DEF Held
  <2>4. PICK a \in Nat : a = Copies(q, id)
    BY <2>1, <2>2
  <2> QED
    BY <2>3, <2>4
<1>5. Muxer!Release(q)
  BY <1>3
<1> QED
  BY <1>2, <1>4, <1>5, ReleasingStep

\* Every step of the muxer keeps it.
LEMMA MuxSteps ==
    ASSUME NEW C, Layouts \subseteq Seq(C), MuxInvariant, [Muxer!MuxNext]_muxed
    PROVE  MuxInvariant'
<1>1. layout \in Seq(C) /\ Holds(mux, Given)
  BY MuxFacts
<1>2. Holds(Muxer!Completed, Given)
        /\ \A id \in Nat \ {0} : Held(Muxer!Completed, id) = Held(mux, id)
  BY <1>1, CompletedHolds
<1>3. ASSUME UNCHANGED <<layout, mux, written, freed>>,
             stage' = stage \/ stage' \notin {"done", "holed", "failed"}
      PROVE  MuxInvariant'
  <2>1. Holds(mux, Given)' /\ Given' = Given
    BY <1>1, <1>3 DEF Holds, Given
  <2>2. \A id : (Held(mux, id))' = Held(mux, id)
    BY <1>3 DEF Held, Copies, Mine, Muxer!Lasts
  <2> QED
    BY <1>3, <2>1, <2>2 DEF MuxInvariant
<1>4. CASE Muxer!WriteAny
  BY <1>4, WritingStep
<1>5. CASE Muxer!Flush
  <2>1. /\ Muxer!Release(mux.pending) /\ mux' = Muxer!FlushedOut(mux) /\ NoneWritten
        /\ stage' \notin {"done", "holed", "failed"}
    BY <1>5 DEF Muxer!Flush, NoneWritten
  <2> QED
    BY <2>1, FlushingStep
<1>6. CASE Muxer!FlushFails
  <2>1. NoneWritten /\ stage' \notin {"done", "holed", "failed"}
    BY <1>6 DEF Muxer!FlushFails, NoneWritten
  <2>2. CASE Muxer!Release(mux.pending) /\ mux' = Muxer!FlushedOut(mux)
    BY <2>1, <2>2, FlushingStep
  <2>3. CASE UNCHANGED <<mux, freed>>
    BY <1>3, <2>1, <2>3 DEF NoneWritten
  <2>4. CASE \E k \in DOMAIN mux.pending :
                Muxer!Release(SubSeq(mux.pending, 1, k - 1)) /\ mux' = Muxer!Torn(mux, k)
    BY <2>1, <2>4, TearingStep
  <2> QED
    BY <1>6, <2>2, <2>3, <2>4, Zenon DEF Muxer!FlushFails
<1>7. CASE Muxer!FlushPanics
  BY <1>3, <1>7 DEF Muxer!FlushPanics
<1>8. CASE Muxer!WriteTrailer \/ Muxer!WriteTrailerFails
  <2>1. PICK m : m = Muxer!Completed
    OBVIOUS
  <2>2. /\ NoneWritten /\ Muxer!Release(m.pending \o Muxer!Lasts(m.streams))
        /\ mux' = Muxer!Dropped(m) \/ mux' = Muxer!Dropped(Muxer!FlushedOut(m))
    BY <1>8, <2>1 DEF Muxer!WriteTrailer, Muxer!WriteTrailerFails, NoneWritten
  <2> QED
    BY <1>2, <2>1, <2>2, EmptyingStep
<1>9. CASE Muxer!ReleasePending
  <2>1. PICK m : m = mux
    OBVIOUS
  <2>2. /\ NoneWritten /\ Muxer!Release(m.pending \o Muxer!Lasts(m.streams))
        /\ mux' = Muxer!Dropped(m)
    BY <1>9, <2>1 DEF Muxer!ReleasePending, NoneWritten
  <2> QED
    BY <1>1, <2>1, <2>2, EmptyingStep
<1>10. CASE UNCHANGED muxed
  BY <1>3, <1>10 DEF muxed
<1> QED
  BY <1>4, <1>5, <1>6, <1>7, <1>8, <1>9, <1>10 DEF Muxer!MuxNext

\* Whatever is flushed, torn or discarded, and in whichever order, a packet given
\* to the muxer is either with it, in one place, or was released, once; and it
\* has been when WriteTrailer or ReleasePending is through
\* (format/mp4/muxer.go:402-417).
THEOREM MuxerReleasesOnce ==
    ASSUME NEW C, Layouts \subseteq Seq(C)
    PROVE  Muxer!MuxSpec => []Muxer!PacketsReleasedOnce
<1>1. Muxer!MuxInit => MuxInvariant
  BY MuxStarts
<1>2. MuxInvariant /\ [Muxer!MuxNext]_muxed => MuxInvariant'
  BY MuxSteps
<1>3. MuxInvariant => Muxer!PacketsReleasedOnce
  <2> SUFFICES ASSUME MuxInvariant
               PROVE  Muxer!PacketsReleasedOnce
    OBVIOUS
  <2>1. ASSUME NEW id \in DOMAIN written
        PROVE  Muxer!Holders(id) = Held(mux, id)
    <3>1. DOMAIN Muxer!Lasts(mux.streams) = DOMAIN mux.streams
            /\ \A s \in DOMAIN mux.streams :
                 /\ Muxer!Lasts(mux.streams)[s].live
                 /\ Muxer!Lasts(mux.streams)[s].pkt = mux.streams[s].last
      BY DEF Muxer!Lasts
    <3>2. {s \in DOMAIN mux.streams : mux.streams[s].last.id = id}
            = Mine(Muxer!Lasts(mux.streams), id)
      BY <3>1 DEF Mine
    <3>3. {i \in DOMAIN mux.pending : mux.pending[i].live /\ mux.pending[i].pkt.id = id}
            = Mine(mux.pending, id)
      BY DEF Mine
    <3> QED
      BY <3>2, <3>3, MuxCardinality DEF Muxer!Holders, Held, Copies
  <2> QED
    BY <2>1 DEF MuxInvariant, Muxer!PacketsReleasedOnce
<1> QED
  BY <1>1, <1>2, <1>3, PTL DEF Muxer!MuxSpec, muxed, Muxer!muxVars
=============================================================================
