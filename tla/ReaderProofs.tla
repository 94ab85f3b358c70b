---------------------------- MODULE ReaderProofs ----------------------------
(***************************************************************************)
(* What Reader guarantees for every set of sources, every capacity of the  *)
(* channel and all timestamps.  The inductive invariant has five layers:   *)
(* the shape of the state, the stop channels, the control facts about the  *)
(* packet in hand, who owns which packet, and the order of timestamps.     *)
(***************************************************************************)
EXTENDS Reader, ListProofs

-----------------------------------------------------------------------------
(* The inductive invariant *)

Labels  == {"loop", "read", "send", "backoff", "ended", "panicked"}
Handler == [last : Nat \cup {None}, dur : Nat, up : Nat, down : Int]
Packet  == [g : Nat, k : Tracks, ts : Int, dur : Nat, releases : Nat]

Queued == {packets[i] : i \in 1 .. Len(packets)}
Sent   == taken \cup Queued

\* The type of the state; every packet number names a packet that was read.
Shape ==
    /\ phase \in {"running", "stopping", "draining", "closed"}
    /\ src \in Seq(Urls)
    /\ pc \in [Running -> Labels]
    /\ cur \in [Running -> Ids \cup {NoPkt}]
    /\ oh \in [Running -> [Tracks -> Handler]]
    /\ held \in [Running -> [Tracks -> Ids \cup {NoPkt}]]
    /\ late \in [Running -> Nat]
    /\ pkts \in Seq(Packet)
    /\ packets \in Seq(Ids)
    /\ taken \in SUBSET Ids

\* A goroutine that sent a packet after its stop is about to see the stop.
Stops ==
    /\ stop \subseteq Running
    /\ \A u \in DOMAIN dmxStoppers :
          dmxStoppers[u] \in Running /\ dmxStoppers[u] \notin stop /\ src[dmxStoppers[u]] = u
    /\ \A g \in Running : late[g] > 0 => late[g] = 1 /\ g \in stop /\ pc[g] \in {"loop", "ended"}

\* A handler has a timestamp when it keeps a packet, that packet's; in the
\* select there is a packet in hand that follows a kept one of its track.
Control ==
    /\ \A g \in Running : pc[g] = "send" <=> cur[g] # NoPkt
    /\ \A g \in Running, k \in Tracks : IsEmpty(oh[g][k]) <=> held[g][k] = NoPkt
    /\ \A g \in Running, k \in Tracks : held[g][k] # NoPkt =>
          /\ pkts[held[g][k]].g = g /\ pkts[held[g][k]].k = k
          /\ pkts[held[g][k]].ts = oh[g][k].last
          /\ pkts[held[g][k]].dur \in Durations
    /\ \A g \in Running : cur[g] # NoPkt =>
          /\ pkts[cur[g]].g = g /\ pkts[cur[g]].dur \in Durations
          /\ held[g][pkts[cur[g]].k] # NoPkt
          /\ pkts[cur[g]].ts > oh[g][pkts[cur[g]].k].last

\* No packet is in two places.
Apart ==
    /\ \A g, h \in Running : cur[g] # NoPkt /\ cur[g] = cur[h] => g = h
    /\ \A g, h \in Running, k, l \in Tracks :
          held[g][k] # NoPkt /\ held[g][k] = held[h][l] => g = h /\ k = l
    /\ \A g, h \in Running, k \in Tracks : cur[g] # NoPkt => cur[g] # held[h][k]
    /\ \A i, j \in 1 .. Len(packets) : packets[i] = packets[j] => i = j
    /\ \A i \in 1 .. Len(packets) : packets[i] \notin taken
    /\ \A g \in Running : cur[g] \notin Sent
    /\ \A g \in Running, k \in Tracks : held[g][k] \notin Sent

Kept(p)   == \E g \in Running, k \in Tracks : held[g][k] = p
InHand(p) == \E g \in Running : cur[g] = p
Owned(p)  == Kept(p) \/ InHand(p) \/ p \in Sent

\* A packet is released once, when it leaves the last place.
Released1 ==
    \A p \in Ids : pkts[p].releases = IF Owned(p) THEN 0 ELSE 1

Of(p, g, k) == pkts[p].g = g /\ pkts[p].k = k

\* The packet in hand is of this track: its handler is half updated.
Busy(g, k) == cur[g] # NoPkt /\ pkts[cur[g]].k = k

\* The packet in hand is later than the one kept, and the track's handler has
\* its duration.
Follower(g) ==
    cur[g] # NoPkt =>
       /\ held[g][pkts[cur[g]].k] < cur[g]
       /\ LET k == pkts[cur[g]].k IN
          IF k = "video" THEN oh[g][k].dur = pkts[cur[g]].ts - oh[g][k].last
                         ELSE oh[g][k].dur \in Durations

\* What a track sent is behind the packet it keeps, and behind the offset that
\* a reconnection sets or has set.
Behind(g, k) ==
    /\ \A p \in Sent : Of(p, g, k) =>
          IF IsEmpty(oh[g][k])
          THEN pc[g] # "ended" => pkts[p].ts < oh[g][k].up
          ELSE /\ p < held[g][k] /\ pkts[p].ts < oh[g][k].last
               /\ ~ Busy(g, k) => \A e \in Elapsed :
                     pkts[p].ts < OnGrid(oh[g][k].last + e, oh[g][k].dur)
    /\ IsEmpty(oh[g][k]) /\ pc[g] # "ended" =>
          \A e \in Elapsed : OnGrid(oh[g][k].up + e, oh[g][k].dur) >= oh[g][k].up

InOrder(S) == \A p, q \in S : p < q /\ SameTrack(p, q) => pkts[p].ts < pkts[q].ts

\* The packets sent are in order, and the packets kept, in hand and still to
\* come will follow them, by number and by timestamp.
Order ==
    /\ InOrder(Sent) /\ \A p \in Sent : pkts[p].g \in Running
    /\ \A g \in Running : Follower(g)
    /\ \A g \in Running, k \in Tracks : Behind(g, k)

IInv == Shape /\ Stops /\ Control /\ Apart /\ Released1 /\ Order

-----------------------------------------------------------------------------
(* Sequences, and operators of the model *)

\* What appending does, place by place.
LEMMA AppendSeq ==
    ASSUME NEW S, NEW s \in Seq(S), NEW x \in S
    PROVE  /\ Append(s, x) \in Seq(S) /\ Len(Append(s, x)) = Len(s) + 1
           /\ DOMAIN Append(s, x) = 1 .. Len(s) + 1 /\ DOMAIN s = 1 .. Len(s) /\ Len(s) \in Nat
           /\ \A i \in 1 .. Len(s) : Append(s, x)[i] = s[i]
           /\ Append(s, x)[Len(s) + 1] = x
OBVIOUS

\* Tables indexed by goroutine grow by one entry.
Table(n, S) == [1 .. n -> S]

Extended(f, x) == Append(f, x)

\* A table that grew has its entries and the new one.
LEMMA AppendTable ==
    ASSUME NEW n \in Nat, NEW S, NEW f \in Table(n, S), NEW x \in S
    PROVE  /\ Extended(f, x) \in Table(n + 1, S)
           /\ \A i \in 1 .. n : Extended(f, x)[i] = f[i]
           /\ Extended(f, x)[n + 1] = x
<1>1. f \in Seq(S)
  BY SeqDef DEF Table
<1>2. Len(f) = n
  BY <1>1, LenProperties DEF Table
<1>3. Append(f, x) \in Seq(S) /\ Len(Append(f, x)) = n + 1
  BY <1>1, <1>2, AppendProperties
<1>4. Append(f, x) \in Table(n + 1, S)
  BY <1>3, LenProperties DEF Table
<1> QED
  BY <1>1, <1>2, <1>4, AppendProperties DEF Extended

\* The numbers in use are 1 .. n.
LEMMA Numbers ==
    ASSUME Shape
    PROVE  /\ Len(src) \in Nat /\ Running = 1 .. Len(src)
           /\ Len(pkts) \in Nat /\ Ids = 1 .. Len(pkts)
           /\ Len(packets) \in Nat /\ packets \in [1 .. Len(packets) -> Ids]
           /\ NoPkt \notin Ids
           /\ \A i \in Ids : pkts[i] \in Packet
BY LenProperties DEF Shape, Running, Ids, NoPkt

\* Releasing packets changes nothing else of them.
LEMMA ReleasedFields ==
    ASSUME Shape, NEW S, pkts' = Released(pkts, S)
    PROVE  /\ Ids' = Ids /\ pkts' \in Seq(Packet)
           /\ \A i \in Ids :
                 /\ pkts'[i].g = pkts[i].g /\ pkts'[i].k = pkts[i].k
                 /\ pkts'[i].ts = pkts[i].ts /\ pkts'[i].dur = pkts[i].dur
                 /\ pkts'[i].releases = pkts[i].releases + (IF i \in S THEN 1 ELSE 0)
<1>1. Len(pkts) \in Nat /\ Ids = 1 .. Len(pkts) /\ \A i \in Ids : pkts[i] \in Packet
  BY Numbers
<1> DEFINE f == [i \in 1 .. Len(pkts) |->
                    IF i \in S THEN [pkts[i] EXCEPT !.releases = @ + 1] ELSE pkts[i]]
<1>2. pkts' = f
  BY <1>1 DEF Released, Ids
<1>3. \A i \in Ids : f[i] = IF i \in S THEN [pkts[i] EXCEPT !.releases = @ + 1] ELSE pkts[i]
  BY <1>1
<1>4. \A i \in Ids : /\ f[i] \in Packet
                     /\ f[i].g = pkts[i].g /\ f[i].k = pkts[i].k
                     /\ f[i].ts = pkts[i].ts /\ f[i].dur = pkts[i].dur
                     /\ f[i].releases = pkts[i].releases + (IF i \in S THEN 1 ELSE 0)
  BY <1>1, <1>3 DEF Packet
<1>5. DOMAIN f = 1 .. Len(pkts)
  OBVIOUS
<1>6. f \in [1 .. Len(pkts) -> Packet]
  BY <1>1, <1>4, <1>5
<1> HIDE DEF f
<1>7. f \in Seq(Packet)
  BY <1>1, <1>6, SeqDef
<1> QED
  BY <1>1, <1>2, <1>4, <1>5, <1>7 DEF Ids

\* A packet read takes the next number.
LEMMA ArrivedFields ==
    ASSUME Shape, NEW p \in Packet, pkts' = Append(pkts, p)
    PROVE  /\ pkts' \in Seq(Packet) /\ Len(pkts') = Len(pkts) + 1
           /\ Ids' = Ids \cup {Len(pkts) + 1} /\ Len(pkts) + 1 \notin Ids
           /\ Len(pkts) + 1 # NoPkt
           /\ \A i \in Ids : pkts'[i] = pkts[i] /\ i < Len(pkts) + 1
           /\ pkts'[Len(pkts) + 1] = p
<1>1. pkts \in Seq(Packet)
  BY DEF Shape
<1> QED
  BY <1>1, Numbers, AppendSeq DEF Ids, NoPkt

-----------------------------------------------------------------------------
(* Arithmetic of the handler *)

\* FloorTo stays in Nat, below t and within m of it, and is monotone.
LEMMA FloorBounds ==
    ASSUME NEW t \in Nat, NEW m \in Nat
    PROVE  /\ FloorTo(t, m) \in Nat /\ FloorTo(t, m) <= t
           /\ m > 0 => FloorTo(t, m) > t - m
           /\ m = 0 => FloorTo(t, m) = t
<1>1. CASE m = 0
  BY <1>1 DEF FloorTo
<1>2. CASE m > 0
  <2> DEFINE q == t \div m
  <2>1. t = m * q + (t % m) /\ q \in Nat /\ t % m \in 0 .. m - 1
    BY <1>2
  <2> HIDE DEF q
  <2>2. m * q = q * m /\ q * m \in Nat
    BY <2>1
  <2>3. FloorTo(t, m) = q * m
    BY <1>2 DEF FloorTo, q
  <2> QED
    BY <1>2, <2>1, <2>2, <2>3
<1> QED
  BY <1>1, <1>2

\* Rounding down to a grid keeps the order of times.
LEMMA FloorMonotone ==
    ASSUME NEW s \in Nat, NEW t \in Nat, NEW m \in Nat, s <= t
    PROVE  FloorTo(s, m) <= FloorTo(t, m)
<1>1. CASE m = 0
  BY <1>1 DEF FloorTo
<1>2. CASE m > 0
  <2> DEFINE a == s \div m
             b == t \div m
  <2>1. /\ s = m * a + (s % m) /\ a \in Nat /\ s % m \in 0 .. m - 1
        /\ t = m * b + (t % m) /\ b \in Nat /\ t % m \in 0 .. m - 1
    BY <1>2
  <2> HIDE DEF a, b
  <2>2. FloorTo(s, m) = a * m /\ FloorTo(t, m) = b * m
    BY <1>2 DEF FloorTo, a, b
  <2>3. a <= b
    <3>1. SUFFICES ASSUME a >= b + 1 PROVE FALSE
      BY <2>1
    <3>2. m * a >= m * (b + 1)
      BY <2>1, <3>1
    <3>3. m * (b + 1) = m * b + m
      BY <2>1
    <3>4. m * a \in Int /\ m * b \in Int /\ m * (b + 1) \in Int
      BY <2>1
    <3> QED
      BY <2>1, <3>2, <3>3, <3>4
  <2>4. a * m <= b * m
    BY <2>1, <2>3
  <2> QED
    BY <2>2, <2>4
<1> QED
  BY <1>1, <1>2

\* A multiple of m is its own floor: FloorTo(s, m) <= t implies so for t.
LEMMA FloorOfFloor ==
    ASSUME NEW s \in Nat, NEW t \in Nat, NEW m \in Nat, FloorTo(s, m) <= t
    PROVE  FloorTo(s, m) <= FloorTo(t, m)
<1>1. CASE m = 0
  BY <1>1 DEF FloorTo
<1>2. CASE m > 0
  <2> DEFINE a == s \div m
             b == t \div m
  <2>1. /\ a \in Nat
        /\ t = m * b + (t % m) /\ b \in Nat /\ t % m \in 0 .. m - 1
    BY <1>2
  <2> HIDE DEF a, b
  <2>2. FloorTo(s, m) = a * m /\ FloorTo(t, m) = b * m
    BY <1>2 DEF FloorTo, a, b
  <2>3. a <= b
    <3>1. SUFFICES ASSUME a >= b + 1 PROVE FALSE
      BY <2>1
    <3>2. m * a >= m * (b + 1) /\ m * a = a * m
      BY <2>1, <3>1
    <3>3. m * (b + 1) = m * b + m
      BY <2>1
    <3>4. m * a \in Int /\ m * b \in Int /\ m * (b + 1) \in Int
      BY <2>1
    <3> QED
      BY <2>1, <2>2, <3>2, <3>3, <3>4
  <2>4. a * m <= b * m
    BY <2>1, <2>3
  <2> QED
    BY <2>2, <2>4
<1> QED
  BY <1>1, <1>2

\* The grid loses less than a duration and a rounding step.
LEMMA GridBounds ==
    ASSUME NEW t \in Nat, NEW dur \in Nat
    PROVE  /\ OnGrid(t, dur) \in Nat
           /\ OnGrid(t, dur) > t - dur - Round
<1> DEFINE f == FloorTo(t, dur)
<1>1. f \in Nat /\ f >= t - dur
  <2>1. f \in Nat /\ (dur > 0 => f > t - dur) /\ (dur = 0 => f = t)
    BY FloorBounds
  <2> HIDE DEF f
  <2> QED
    BY <2>1
<1> HIDE DEF f
<1>2. FloorTo(f, Round) \in Nat /\ FloorTo(f, Round) > f - Round
  BY <1>1, FloorBounds, RoundAssumption
<1>3. OnGrid(t, dur) = FloorTo(f, Round)
  BY DEF OnGrid, f
<1> QED
  BY <1>1, <1>2, <1>3, RoundAssumption

\* A frame of positive duration is never lost to the grid.
LEMMA GridAhead ==
    ASSUME NEW t \in Nat, NEW dur \in Nat \ {0}, NEW e \in Nat, e > Round
    PROVE  OnGrid(t + dur + e, dur) > t
<1> DEFINE f == FloorTo(t + dur + e, dur)
<1>0. t + dur + e \in Nat
  OBVIOUS
<1>1. f \in Nat /\ f > t + e
  <2>1. f \in Nat /\ f > (t + dur + e) - dur
    BY <1>0, FloorBounds
  <2> QED
    BY <2>1
<1> HIDE DEF f
<1>2. FloorTo(f, Round) \in Nat /\ FloorTo(f, Round) > f - Round
  BY <1>1, FloorBounds, RoundAssumption
<1>3. OnGrid(t + dur + e, dur) = FloorTo(f, Round)
  BY DEF OnGrid, f
<1> QED
  BY <1>1, <1>2, <1>3, RoundAssumption

\* A second reconnection does not fall behind the grid point of the first.
LEMMA GridStays ==
    ASSUME NEW t \in Nat, NEW dur \in Nat, NEW e \in Nat, e > Round
    PROVE  OnGrid(OnGrid(t, dur) + e, dur) >= OnGrid(t, dur)
<1> DEFINE f == FloorTo(t, dur)
           u == FloorTo(f, Round)
           v == FloorTo(u + e, dur)
<1>1. f \in Nat
  BY FloorBounds
<1>2. u \in Nat /\ u > f - Round
  <2> HIDE DEF f
  <2> QED
    BY <1>1, FloorBounds, RoundAssumption
<1>3. f <= u + e /\ u + e \in Nat
  <2> HIDE DEF f, u
  <2> QED
    BY <1>1, <1>2, RoundAssumption
<1>4. f <= v /\ v \in Nat
  <2> HIDE DEF u
  <2> QED
    BY <1>3, FloorOfFloor, FloorBounds
<1>5. FloorTo(f, Round) <= FloorTo(v, Round)
  <2> HIDE DEF f, v
  <2> QED
    BY <1>1, <1>4, FloorMonotone, RoundAssumption
<1> QED
  BY <1>5 DEF OnGrid

\* Every handler operation yields a handler.
LEMMA HandlerTypes ==
    ASSUME NEW h \in Handler, NEW raw \in Int
    PROVE  /\ Rewritten(h, raw) \in Int
           /\ ~ IsEmpty(h) => /\ CheckTSWrap(h, raw) \in Handler
                              /\ CheckTSWrap(h, raw).last = h.last
                              /\ CheckTSWrap(h, raw).dur = h.dur
           /\ CheckEmptyPacket(h, raw) \in Handler
           /\ CheckEmptyPacket(h, raw).last = h.up
           /\ CheckEmptyPacket(h, raw).dur = h.dur
<1>1. Rewritten(h, raw) \in Int
  BY DEF Rewritten, Handler
<1>2. ASSUME ~ IsEmpty(h)
      PROVE  /\ CheckTSWrap(h, raw) \in Handler
             /\ CheckTSWrap(h, raw).last = h.last
             /\ CheckTSWrap(h, raw).dur = h.dur
  <2>1. h.last \in Nat /\ h.dur \in Nat
    BY <1>2 DEF IsEmpty, Handler, None
  <2> DEFINE up == OnGrid(h.last, h.dur)
  <2>2. up \in Nat
    BY <2>1, GridBounds
  <2>3. CheckTSWrap(h, raw) = h \/ CheckTSWrap(h, raw) = [h EXCEPT !.down = raw - h.dur, !.up = up]
    BY DEF CheckTSWrap
  <2> HIDE DEF up
  <2>4. raw - h.dur \in Int
    BY <2>1
  <2>5. CASE CheckTSWrap(h, raw) = h
    BY <2>5
  <2>6. CASE CheckTSWrap(h, raw) = [h EXCEPT !.down = raw - h.dur, !.up = up]
    BY <2>2, <2>4, <2>6 DEF Handler
  <2> QED
    BY <2>3, <2>5, <2>6
<1>3. /\ CheckEmptyPacket(h, raw) \in Handler
      /\ CheckEmptyPacket(h, raw).last = h.up
      /\ CheckEmptyPacket(h, raw).dur = h.dur
  BY DEF CheckEmptyPacket, Handler
<1> QED
  BY <1>1, <1>2, <1>3

\* What RecalcForGap makes of a handler.
LEMMA GapTypes ==
    ASSUME NEW h \in Handler, NEW e \in Nat
    PROVE  /\ RecalcForGap(h, e) \in Handler
           /\ IsEmpty(RecalcForGap(h, e))
           /\ RecalcForGap(h, e).dur = h.dur
           /\ RecalcForGap(h, e).up = IF IsEmpty(h) THEN h.up ELSE OnGrid(h.last + e, h.dur)
<1>1. CASE IsEmpty(h)
  BY <1>1 DEF RecalcForGap
<1>2. CASE ~ IsEmpty(h)
  <2>1. h.last + e \in Nat /\ h.dur \in Nat
    BY <1>2 DEF IsEmpty, Handler, None
  <2> DEFINE up == OnGrid(h.last + e, h.dur)
  <2>2. up \in Nat
    BY <2>1, GridBounds
  <2>3. RecalcForGap(h, e) = [h EXCEPT !.up = up, !.last = None]
    BY <1>2 DEF RecalcForGap
  <2> HIDE DEF up
  <2>4. RecalcForGap(h, e) \in Handler /\ IsEmpty(RecalcForGap(h, e))
        /\ RecalcForGap(h, e).dur = h.dur /\ RecalcForGap(h, e).up = up
    BY <2>2, <2>3 DEF Handler, IsEmpty, None
  <2> QED
    BY <1>2, <2>4 DEF up
<1> QED
  BY <1>1, <1>2
-----------------------------------------------------------------------------
(* What the actions do *)

\* The head of the channel.
LEMMA HeadEffect ==
    ASSUME Shape, packets # <<>>, packets' = Tail(packets)
    PROVE  /\ Head(packets) = packets[1] /\ Head(packets) \in Ids /\ 1 \in 1 .. Len(packets)
           /\ packets' \in Seq(Ids)
           /\ Len(packets') = Len(packets) - 1 /\ Len(packets') \in Nat
           /\ \A i \in 1 .. Len(packets') : packets'[i] = packets[i + 1]
           /\ Queued = Queued' \cup {Head(packets)}
<1>1. packets \in Seq(Ids) /\ Len(packets) \in Nat \ {0}
  BY EmptySeq DEF Shape
<1>2. /\ Head(packets) = packets[1] /\ Head(packets) \in Ids
      /\ packets' \in Seq(Ids) /\ Len(packets') = Len(packets) - 1
      /\ \A i \in 1 .. Len(packets') : packets'[i] = packets[i + 1]
  BY <1>1, HeadTailProperties
<1>3. Queued' = {packets[i + 1] : i \in 1 .. Len(packets) - 1}
  BY <1>1, <1>2 DEF Queued
<1>4. \A i \in 1 .. Len(packets) : i = 1 \/ (i - 1 \in 1 .. Len(packets) - 1 /\ (i - 1) + 1 = i)
  BY <1>1
<1>5. Queued = Queued' \cup {packets[1]}
  BY <1>1, <1>3, <1>4 DEF Queued
<1> QED
  BY <1>1, <1>2, <1>5

\* A new goroutine starts with nothing.
LEMMA AddEffect ==
    ASSUME Shape, NEW u \in Urls, StepAdd(u), NEW n, n = Len(src) + 1
    PROVE  /\ Running' = Running \cup {n} /\ n \notin Running /\ n \in Nat
           /\ src' \in Seq(Urls) /\ src'[n] = u
           /\ pc' \in [Running' -> Labels] /\ pc'[n] = "loop"
           /\ cur' \in [Running' -> Ids \cup {NoPkt}] /\ cur'[n] = NoPkt
           /\ oh' \in [Running' -> [Tracks -> Handler]]
           /\ oh'[n] = [k \in Tracks |-> NewHandler]
           /\ held' \in [Running' -> [Tracks -> Ids \cup {NoPkt}]]
           /\ held'[n] = [k \in Tracks |-> NoPkt]
           /\ late' \in [Running' -> Nat] /\ late'[n] = 0
           /\ \A g \in Running : /\ src'[g] = src[g] /\ pc'[g] = pc[g] /\ cur'[g] = cur[g]
                                 /\ oh'[g] = oh[g] /\ held'[g] = held[g] /\ late'[g] = late[g]
<1>1. /\ src' = Append(src, u) /\ pc' = Extended(pc, "loop") /\ cur' = Extended(cur, NoPkt)
      /\ oh' = Extended(oh, [k \in Tracks |-> NewHandler])
      /\ held' = Extended(held, [k \in Tracks |-> NoPkt])
      /\ late' = Extended(late, 0)
  BY DEF StepAdd, Extended
<1>2. Running = 1 .. Len(src) /\ Len(src) \in Nat /\ src \in Seq(Urls)
  BY Numbers DEF Shape
<1>0. PICK m \in Nat : m = Len(src)
  BY <1>2
<1>3. /\ src' \in Seq(Urls) /\ DOMAIN src' = 1 .. n /\ src'[n] = u
      /\ \A g \in Running : src'[g] = src[g]
  BY <1>1, <1>2, AppendSeq
<1>4. Running' = 1 .. n /\ Running' = Running \cup {n} /\ n \notin Running
  BY <1>2, <1>3 DEF Running
<1>5. NewHandler \in Handler
  BY DEF NewHandler, Handler, None
<1>6. pc' \in Table(n, Labels) /\ pc'[n] = "loop" /\ \A g \in Running : pc'[g] = pc[g]
  <2>1. "loop" \in Labels /\ pc \in Table(m, Labels)
    BY <1>0, <1>2 DEF Labels, Shape, Table
  <2>3. /\ pc' \in Table(m + 1, Labels)
        /\ pc'[m + 1] = "loop"
        /\ \A g \in 1 .. m : pc'[g] = pc[g]
    BY <1>1, <2>1, AppendTable
  <2> QED
    BY <1>0, <1>1, <1>2, <2>3
<1>7. cur' \in Table(n, Ids \cup {NoPkt}) /\ cur'[n] = NoPkt /\ \A g \in Running : cur'[g] = cur[g]
  <2>1. cur \in Table(m, Ids \cup {NoPkt})
    BY <1>0, <1>2 DEF Shape, Table
  <2>2. NoPkt \in Ids \cup {NoPkt}
    OBVIOUS
  <2>3. /\ cur' \in Table(m + 1, Ids \cup {NoPkt})
        /\ cur'[m + 1] = NoPkt
        /\ \A g \in 1 .. m : cur'[g] = cur[g]
    BY <1>1, <2>1, <2>2, AppendTable
  <2> QED
    BY <1>0, <1>1, <1>2, <2>3
<1>8. /\ oh' \in Table(n, [Tracks -> Handler]) /\ oh'[n] = [k \in Tracks |-> NewHandler]
      /\ \A g \in Running : oh'[g] = oh[g]
  <2>1. oh \in Table(m, [Tracks -> Handler])
    BY <1>0, <1>2 DEF Shape, Table
  <2>2. [k \in Tracks |-> NewHandler] \in [Tracks -> Handler]
    BY <1>5
  <2>3. /\ oh' \in Table(m + 1, [Tracks -> Handler])
        /\ oh'[m + 1] = [k \in Tracks |-> NewHandler]
        /\ \A g \in 1 .. m : oh'[g] = oh[g]
    BY <1>1, <2>1, <2>2, AppendTable
  <2> QED
    BY <1>0, <1>1, <1>2, <2>3
<1>9. /\ held' \in Table(n, [Tracks -> Ids \cup {NoPkt}]) /\ held'[n] = [k \in Tracks |-> NoPkt]
      /\ \A g \in Running : held'[g] = held[g]
  <2>1. held \in Table(m, [Tracks -> Ids \cup {NoPkt}])
    BY <1>0, <1>2 DEF Shape, Table
  <2>2. [k \in Tracks |-> NoPkt] \in [Tracks -> Ids \cup {NoPkt}]
    OBVIOUS
  <2>3. /\ held' \in Table(m + 1, [Tracks -> Ids \cup {NoPkt}])
        /\ held'[m + 1] = [k \in Tracks |-> NoPkt]
        /\ \A g \in 1 .. m : held'[g] = held[g]
    BY <1>1, <2>1, <2>2, AppendTable
  <2> QED
    BY <1>0, <1>1, <1>2, <2>3
<1>10. late' \in Table(n, Nat) /\ late'[n] = 0 /\ \A g \in Running : late'[g] = late[g]
  <2>1. late \in Table(m, Nat)
    BY <1>0, <1>2 DEF Shape, Table
  <2>2. 0 \in Nat
    OBVIOUS
  <2>3. /\ late' \in Table(m + 1, Nat)
        /\ late'[m + 1] = 0
        /\ \A g \in 1 .. m : late'[g] = late[g]
    BY <1>1, <2>1, <2>2, AppendTable
  <2> QED
    BY <1>0, <1>1, <1>2, <2>3
<1> QED
  BY <1>2, <1>3, <1>4, <1>6, <1>7, <1>8, <1>9, <1>10 DEF Table

\* A packet read is kept, refused, or follows the packet kept; h is what
\* becomes of the track's handler.
Arrival(g, k, p, h) ==
    /\ pc[g] = "read" /\ pkts' = Append(pkts, p)
    /\ p.g = g /\ p.k = k /\ p.dur \in Durations
    /\ oh' = [oh EXCEPT ![g] = [@ EXCEPT ![k] = h]]
    /\ UNCHANGED <<phase, dmxStoppers, src, stop, taken, packets, late>>

Keeps(g, k, p, h) ==
    /\ IsEmpty(oh[g][k])
    /\ h.last = oh[g][k].up /\ p.ts = oh[g][k].up /\ h.dur = oh[g][k].dur
    /\ p.releases = 0
    /\ held' = [held EXCEPT ![g] = [@ EXCEPT ![k] = Len(pkts) + 1]]
    /\ pc' = [pc EXCEPT ![g] = "loop"] /\ cur' = cur

Refuses(g, k, p, h) ==
    /\ ~ IsEmpty(oh[g][k])
    /\ h.last = oh[g][k].last /\ h.dur = oh[g][k].dur
    /\ p.releases = 1
    /\ pc' = [pc EXCEPT ![g] = "loop"] /\ cur' = cur /\ held' = held

Follows(g, k, p, h) ==
    /\ ~ IsEmpty(oh[g][k])
    /\ h.last = oh[g][k].last /\ p.ts > h.last
    /\ IF k = "video" THEN h.dur = p.ts - h.last ELSE h.dur \in Durations
    /\ p.releases = 0
    /\ cur' = [cur EXCEPT ![g] = Len(pkts) + 1]
    /\ pc' = [pc EXCEPT ![g] = "send"] /\ held' = held

\* Reading a packet holds it, refuses it, or sends the one held before.
LEMMA ReadEffect ==
    ASSUME Shape, Control, NEW g \in Running, NEW k \in Tracks, NEW raw \in RawTimes,
           NEW d \in Durations, ReadPacket(g, k, raw, d)
    PROVE  \E p \in Packet, h \in Handler :
              /\ Arrival(g, k, p, h)
              /\ Keeps(g, k, p, h) \/ Refuses(g, k, p, h) \/ Follows(g, k, p, h)
<1> DEFINE h0 == oh[g][k]
           h  == CheckTSWrap(h0, raw)
<1>1. /\ h0 \in Handler /\ raw \in Int /\ d \in Nat /\ g \in Nat
      /\ Running = 1 .. Len(src) /\ Len(src) \in Nat
  BY TimesAssumption, Numbers DEF Shape
<1>2. UNCHANGED <<phase, dmxStoppers, src, stop, taken, packets, late>> /\ pc[g] = "read"
  BY DEF ReadPacket, others
<1>3. CASE IsEmpty(h0)
  <2> DEFINE p == [g |-> g, k |-> k, ts |-> h0.up, dur |-> d, releases |-> 0]
             hk == CheckEmptyPacket(h0, raw)
  <2>1. p \in Packet
    BY <1>1 DEF Packet, Handler
  <2>2. hk \in Handler /\ hk.last = h0.up /\ hk.dur = h0.dur
    BY <1>1, HandlerTypes
  <2>3. /\ pkts' = Append(pkts, p) /\ cur' = cur
        /\ oh' = [oh EXCEPT ![g] = [@ EXCEPT ![k] = hk]]
        /\ held' = [held EXCEPT ![g] = [@ EXCEPT ![k] = Len(pkts) + 1]]
        /\ pc' = [pc EXCEPT ![g] = "loop"]
    BY <1>3 DEF ReadPacket, Goto
  <2>4. p.g = g /\ p.k = k /\ p.dur = d /\ p.ts = h0.up /\ p.releases = 0
    OBVIOUS
  <2> HIDE DEF p, hk
  <2>5. Arrival(g, k, p, hk)
    BY <1>2, <2>3, <2>4 DEF Arrival
  <2>6. Keeps(g, k, p, hk)
    BY <1>3, <2>2, <2>3, <2>4 DEF Keeps
  <2> QED
    BY <2>1, <2>2, <2>5, <2>6
<1>4. ASSUME ~ IsEmpty(h0)
      PROVE  /\ h \in Handler /\ h.last = h0.last /\ h.dur = h0.dur /\ h.last \in Nat
             /\ Rewritten(h, raw) \in Int
  <2>1. h \in Handler /\ h.last = h0.last /\ h.dur = h0.dur
    BY <1>1, <1>4, HandlerTypes
  <2>2. Rewritten(h, raw) \in Int
    BY <1>1, <2>1, HandlerTypes
  <2> QED
    BY <1>1, <1>4, <2>1, <2>2 DEF IsEmpty, Handler, None
<1>5. CASE ~ IsEmpty(h0) /\ Rewritten(h, raw) <= h.last
  <2> DEFINE p == [g |-> g, k |-> k, ts |-> Rewritten(h, raw), dur |-> d, releases |-> 1]
  <2>1. p \in Packet
    BY <1>1, <1>4, <1>5 DEF Packet
  <2>2. /\ pkts' = Append(pkts, p) /\ cur' = cur /\ held' = held
        /\ oh' = [oh EXCEPT ![g] = [@ EXCEPT ![k] = h]]
        /\ pc' = [pc EXCEPT ![g] = "loop"]
    BY <1>4, <1>5 DEF ReadPacket, Goto
  <2>3. p.g = g /\ p.k = k /\ p.dur = d /\ p.releases = 1
    OBVIOUS
  <2> HIDE DEF p, h
  <2>4. Arrival(g, k, p, h)
    BY <1>2, <2>2, <2>3 DEF Arrival
  <2>5. Refuses(g, k, p, h)
    BY <1>4, <1>5, <2>2, <2>3 DEF Refuses
  <2> QED
    BY <1>4, <1>5, <2>1, <2>4, <2>5
<1>6. CASE ~ IsEmpty(h0) /\ Rewritten(h, raw) > h.last
  <2> DEFINE p  == [g |-> g, k |-> k, ts |-> Rewritten(h, raw), dur |-> d, releases |-> 0]
             hd == IF k = "video" THEN Rewritten(h, raw) - h.last ELSE pkts[held[g][k]].dur
             hf == [h EXCEPT !.dur = hd]
  <2>1. p \in Packet
    BY <1>1, <1>4, <1>6 DEF Packet
  <2>2. /\ pkts' = Append(pkts, p) /\ held' = held
        /\ oh' = [oh EXCEPT ![g] = [@ EXCEPT ![k] = hf]]
        /\ cur' = [cur EXCEPT ![g] = Len(pkts) + 1]
        /\ pc' = [pc EXCEPT ![g] = "send"]
    BY <1>4, <1>6 DEF ReadPacket, Goto
  <2>3. p.g = g /\ p.k = k /\ p.dur = d /\ p.releases = 0 /\ p.ts = Rewritten(h, raw)
    OBVIOUS
  <2>4. hd \in Nat /\ (k # "video" => hd \in Durations)
    <3>1. held[g][k] # NoPkt /\ pkts[held[g][k]].dur \in Durations
      BY <1>6 DEF Control
    <3>2. CASE k = "video"
      <4> HIDE DEF h
      <4> QED
        BY <1>4, <1>6, <3>2
    <3>3. CASE k # "video"
      BY <3>1, <3>3, TimesAssumption
    <3> QED
      BY <3>2, <3>3
  <2>5. hf \in Handler /\ hf.last = h0.last /\ hf.dur = hd
    <3> HIDE DEF h, hd
    <3> QED
      BY <1>4, <1>6, <2>4 DEF Handler
  <2>6. k = "video" => hd = p.ts - h.last
    BY <2>3
  <2> HIDE DEF p, hf, h, hd
  <2>7. Arrival(g, k, p, hf)
    BY <1>2, <2>2, <2>3 DEF Arrival
  <2>8. Follows(g, k, p, hf)
    BY <1>4, <1>6, <2>2, <2>3, <2>4, <2>5, <2>6 DEF Follows
  <2> QED
    BY <2>1, <2>5, <2>7, <2>8
<1> QED
  BY <1>1, <1>3, <1>4, <1>5, <1>6 DEF ReadPacket
-----------------------------------------------------------------------------
(* Shape and stop channels *)

\* A new reader has the shape.
LEMMA ShapeInit == Init => Shape
<1> SUFFICES ASSUME Init PROVE Shape
  OBVIOUS
<1>1. /\ src = <<>> /\ pkts = <<>> /\ packets = <<>> /\ taken = {} /\ phase = "running"
      /\ pc = <<>> /\ cur = <<>> /\ oh = <<>> /\ held = <<>> /\ late = <<>>
  BY DEF Init
<1>2. Running = {} /\ Ids = {}
  BY <1>1 DEF Running, Ids
<1>3. src \in Seq(Urls) /\ pkts \in Seq(Packet) /\ packets \in Seq(Ids)
  BY <1>1, EmptySeq
<1> QED
  BY <1>1, <1>2, <1>3 DEF Shape

\* The references to packets stay references when packets are added.
LEMMA IdsGrow ==
    ASSUME Shape, Ids \subseteq Ids'
    PROVE  /\ cur \in [Running -> Ids' \cup {NoPkt}]
           /\ held \in [Running -> [Tracks -> Ids' \cup {NoPkt}]]
           /\ packets \in Seq(Ids') /\ taken \subseteq Ids'
<1>1. packets \in Seq(Ids')
  BY SeqMonotonic DEF Shape
<1> QED
  BY <1>1 DEF Shape

\* A goroutine gives up what it kept.
ClearHeld(g) == held' = [held EXCEPT ![g] = [k \in Tracks |-> NoPkt]]
ClearLast(g) == oh' = [oh EXCEPT ![g] = [k \in Tracks |-> [@[k] EXCEPT !.last = None]]]

\* A source that reconnects holds no packet and its handlers start over; the others keep theirs.
LEMMA ClearTypes ==
    ASSUME Shape, NEW g \in Running
    PROVE  /\ ClearHeld(g) =>
                 /\ held' \in [Running -> [Tracks -> Ids \cup {NoPkt}]]
                 /\ \A k \in Tracks : held'[g][k] = NoPkt
                 /\ \A h \in Running : h # g => held'[h] = held[h]
           /\ ClearLast(g) =>
                 /\ oh' \in [Running -> [Tracks -> Handler]]
                 /\ \A k \in Tracks : IsEmpty(oh'[g][k])
                 /\ \A h \in Running : h # g => oh'[h] = oh[h]
<1>1. ASSUME ClearHeld(g)
      PROVE  /\ held' \in [Running -> [Tracks -> Ids \cup {NoPkt}]]
             /\ \A k \in Tracks : held'[g][k] = NoPkt
             /\ \A h \in Running : h # g => held'[h] = held[h]
  BY <1>1 DEF Shape, ClearHeld
<1>2. ASSUME ClearLast(g)
      PROVE  /\ oh' \in [Running -> [Tracks -> Handler]]
             /\ \A k \in Tracks : IsEmpty(oh'[g][k])
             /\ \A h \in Running : h # g => oh'[h] = oh[h]
  <2> DEFINE f == [k \in Tracks |-> [oh[g][k] EXCEPT !.last = None]]
  <2>1. oh' = [oh EXCEPT ![g] = f]
    BY <1>2 DEF ClearLast
  <2>2. oh[g] \in [Tracks -> Handler]
    BY DEF Shape
  <2>3. f \in [Tracks -> Handler] /\ \A k \in Tracks : IsEmpty(f[k])
    <3>1. \A k \in Tracks : [oh[g][k] EXCEPT !.last = None] \in Handler
                            /\ [oh[g][k] EXCEPT !.last = None].last = None
      BY <2>2 DEF Handler
    <3> QED
      BY <3>1 DEF IsEmpty
  <2> HIDE DEF f
  <2> QED
    BY <2>1, <2>3 DEF Shape
<1> QED
  BY <1>1, <1>2

\* The handlers after a reconnection.
LEMMA GapEffect ==
    ASSUME Shape, NEW g \in Running, NEW e \in Elapsed, Reconnected(g, e)
    PROVE  /\ oh' \in [Running -> [Tracks -> Handler]]
           /\ \A k \in Tracks : oh'[g][k] = RecalcForGap(oh[g][k], e)
           /\ \A h \in Running : h # g => oh'[h] = oh[h]
<1> DEFINE f == [k \in Tracks |-> RecalcForGap(oh[g][k], e)]
<1>1. oh' = [oh EXCEPT ![g] = f]
  BY DEF Reconnected
<1>2. f \in [Tracks -> Handler] /\ \A k \in Tracks : f[k] = RecalcForGap(oh[g][k], e)
  <2>1. \A k \in Tracks : RecalcForGap(oh[g][k], e) \in Handler
    BY GapTypes, TimesAssumption DEF Shape
  <2> QED
    BY <2>1
<1> HIDE DEF f
<1> QED
  BY <1>1, <1>2 DEF Shape

\* The packet kept is queued and the one in hand is kept.
LEMMA SendEffect ==
    ASSUME Shape, Control, NEW g \in Running, Send(g), NEW k, k = pkts[cur[g]].k
    PROVE  /\ k \in Tracks /\ cur[g] \in Ids /\ held[g][k] \in Ids /\ oh[g][k].last \in Nat
           /\ pkts' = pkts
           /\ packets' \in Seq(Ids) /\ Len(packets') = Len(packets) + 1
           /\ \A i \in 1 .. Len(packets) : packets'[i] = packets[i]
           /\ packets'[Len(packets) + 1] = held[g][k]
           /\ Queued' = Queued \cup {held[g][k]}
           /\ held' \in [Running -> [Tracks -> Ids \cup {NoPkt}]]
           /\ held'[g][k] = cur[g]
           /\ \A l \in Tracks : l # k => held'[g][l] = held[g][l]
           /\ \A h \in Running : h # g => held'[h] = held[h]
           /\ oh' \in [Running -> [Tracks -> Handler]]
           /\ oh'[g][k].last = pkts[cur[g]].ts /\ oh'[g][k].dur = oh[g][k].dur
           /\ oh'[g][k].up = oh[g][k].up
           /\ \A l \in Tracks : l # k => oh'[g][l] = oh[g][l]
           /\ \A h \in Running : h # g => oh'[h] = oh[h]
           /\ cur'[g] = NoPkt /\ \A h \in Running : h # g => cur'[h] = cur[h]
<1>1. pc[g] = "send" /\ cur[g] # NoPkt /\ cur[g] \in Ids /\ pkts[cur[g]] \in Packet
  BY Numbers DEF Send, Control, Shape
<1>2. k \in Tracks
  BY <1>1 DEF Packet
<1>3. held[g][k] # NoPkt /\ held[g][k] \in Ids /\ ~ IsEmpty(oh[g][k])
      /\ pkts[cur[g]].ts > oh[g][k].last
  BY <1>1, <1>2 DEF Control, Shape
<1>4. oh[g][k] \in Handler /\ oh[g][k].last \in Nat
  BY <1>2, <1>3 DEF Shape, Handler, IsEmpty, None
<1> DEFINE ts == pkts[cur[g]].ts
           h2 == [oh[g][k] EXCEPT !.last = ts]
<1>5. ts \in Nat
  BY <1>1, <1>3, <1>4 DEF Packet
<1>6. /\ h2 \in Handler /\ h2.last = ts /\ h2.dur = oh[g][k].dur /\ h2.up = oh[g][k].up
  <2> HIDE DEF ts
  <2> QED
    BY <1>4, <1>5 DEF Handler
<1>7. /\ packets' = Append(packets, held[g][k])
      /\ held' = [held EXCEPT ![g] = [@ EXCEPT ![k] = cur[g]]]
      /\ oh' = [oh EXCEPT ![g] = [@ EXCEPT ![k] = h2]]
      /\ cur' = [cur EXCEPT ![g] = NoPkt] /\ pkts' = pkts
  BY <1>2 DEF Send, Shape
<1>8. packets \in Seq(Ids) /\ Len(packets) \in Nat
  BY Numbers DEF Shape
<1>9. /\ packets' \in Seq(Ids) /\ Len(packets') = Len(packets) + 1
      /\ \A i \in 1 .. Len(packets) : packets'[i] = packets[i]
      /\ packets'[Len(packets) + 1] = held[g][k]
  BY <1>3, <1>7, <1>8, AppendProperties
<1>10. Queued' = Queued \cup {held[g][k]}
  BY <1>8, <1>9 DEF Queued
<1>11. /\ held' \in [Running -> [Tracks -> Ids \cup {NoPkt}]]
       /\ held'[g][k] = cur[g]
       /\ \A l \in Tracks : l # k => held'[g][l] = held[g][l]
       /\ \A h \in Running : h # g => held'[h] = held[h]
       /\ cur'[g] = NoPkt /\ \A h \in Running : h # g => cur'[h] = cur[h]
  BY <1>1, <1>2, <1>7 DEF Shape
<1>12. /\ oh' \in [Running -> [Tracks -> Handler]]
       /\ oh'[g][k] = h2
       /\ \A l \in Tracks : l # k => oh'[g][l] = oh[g][l]
       /\ \A h \in Running : h # g => oh'[h] = oh[h]
  <2> HIDE DEF h2
  <2> QED
    BY <1>2, <1>6, <1>7 DEF Shape
<1> HIDE DEF h2
<1> QED
  BY <1>1, <1>2, <1>3, <1>4, <1>6, <1>7, <1>9, <1>10, <1>11, <1>12
\* Every step keeps the shape.
LEMMA ShapeStep ==
    ASSUME Shape, Control, [Next]_vars
    PROVE  Shape'
<1> USE DEF gvars, others
<1>1. CASE Receive
  <2>1. /\ packets # <<>> /\ packets' = Tail(packets) /\ taken' = taken \cup {Head(packets)}
        /\ UNCHANGED <<phase, src, pc, cur, oh, held, late, pkts>>
    BY <1>1 DEF Receive
  <2> QED
    BY <2>1, HeadEffect DEF Shape, Running, Ids
<1>2. CASE CloseReader
  BY <1>2 DEF CloseReader, Shape, Running, Ids
<1>3. ASSUME NEW u \in Urls, StepAdd(u)
      PROVE  Shape'
  <2>1. UNCHANGED <<phase, pkts, packets, taken>>
    BY <1>3 DEF StepAdd
  <2> QED
    BY <1>3, <2>1, AddEffect DEF Shape, Ids
<1>4. ASSUME NEW u \in Urls, StepRemove(u)
      PROVE  Shape'
  BY <1>4 DEF StepRemove, Shape, Running, Ids
<1>5. CASE ReleaseBegin
  BY <1>5 DEF ReleaseBegin, Shape, Running, Ids
<1>6. CASE ReleaseDrain
  <2>1. /\ packets # <<>> /\ packets' = Tail(packets) /\ pkts' = Released(pkts, {Head(packets)})
        /\ UNCHANGED <<phase, src, pc, cur, oh, held, late, taken>>
    BY <1>6 DEF ReleaseDrain, ReleaseAll
  <2>2. Ids' = Ids /\ pkts' \in Seq(Packet) /\ packets' \in Seq(Ids)
    BY <2>1, HeadEffect, ReleasedFields
  <2> QED
    BY <2>1, <2>2 DEF Shape, Running
<1>7. CASE ReleaseEnd
  BY <1>7 DEF ReleaseEnd, Shape, Running, Ids
<1>8. ASSUME NEW g \in Running, Loop(g)
      PROVE  Shape'
  <2>1. UNCHANGED <<phase, src, taken, cur, packets, late>>
    BY <1>8 DEF Loop
  <2>2. pc' \in [Running -> Labels]
    BY <1>8 DEF Loop, Goto, Shape, Labels
  <2>3. CASE g \in stop
    <3>1. pkts' = Released(pkts, HeldBy(g)) /\ ClearHeld(g) /\ ClearLast(g)
      BY <1>8, <2>3 DEF Loop, ReleaseAll, ClearHeld, ClearLast
    <3>2. Ids' = Ids /\ pkts' \in Seq(Packet)
      BY <3>1, ReleasedFields
    <3> QED
      BY <2>1, <2>2, <3>1, <3>2, ClearTypes DEF Shape, Running
  <2>4. CASE g \notin stop
    <3>1. UNCHANGED <<pkts, oh, held>>
      BY <1>8, <2>4 DEF Loop
    <3> QED
      BY <2>1, <2>2, <3>1 DEF Shape, Running, Ids
  <2> QED
    BY <2>3, <2>4
<1>9. ASSUME NEW g \in Running, NEW k \in Tracks, NEW raw \in RawTimes, NEW d \in Durations,
             ReadPacket(g, k, raw, d)
      PROVE  Shape'
  <2>1. PICK p \in Packet, h \in Handler :
              /\ Arrival(g, k, p, h)
              /\ Keeps(g, k, p, h) \/ Refuses(g, k, p, h) \/ Follows(g, k, p, h)
    BY <1>9, ReadEffect
  <2>2. /\ pkts' = Append(pkts, p) /\ UNCHANGED <<phase, src, taken, packets, late>>
        /\ oh' = [oh EXCEPT ![g] = [@ EXCEPT ![k] = h]]
    BY <2>1 DEF Arrival
  <2>3. pkts' \in Seq(Packet) /\ Ids \subseteq Ids' /\ Len(pkts) + 1 \in Ids'
    BY <2>2, ArrivedFields
  <2>4. oh' \in [Running -> [Tracks -> Handler]]
    BY <2>2 DEF Shape
  <2>5. pc' \in [Running -> Labels]
    BY <2>1 DEF Keeps, Refuses, Follows, Shape, Labels
  <2>6. /\ cur \in [Running -> Ids' \cup {NoPkt}]
        /\ held \in [Running -> [Tracks -> Ids' \cup {NoPkt}]]
        /\ packets' \in Seq(Ids') /\ taken' \subseteq Ids'
    BY <2>2, <2>3, IdsGrow
  <2>7. cur' \in [Running -> Ids' \cup {NoPkt}]
    BY <2>1, <2>3, <2>6 DEF Keeps, Refuses, Follows
  <2>8. held' \in [Running -> [Tracks -> Ids' \cup {NoPkt}]]
    <3>1. held' = held \/ held' = [held EXCEPT ![g] = [@ EXCEPT ![k] = Len(pkts) + 1]]
      BY <2>1 DEF Keeps, Refuses, Follows
    <3> QED
      BY <2>3, <2>6, <3>1
  <2>9. Running' = Running /\ late' \in [Running -> Nat] /\ src' \in Seq(Urls)
        /\ phase' \in {"running", "stopping", "draining", "closed"}
    BY <2>2 DEF Running, Shape
  <2> QED
    BY <2>3, <2>4, <2>5, <2>6, <2>7, <2>8, <2>9 DEF Shape
<1>10. ASSUME NEW g \in Running, Send(g)
       PROVE  Shape'
  <2>1. UNCHANGED <<phase, src, taken>>
    BY <1>10 DEF Send
  <2>2. pc' \in [Running -> Labels] /\ cur' \in [Running -> Ids \cup {NoPkt}]
        /\ late' \in [Running -> Nat]
    BY <1>10 DEF Send, Goto, Shape, Labels
  <2> QED
    BY <1>10, <2>1, <2>2, SendEffect DEF Shape, Running, Ids
<1>11. ASSUME NEW g \in Running, SendStopped(g)
       PROVE  Shape'
  <2>1. /\ UNCHANGED <<phase, src, taken, packets, late>>
        /\ pkts' = Released(pkts, HeldBy(g) \cup {cur[g]}) /\ ClearHeld(g) /\ ClearLast(g)
    BY <1>11 DEF SendStopped, ReleaseAll, ClearHeld, ClearLast
  <2>2. pc' \in [Running -> Labels] /\ cur' \in [Running -> Ids \cup {NoPkt}]
    BY <1>11 DEF SendStopped, Goto, Shape, Labels
  <2>3. Ids' = Ids /\ pkts' \in Seq(Packet)
    BY <2>1, ReleasedFields
  <2> QED
    BY <2>1, <2>2, <2>3, ClearTypes DEF Shape, Running
<1>12. ASSUME NEW g \in Running, ReadFails(g) \/ Retry(g) \/ DemuxerPanics(g)
       PROVE  Shape'
  <2>1. /\ UNCHANGED <<phase, src, taken, cur, oh, held, packets, pkts, late>>
        /\ pc' \in [Running -> Labels]
    BY <1>12 DEF ReadFails, Retry, DemuxerPanics, Goto, Shape, Labels
  <2> QED
    BY <2>1 DEF Shape, Running, Ids
<1>13. ASSUME NEW g \in Running, NEW e \in Elapsed, Reconnected(g, e)
       PROVE  Shape'
  <2>1. /\ UNCHANGED <<phase, src, taken, packets, late, cur>>
        /\ pkts' = Released(pkts, HeldBy(g)) /\ ClearHeld(g)
    BY <1>13 DEF Reconnected, ReleaseAll, ClearHeld
  <2>2. pc' \in [Running -> Labels]
    BY <1>13 DEF Reconnected, Goto, Shape, Labels
  <2>3. Ids' = Ids /\ pkts' \in Seq(Packet)
    BY <2>1, ReleasedFields
  <2> QED
    BY <1>13, <2>1, <2>2, <2>3, ClearTypes, GapEffect DEF Shape, Running
<1>14. CASE UNCHANGED vars
  BY <1>14 DEF vars, Shape, Running, Ids
<1> QED
  BY <1>1, <1>2, <1>3, <1>4, <1>5, <1>6, <1>7, <1>8, <1>9, <1>10, <1>11, <1>12, <1>13, <1>14
  DEF Next, Step, Repack

\* A new reader has no stop channels.
LEMMA StopsInit == Init => Stops
BY DEF Init, Stops, Running

\* Every step keeps the stop channels in order.
LEMMA StopsStep ==
    ASSUME Shape, Control, Stops, [Next]_vars
    PROVE  Stops'
<1> USE DEF gvars, others
<1>1. ASSUME UNCHANGED <<dmxStoppers, src, stop, late>>,
             \A g \in Running : late[g] > 0 => pc'[g] \in {"loop", "ended"}
      PROVE  Stops'
  BY <1>1 DEF Stops, Running
<1>2. CASE Receive \/ CloseReader \/ ReleaseDrain \/ ReleaseEnd \/ UNCHANGED vars
  BY <1>1, <1>2 DEF Receive, CloseReader, ReleaseDrain, ReleaseEnd, vars, Stops
<1>3. ASSUME NEW u \in Urls, StepAdd(u)
      PROVE  Stops'
  <2> DEFINE n == Len(src) + 1
  <2>1. /\ Running' = Running \cup {n} /\ n \notin Running /\ src'[n] = u
        /\ pc'[n] = "loop" /\ late'[n] = 0
        /\ \A g \in Running : src'[g] = src[g] /\ pc'[g] = pc[g] /\ late'[g] = late[g]
    BY <1>3, AddEffect
  <2>2. /\ stop' = stop
        /\ DOMAIN dmxStoppers' = DOMAIN dmxStoppers \cup {u}
        /\ dmxStoppers'[u] = n
        /\ \A v \in DOMAIN dmxStoppers : v # u => dmxStoppers'[v] = dmxStoppers[v]
    BY <1>3 DEF StepAdd
  <2> HIDE DEF n
  <2>3. n \notin stop'
    BY <2>1, <2>2 DEF Stops
  <2> QED
    BY <2>1, <2>2, <2>3 DEF Stops
<1>4. ASSUME NEW u \in Urls, StepRemove(u)
      PROVE  Stops'
  <2>1. /\ UNCHANGED <<src, late, pc>> /\ stop' = stop \cup {dmxStoppers[u]}
        /\ u \in DOMAIN dmxStoppers
        /\ DOMAIN dmxStoppers' = DOMAIN dmxStoppers \ {u}
        /\ \A v \in DOMAIN dmxStoppers : v # u => dmxStoppers'[v] = dmxStoppers[v]
    BY <1>4 DEF StepRemove, Without
  <2>2. Running' = Running
    BY <2>1 DEF Running
  <2> QED
    BY <2>1, <2>2 DEF Stops
<1>5. CASE ReleaseBegin
  <2>1. /\ UNCHANGED <<src, late, pc>> /\ DOMAIN dmxStoppers' = {}
        /\ stop' = stop \cup {dmxStoppers[u] : u \in DOMAIN dmxStoppers}
    BY <1>5 DEF ReleaseBegin
  <2> QED
    BY <2>1 DEF Stops, Running
<1>6. ASSUME NEW g \in Running,
             \/ Loop(g) \/ SendStopped(g) \/ ReadFails(g) \/ Retry(g) \/ DemuxerPanics(g)
             \/ \E e \in Elapsed : Reconnected(g, e)
             \/ \E k \in Tracks, raw \in RawTimes, d \in Durations : ReadPacket(g, k, raw, d)
      PROVE  Stops'
  <2>1. /\ UNCHANGED <<dmxStoppers, src, stop, late>>
        /\ \A h \in Running : h # g => pc'[h] = pc[h]
        /\ pc[g] \in {"read", "send", "backoff"} \/ (pc[g] = "loop" /\ Loop(g))
    <3>1. CASE Loop(g) \/ SendStopped(g)
      BY <3>1 DEF Loop, SendStopped, Goto, Shape
    <3>2. CASE ReadFails(g) \/ Retry(g) \/ DemuxerPanics(g)
      BY <3>2 DEF ReadFails, Retry, DemuxerPanics, Goto, Shape
    <3>3. ASSUME NEW e \in Elapsed, Reconnected(g, e)
          PROVE  /\ UNCHANGED <<dmxStoppers, src, stop, late>> /\ pc[g] = "backoff"
                 /\ \A h \in Running : h # g => pc'[h] = pc[h]
      BY <3>3 DEF Reconnected, Goto, Shape
    <3>4. ASSUME NEW k \in Tracks, NEW raw \in RawTimes, NEW d \in Durations,
                 ReadPacket(g, k, raw, d)
          PROVE  /\ UNCHANGED <<dmxStoppers, src, stop, late>> /\ pc[g] = "read"
                 /\ \A h \in Running : h # g => pc'[h] = pc[h]
      BY <3>4 DEF ReadPacket, Goto, Shape
    <3> QED
      BY <1>6, <3>1, <3>2, <3>3, <3>4
  <2>2. late[g] > 0 => pc'[g] = "ended"
    <3>1. late[g] > 0 => g \in stop /\ Loop(g)
      BY <2>1 DEF Stops
    <3> QED
      BY <3>1 DEF Loop, Goto, Shape
  <2> QED
    BY <1>1, <2>1, <2>2 DEF Stops
<1>7. ASSUME NEW g \in Running, Send(g)
      PROVE  Stops'
  <2>1. /\ UNCHANGED <<dmxStoppers, src, stop>> /\ pc[g] = "send" /\ pc'[g] = "loop"
        /\ \A h \in Running : h # g => pc'[h] = pc[h] /\ late'[h] = late[h]
        /\ late'[g] = IF g \in stop THEN late[g] + 1 ELSE late[g]
    BY <1>7 DEF Send, Goto, Shape
  <2>2. late[g] = 0
    <3>1. late[g] \in Nat
      BY DEF Shape
    <3>2. ~ (late[g] > 0)
      BY <2>1 DEF Stops
    <3> QED
      BY <3>1, <3>2
  <2> QED
    BY <2>1, <2>2 DEF Stops, Running
<1> QED
  BY <1>2, <1>3, <1>4, <1>5, <1>6, <1>7 DEF Next, Step, Repack

-----------------------------------------------------------------------------
(* The packet kept and the packet in hand *)

\* A new reader's goroutines are at their start.
LEMMA ControlInit == Init => Control
BY DEF Init, Control, Running

\* Steps of the channel, the consumer and the table of stoppers.
LEMMA ControlFrame ==
    ASSUME Shape, Control, UNCHANGED <<src, pc, cur, oh, held>>,
           \A i \in Ids : /\ pkts'[i].g = pkts[i].g /\ pkts'[i].k = pkts[i].k
                          /\ pkts'[i].ts = pkts[i].ts /\ pkts'[i].dur = pkts[i].dur
    PROVE  Control'
<1>1. Running' = Running
  BY DEF Running
<1>2. \A g \in Running : cur[g] # NoPkt => cur[g] \in Ids
  BY DEF Shape
<1>3. \A g \in Running, k \in Tracks : held[g][k] # NoPkt => held[g][k] \in Ids
  BY DEF Shape
<1> QED
  BY <1>1, <1>2, <1>3 DEF Control

\* One goroutine changes, the others see their packets as they were.
LEMMA ControlOthers ==
    ASSUME Shape, Control, NEW g \in Running, Running' = Running,
           \A h \in Running : h # g => /\ pc'[h] = pc[h] /\ cur'[h] = cur[h]
                                       /\ oh'[h] = oh[h] /\ held'[h] = held[h],
           \A i \in Ids : /\ pkts'[i].g = pkts[i].g /\ pkts'[i].k = pkts[i].k
                          /\ pkts'[i].ts = pkts[i].ts /\ pkts'[i].dur = pkts[i].dur,
           pc'[g] = "send" <=> cur'[g] # NoPkt,
           \A k \in Tracks : IsEmpty(oh'[g][k]) <=> held'[g][k] = NoPkt,
           \A k \in Tracks : held'[g][k] # NoPkt =>
              /\ pkts'[held'[g][k]].g = g /\ pkts'[held'[g][k]].k = k
              /\ pkts'[held'[g][k]].ts = oh'[g][k].last
              /\ pkts'[held'[g][k]].dur \in Durations,
           cur'[g] # NoPkt =>
              /\ pkts'[cur'[g]].g = g /\ pkts'[cur'[g]].dur \in Durations
              /\ held'[g][pkts'[cur'[g]].k] # NoPkt
              /\ pkts'[cur'[g]].ts > oh'[g][pkts'[cur'[g]].k].last
    PROVE  Control'
<1>1. \A h \in Running : h # g /\ cur[h] # NoPkt => cur[h] \in Ids
  BY DEF Shape
<1>2. \A h \in Running, k \in Tracks : held[h][k] # NoPkt => held[h][k] \in Ids
  BY DEF Shape
<1>3. \A h \in Running : pc'[h] = "send" <=> cur'[h] # NoPkt
  BY DEF Control
<1>4. \A h \in Running, k \in Tracks : IsEmpty(oh'[h][k]) <=> held'[h][k] = NoPkt
  BY DEF Control
<1>5. \A h \in Running, k \in Tracks : held'[h][k] # NoPkt =>
          /\ pkts'[held'[h][k]].g = h /\ pkts'[held'[h][k]].k = k
          /\ pkts'[held'[h][k]].ts = oh'[h][k].last
          /\ pkts'[held'[h][k]].dur \in Durations
  BY <1>2 DEF Control
<1>6. \A h \in Running : cur'[h] # NoPkt =>
          /\ pkts'[cur'[h]].g = h /\ pkts'[cur'[h]].dur \in Durations
          /\ held'[h][pkts'[cur'[h]].k] # NoPkt
          /\ pkts'[cur'[h]].ts > oh'[h][pkts'[cur'[h]].k].last
  BY <1>1 DEF Control
<1> QED
  BY <1>3, <1>4, <1>5, <1>6 DEF Control, IsEmpty

\* Every step keeps what is in hand and what is kept together.
LEMMA ControlStep ==
    ASSUME Shape, Control, [Next]_vars
    PROVE  Control'
<1> USE DEF gvars, others
<1>1. CASE Receive \/ CloseReader \/ ReleaseBegin \/ ReleaseEnd \/ UNCHANGED vars
           \/ \E u \in Urls : StepRemove(u)
  <2>1. UNCHANGED <<src, pc, cur, oh, held, pkts>>
    BY <1>1 DEF Receive, CloseReader, ReleaseBegin, ReleaseEnd, StepRemove, vars
  <2> QED
    BY <2>1, ControlFrame
<1>2. CASE ReleaseDrain
  <2>1. UNCHANGED <<src, pc, cur, oh, held>> /\ pkts' = Released(pkts, {Head(packets)})
    BY <1>2 DEF ReleaseDrain, ReleaseAll
  <2> QED
    BY <2>1, ReleasedFields, ControlFrame
<1>3. ASSUME NEW u \in Urls, StepAdd(u)
      PROVE  Control'
  <2> DEFINE n == Len(src) + 1
  <2>1. /\ Running' = Running \cup {n} /\ n \notin Running
        /\ pc'[n] = "loop" /\ cur'[n] = NoPkt
        /\ oh'[n] = [k \in Tracks |-> NewHandler] /\ held'[n] = [k \in Tracks |-> NoPkt]
        /\ \A g \in Running : /\ pc'[g] = pc[g] /\ cur'[g] = cur[g]
                              /\ oh'[g] = oh[g] /\ held'[g] = held[g]
    BY <1>3, AddEffect
  <2>2. pkts' = pkts
    BY <1>3 DEF StepAdd
  <2> HIDE DEF n
  <2>3. \A k \in Tracks : IsEmpty(oh'[n][k]) /\ held'[n][k] = NoPkt
    BY <2>1 DEF NewHandler, IsEmpty
  <2> QED
    BY <2>1, <2>2, <2>3 DEF Control, IsEmpty
<1>4. ASSUME NEW g \in Running, Loop(g)
      PROVE  Control'
  <2>1. /\ pc[g] = "loop" /\ pc'[g] # "send" /\ src' = src /\ cur' = cur
        /\ \A h \in Running : h # g => pc'[h] = pc[h]
    BY <1>4 DEF Loop, Goto, Shape
  <2>2. cur[g] = NoPkt
    BY <2>1 DEF Control
  <2>3. CASE g \in stop
    <3>1. pkts' = Released(pkts, HeldBy(g)) /\ ClearHeld(g) /\ ClearLast(g)
      BY <1>4, <2>3 DEF Loop, ReleaseAll, ClearHeld, ClearLast
    <3> QED
      BY <2>1, <2>2, <3>1, ReleasedFields, ClearTypes, ControlOthers DEF Running
  <2>4. CASE g \notin stop
    <3>1. UNCHANGED <<pkts, oh, held>>
      BY <1>4, <2>4 DEF Loop
    <3> QED
      BY <2>1, <2>2, <3>1 DEF Control, Running
  <2> QED
    BY <2>3, <2>4
<1>5. ASSUME NEW g \in Running, NEW k \in Tracks, NEW raw \in RawTimes, NEW d \in Durations,
             ReadPacket(g, k, raw, d)
      PROVE  Control'
  <2>1. PICK p \in Packet, h \in Handler :
              /\ Arrival(g, k, p, h)
              /\ Keeps(g, k, p, h) \/ Refuses(g, k, p, h) \/ Follows(g, k, p, h)
    BY <1>5, ReadEffect
  <2> DEFINE id == Len(pkts) + 1
  <2>2. /\ pkts' = Append(pkts, p) /\ src' = src /\ pc[g] = "read"
        /\ oh' = [oh EXCEPT ![g] = [@ EXCEPT ![k] = h]]
        /\ p.g = g /\ p.k = k /\ p.dur \in Durations
    BY <2>1 DEF Arrival
  <2>3. /\ oh'[g][k] = h /\ \A l \in Tracks : l # k => oh'[g][l] = oh[g][l]
        /\ \A j \in Running : j # g => oh'[j] = oh[j]
    BY <2>2 DEF Shape
  <2>4. /\ id # NoPkt /\ pkts'[id] = p /\ id \notin Ids
        /\ \A i \in Ids : pkts'[i] = pkts[i]
    BY <2>2, ArrivedFields
  <2>5. cur[g] = NoPkt /\ Running' = Running
    BY <2>2 DEF Control, Running
  <2>6. \A l \in Tracks : held[g][l] # NoPkt => held[g][l] \in Ids
    BY DEF Shape
  <2> HIDE DEF id
  <2>10. pkts'[id].g = g /\ pkts'[id].k = k /\ pkts'[id].dur \in Durations /\ pkts'[id].ts = p.ts
    BY <2>2, <2>4
  <2>7. CASE Keeps(g, k, p, h)
    <3>1. /\ h.last = p.ts /\ pc' = [pc EXCEPT ![g] = "loop"] /\ cur' = cur
          /\ held' = [held EXCEPT ![g] = [@ EXCEPT ![k] = id]]
      BY <2>7 DEF Keeps, id
    <3>2. /\ held'[g][k] = id /\ \A l \in Tracks : l # k => held'[g][l] = held[g][l]
          /\ \A j \in Running : j # g => held'[j] = held[j] /\ pc'[j] = pc[j]
          /\ pc'[g] = "loop"
      BY <3>1 DEF Shape
    <3>3. ~ IsEmpty(h)
      <4>1. oh[g][k].up \in Nat
        BY DEF Shape, Handler
      <4> QED
        BY <2>7, <4>1 DEF Keeps, IsEmpty, None
    <3>4. \A l \in Tracks : IsEmpty(oh'[g][l]) <=> held'[g][l] = NoPkt
      BY <2>3, <2>4, <3>2, <3>3 DEF Control
    <3>5. ASSUME NEW l \in Tracks, held'[g][l] # NoPkt
          PROVE  /\ pkts'[held'[g][l]].g = g /\ pkts'[held'[g][l]].k = l
                 /\ pkts'[held'[g][l]].ts = oh'[g][l].last
                 /\ pkts'[held'[g][l]].dur \in Durations
      <4>1. CASE l = k
        <5>1. held'[g][l] = id /\ oh'[g][l].last = h.last /\ h.last = p.ts
          BY <2>3, <3>1, <3>2, <4>1
        <5> QED
          BY <2>10, <4>1, <5>1
      <4>2. CASE l # k
        BY <2>3, <2>4, <2>6, <3>2, <3>5, <4>2 DEF Control
      <4> QED
        BY <4>1, <4>2
    <3> QED
      BY <2>3, <2>4, <2>5, <3>1, <3>2, <3>4, <3>5, ControlOthers
  <2>8. CASE Refuses(g, k, p, h)
    <3>1. /\ h.last = oh[g][k].last /\ ~ IsEmpty(oh[g][k])
          /\ pc' = [pc EXCEPT ![g] = "loop"] /\ cur' = cur /\ held' = held
      BY <2>8 DEF Refuses
    <3>2. pc'[g] = "loop" /\ \A j \in Running : j # g => pc'[j] = pc[j]
      BY <3>1 DEF Shape
    <3>3. \A l \in Tracks : oh'[g][l].last = oh[g][l].last
      BY <2>3, <3>1
    <3>4. \A l \in Tracks : IsEmpty(oh'[g][l]) <=> held'[g][l] = NoPkt
      BY <3>1, <3>3 DEF Control, IsEmpty
    <3>5. \A l \in Tracks : held'[g][l] # NoPkt =>
              /\ pkts'[held'[g][l]].g = g /\ pkts'[held'[g][l]].k = l
              /\ pkts'[held'[g][l]].ts = oh'[g][l].last
              /\ pkts'[held'[g][l]].dur \in Durations
      BY <2>4, <2>6, <3>1, <3>3 DEF Control
    <3> QED
      BY <2>3, <2>4, <2>5, <3>1, <3>2, <3>4, <3>5, ControlOthers
  <2>9. CASE Follows(g, k, p, h)
    <3>1. /\ h.last = oh[g][k].last /\ ~ IsEmpty(oh[g][k]) /\ p.ts > h.last
          /\ pc' = [pc EXCEPT ![g] = "send"] /\ cur' = [cur EXCEPT ![g] = id] /\ held' = held
      BY <2>9 DEF Follows, id
    <3>2. /\ pc'[g] = "send" /\ cur'[g] = id
          /\ \A j \in Running : j # g => pc'[j] = pc[j] /\ cur'[j] = cur[j]
      BY <3>1 DEF Shape
    <3>3. \A l \in Tracks : oh'[g][l].last = oh[g][l].last
      BY <2>3, <3>1
    <3>4. \A l \in Tracks : IsEmpty(oh'[g][l]) <=> held'[g][l] = NoPkt
      BY <3>1, <3>3 DEF Control, IsEmpty
    <3>5. \A l \in Tracks : held'[g][l] # NoPkt =>
              /\ pkts'[held'[g][l]].g = g /\ pkts'[held'[g][l]].k = l
              /\ pkts'[held'[g][l]].ts = oh'[g][l].last
              /\ pkts'[held'[g][l]].dur \in Durations
      BY <2>4, <2>6, <3>1, <3>3 DEF Control
    <3>6. held[g][k] # NoPkt
      BY <3>1 DEF Control
    <3>7. /\ pkts'[cur'[g]].g = g /\ pkts'[cur'[g]].dur \in Durations
          /\ held'[g][pkts'[cur'[g]].k] # NoPkt
          /\ pkts'[cur'[g]].ts > oh'[g][pkts'[cur'[g]].k].last
      <4>1. p.ts > oh'[g][k].last
        BY <2>3, <3>1
      <4> QED
        BY <2>10, <3>1, <3>2, <3>6, <4>1
    <3>8. \A j \in Running : j # g => /\ pc'[j] = pc[j] /\ cur'[j] = cur[j]
                                      /\ oh'[j] = oh[j] /\ held'[j] = held[j]
      BY <2>3, <3>1, <3>2
    <3>9. \A i \in Ids : /\ pkts'[i].g = pkts[i].g /\ pkts'[i].k = pkts[i].k
                         /\ pkts'[i].ts = pkts[i].ts /\ pkts'[i].dur = pkts[i].dur
      BY <2>4
    <3>10. (pc'[g] = "send" <=> cur'[g] # NoPkt) /\ Running' = Running
      BY <2>4, <2>5, <3>2
    <3> QED
      BY <3>4, <3>5, <3>7, <3>8, <3>9, <3>10, ControlOthers
  <2> QED
    BY <2>1, <2>7, <2>8, <2>9
<1>6. ASSUME NEW g \in Running, Send(g)
      PROVE  Control'
  <2> DEFINE k == pkts[cur[g]].k
  <2>1. /\ pc[g] = "send" /\ pc'[g] = "loop" /\ src' = src
        /\ \A h \in Running : h # g => pc'[h] = pc[h]
    BY <1>6 DEF Send, Goto, Shape
  <2>2. cur[g] # NoPkt /\ pkts[cur[g]].g = g /\ pkts[cur[g]].dur \in Durations
    BY <2>1 DEF Control
  <2>3. PICK l : l = k
    OBVIOUS
  <2> HIDE DEF k
  <2>4. /\ l \in Tracks /\ cur[g] \in Ids /\ oh[g][l].last \in Nat /\ pkts' = pkts
        /\ held'[g][l] = cur[g] /\ oh'[g][l].last = pkts[cur[g]].ts
        /\ \A m \in Tracks : m # l => held'[g][m] = held[g][m] /\ oh'[g][m] = oh[g][m]
        /\ \A h \in Running : h # g => held'[h] = held[h] /\ oh'[h] = oh[h] /\ cur'[h] = cur[h]
        /\ cur'[g] = NoPkt
    BY <1>6, <2>3, SendEffect DEF k
  <2>5. pkts[cur[g]].ts > oh[g][l].last /\ pkts[cur[g]].k = l /\ pkts[cur[g]].ts \in Int
    <3>1. pkts[cur[g]] \in Packet
      BY <2>4, Numbers
    <3> QED
      BY <2>2, <2>3, <3>1 DEF Control, k, Packet
  <2>6. ~ IsEmpty(oh'[g][l])
    BY <2>4, <2>5 DEF IsEmpty, None
  <2>7. \A m \in Tracks : IsEmpty(oh'[g][m]) <=> held'[g][m] = NoPkt
    BY <2>2, <2>4, <2>6 DEF Control
  <2>8. \A m \in Tracks : held'[g][m] # NoPkt =>
          /\ pkts'[held'[g][m]].g = g /\ pkts'[held'[g][m]].k = m
          /\ pkts'[held'[g][m]].ts = oh'[g][m].last
          /\ pkts'[held'[g][m]].dur \in Durations
    BY <2>2, <2>4, <2>5 DEF Control
  <2> QED
    BY <2>1, <2>4, <2>7, <2>8, ControlOthers DEF Running
<1>7. ASSUME NEW g \in Running, SendStopped(g)
      PROVE  Control'
  <2>1. /\ src' = src /\ cur'[g] = NoPkt /\ pc'[g] = "ended"
        /\ \A h \in Running : h # g => pc'[h] = pc[h] /\ cur'[h] = cur[h]
        /\ pkts' = Released(pkts, HeldBy(g) \cup {cur[g]}) /\ ClearHeld(g) /\ ClearLast(g)
    BY <1>7 DEF SendStopped, ReleaseAll, ClearHeld, ClearLast, Goto, Shape
  <2>2. /\ \A k \in Tracks : held'[g][k] = NoPkt /\ IsEmpty(oh'[g][k])
        /\ \A h \in Running : h # g => held'[h] = held[h] /\ oh'[h] = oh[h]
    BY <2>1, ClearTypes
  <2>3. \A i \in Ids : /\ pkts'[i].g = pkts[i].g /\ pkts'[i].k = pkts[i].k
                       /\ pkts'[i].ts = pkts[i].ts /\ pkts'[i].dur = pkts[i].dur
    BY <2>1, ReleasedFields
  <2> QED
    BY <2>1, <2>2, <2>3, ControlOthers DEF Running
<1>8. ASSUME NEW g \in Running, ReadFails(g) \/ Retry(g) \/ DemuxerPanics(g)
      PROVE  Control'
  <2>1. /\ UNCHANGED <<src, cur, oh, held, pkts>> /\ pc[g] # "send" /\ pc'[g] # "send"
        /\ \A h \in Running : h # g => pc'[h] = pc[h]
    BY <1>8 DEF ReadFails, Retry, DemuxerPanics, Goto, Shape
  <2> QED
    BY <2>1 DEF Control, Running
<1>9. ASSUME NEW g \in Running, NEW e \in Elapsed, Reconnected(g, e)
      PROVE  Control'
  <2>1. /\ src' = src /\ cur' = cur /\ pc[g] = "backoff" /\ pc'[g] = "loop"
        /\ \A h \in Running : h # g => pc'[h] = pc[h]
        /\ pkts' = Released(pkts, HeldBy(g)) /\ ClearHeld(g)
    BY <1>9 DEF Reconnected, ReleaseAll, ClearHeld, Goto, Shape
  <2>2. cur[g] = NoPkt
    BY <2>1 DEF Control
  <2>3. \A k \in Tracks : IsEmpty(oh'[g][k])
    <3>1. \A k \in Tracks : oh'[g][k] = RecalcForGap(oh[g][k], e) /\ oh[g][k] \in Handler
      BY <1>9, GapEffect DEF Shape
    <3>2. e \in Nat
      BY TimesAssumption
    <3> QED
      BY <3>1, <3>2, GapTypes
  <2>4. \A h \in Running : h # g => oh'[h] = oh[h]
    BY <1>9, GapEffect
  <2> QED
    BY <2>1, <2>2, <2>3, <2>4, ReleasedFields, ClearTypes, ControlOthers DEF Running
<1> QED
  BY <1>1, <1>2, <1>3, <1>4, <1>5, <1>6, <1>7, <1>8, <1>9 DEF Next, Step, Repack

-----------------------------------------------------------------------------
(* Ownership *)

\* A new reader owns no packet.
LEMMA OwnershipInit == Init => Apart /\ Released1
BY DEF Init, Apart, Released1, Running, Ids, Sent, Queued

\* Owners stay as they are, and nothing is released.
LEMMA OwnersKept ==
    ASSUME Shape, Released1, Ids' = Ids,
           \A p \in Ids : pkts'[p].releases = pkts[p].releases,
           \A p \in Ids : Owned(p)' <=> Owned(p)
    PROVE  Released1'
BY DEF Released1

\* Exactly the packets of S lose their owner, and are released.
LEMMA OwnersRelease ==
    ASSUME Shape, Released1, NEW S, pkts' = Released(pkts, S),
           \A p \in Ids : p \in S => Owned(p),
           \A p \in Ids : Owned(p)' <=> Owned(p) /\ p \notin S
    PROVE  Released1'
<1>1. /\ Ids' = Ids
      /\ \A p \in Ids : pkts'[p].releases = pkts[p].releases + (IF p \in S THEN 1 ELSE 0)
  BY ReleasedFields
<1>2. ASSUME NEW p \in Ids
      PROVE  pkts'[p].releases = IF Owned(p)' THEN 0 ELSE 1
  <2>1. pkts[p].releases = IF Owned(p) THEN 0 ELSE 1
    BY DEF Released1
  <2> QED
    BY <1>1, <2>1
<1> QED
  BY <1>1, <1>2 DEF Released1

\* Packets sent are packets read.
LEMMA SentIds ==
    ASSUME Shape
    PROVE  Sent \subseteq Ids /\ Queued \subseteq Ids /\ NoPkt \notin Sent
<1>1. Queued \subseteq Ids
  BY Numbers DEF Queued
<1> QED
  BY <1>1, Numbers DEF Shape, Sent

\* The channel loses its head, which no other place holds.
LEMMA HeadApart ==
    ASSUME Shape, Apart, packets # <<>>, packets' = Tail(packets)
    PROVE  /\ Head(packets) \in Queued /\ Head(packets) \notin Queued' /\ Head(packets) \notin taken
           /\ Queued = Queued' \cup {Head(packets)}
           /\ \A i, j \in 1 .. Len(packets') : packets'[i] = packets'[j] => i = j
           /\ \A i \in 1 .. Len(packets') : packets'[i] \notin taken /\ packets'[i] # Head(packets)
<1>1. /\ Head(packets) = packets[1] /\ 1 \in 1 .. Len(packets)
      /\ Len(packets') = Len(packets) - 1 /\ Len(packets') \in Nat
      /\ \A i \in 1 .. Len(packets') : packets'[i] = packets[i + 1]
      /\ Queued = Queued' \cup {Head(packets)}
  BY HeadEffect
<1>2. \A i \in 1 .. Len(packets') : i + 1 \in 1 .. Len(packets) /\ i + 1 # 1
  BY <1>1
<1>3. \A i, j \in 1 .. Len(packets') : packets'[i] = packets'[j] => i = j
  BY <1>1, <1>2 DEF Apart
<1>4. \A i \in 1 .. Len(packets') : packets'[i] \notin taken /\ packets'[i] # Head(packets)
  BY <1>1, <1>2 DEF Apart
<1>5. Head(packets) \notin Queued'
  BY <1>4 DEF Queued
<1> QED
  BY <1>1, <1>3, <1>4, <1>5 DEF Apart

\* What a goroutine gives up is its own.
LEMMA GiveUp ==
    ASSUME Shape, Apart, Released1, NEW g \in Running, Running' = Running,
           ClearHeld(g), UNCHANGED <<packets, taken>>,
           NEW S, pkts' = Released(pkts, S),
           \/ S = HeldBy(g) /\ cur' = cur /\ cur[g] = NoPkt
           \/ S = HeldBy(g) \cup {cur[g]} /\ cur' = [cur EXCEPT ![g] = NoPkt]
    PROVE  Apart' /\ Released1'
<1>1. /\ \A k \in Tracks : held'[g][k] = NoPkt
      /\ \A h \in Running : h # g => held'[h] = held[h]
  BY ClearTypes
<1>2. cur'[g] = NoPkt /\ \A h \in Running : h # g => cur'[h] = cur[h]
  BY DEF Shape
<1>3. Sent' = Sent /\ Queued' = Queued
  BY DEF Sent, Queued
<1>4. NoPkt \notin Sent /\ NoPkt \notin Ids
  BY SentIds, Numbers
<1>5. Apart'
  <2>1. \A h \in Running : cur'[h] = NoPkt \/ (h # g /\ cur'[h] = cur[h])
    BY <1>2
  <2>2. \A h \in Running, k \in Tracks : held'[h][k] = NoPkt \/ (h # g /\ held'[h][k] = held[h][k])
    BY <1>1
  <2> QED
    BY <1>3, <1>4, <2>1, <2>2 DEF Apart
<1>6. \A p \in Ids : p \in S <=> (\E k \in Tracks : held[g][k] = p) \/ cur[g] = p
  BY <1>4 DEF HeldBy
<1>7. \A p \in Ids : p \in S => Owned(p)
  BY <1>6 DEF Owned, Kept, InHand
<1>8. ASSUME NEW p \in Ids
      PROVE  Owned(p)' <=> Owned(p) /\ p \notin S
  <2>1. Kept(p)' <=> \E h \in Running, k \in Tracks : h # g /\ held[h][k] = p
    BY <1>1, <1>4 DEF Kept
  <2>2. InHand(p)' <=> \E h \in Running : h # g /\ cur[h] = p
    BY <1>2, <1>4 DEF InHand
  <2>3. p \in S => ~ Kept(p)' /\ ~ InHand(p)' /\ p \notin Sent
    BY <1>4, <1>6, <2>1, <2>2 DEF Apart
  <2>4. p \notin S => (Kept(p)' <=> Kept(p)) /\ (InHand(p)' <=> InHand(p))
    BY <1>6, <2>1, <2>2 DEF Kept, InHand
  <2> QED
    BY <1>3, <2>3, <2>4 DEF Owned
<1>9. Released1'
  BY <1>7, <1>8, OwnersRelease
<1> QED
  BY <1>5, <1>9

\* Every step keeps the places apart and the releases right.
LEMMA OwnershipStep ==
    ASSUME Shape, Control, Apart, Released1, [Next]_vars
    PROVE  Apart' /\ Released1'
<1> USE DEF gvars, others
<1>0. NoPkt \notin Sent /\ NoPkt \notin Ids /\ Sent \subseteq Ids
  BY SentIds, Numbers
<1>1. ASSUME UNCHANGED <<src, cur, held, packets, taken, pkts>>
      PROVE  Apart' /\ Released1'
  BY <1>1 DEF Apart, Released1, Running, Ids, Sent, Queued, Owned, Kept, InHand
<1>2. CASE CloseReader \/ ReleaseBegin \/ ReleaseEnd \/ UNCHANGED vars
           \/ (\E u \in Urls : StepRemove(u))
           \/ (\E g \in Running : ReadFails(g) \/ Retry(g) \/ DemuxerPanics(g))
  BY <1>1, <1>2 DEF CloseReader, ReleaseBegin, ReleaseEnd, StepRemove, ReadFails, Retry,
     DemuxerPanics, vars
<1>3. CASE Receive
  <2>1. /\ packets # <<>> /\ packets' = Tail(packets) /\ taken' = taken \cup {Head(packets)}
        /\ UNCHANGED <<src, cur, held, pkts>>
    BY <1>3 DEF Receive
  <2>2. Sent' = Sent
    BY <2>1, HeadApart DEF Sent
  <2>3. Apart'
    <3>1. /\ \A i, j \in 1 .. Len(packets') : packets'[i] = packets'[j] => i = j
          /\ \A i \in 1 .. Len(packets') : packets'[i] \notin taken'
      BY <2>1, HeadApart
    <3> QED
      BY <2>1, <2>2, <3>1 DEF Apart, Running
  <2>4. \A p \in Ids : Owned(p)' <=> Owned(p)
    BY <2>1, <2>2 DEF Owned, Kept, InHand, Running
  <2> QED
    BY <2>1, <2>3, <2>4, OwnersKept DEF Ids
<1>4. CASE ReleaseDrain
  <2>1. /\ packets # <<>> /\ packets' = Tail(packets) /\ taken' = taken
        /\ pkts' = Released(pkts, {Head(packets)})
        /\ UNCHANGED <<src, cur, held>>
    BY <1>4 DEF ReleaseDrain, ReleaseAll
  <2>2. Sent' = Sent \ {Head(packets)} /\ Head(packets) \in Sent
    BY <2>1, HeadApart DEF Sent
  <2>3. Apart'
    <3>1. /\ \A i, j \in 1 .. Len(packets') : packets'[i] = packets'[j] => i = j
          /\ \A i \in 1 .. Len(packets') : packets'[i] \notin taken'
      BY <2>1, HeadApart
    <3> QED
      BY <2>1, <2>2, <3>1 DEF Apart, Running
  <2>4. ASSUME NEW p \in Ids
        PROVE  Owned(p)' <=> Owned(p) /\ p \notin {Head(packets)}
    <3>1. (Kept(p)' <=> Kept(p)) /\ (InHand(p)' <=> InHand(p))
      BY <2>1 DEF Kept, InHand, Running
    <3>2. p = Head(packets) => ~ Kept(p) /\ ~ InHand(p)
      BY <2>2 DEF Kept, InHand, Apart
    <3> QED
      BY <2>2, <3>1, <3>2 DEF Owned
  <2>5. \A p \in Ids : p \in {Head(packets)} => Owned(p)
    BY <2>2 DEF Owned
  <2> QED
    BY <2>1, <2>3, <2>4, <2>5, OwnersRelease
<1>5. ASSUME NEW u \in Urls, StepAdd(u)
      PROVE  Apart' /\ Released1'
  <2> DEFINE n == Len(src) + 1
  <2>1. /\ Running' = Running \cup {n} /\ n \notin Running
        /\ cur'[n] = NoPkt /\ \A k \in Tracks : held'[n][k] = NoPkt
        /\ \A g \in Running : cur'[g] = cur[g] /\ held'[g] = held[g]
    BY <1>5, AddEffect
  <2>2. UNCHANGED <<packets, taken, pkts>> /\ Sent' = Sent
    BY <1>5 DEF StepAdd, Sent, Queued
  <2> HIDE DEF n
  <2>3. Apart'
    BY <1>0, <2>1, <2>2 DEF Apart
  <2>4. ASSUME NEW p \in Ids
        PROVE  Owned(p)' <=> Owned(p)
    BY <1>0, <2>1, <2>2 DEF Owned, Kept, InHand
  <2> QED
    BY <2>2, <2>3, <2>4, OwnersKept DEF Ids
<1>6. ASSUME NEW g \in Running, Loop(g)
      PROVE  Apart' /\ Released1'
  <2>1. UNCHANGED <<src, taken, cur, packets>> /\ cur[g] = NoPkt
    BY <1>6 DEF Loop, Control
  <2>2. CASE g \in stop
    <3>1. pkts' = Released(pkts, HeldBy(g)) /\ ClearHeld(g)
      BY <1>6, <2>2 DEF Loop, ReleaseAll, ClearHeld
    <3> QED
      BY <2>1, <3>1, GiveUp DEF Running
  <2>3. CASE g \notin stop
    BY <1>1, <1>6, <2>1, <2>3 DEF Loop
  <2> QED
    BY <2>2, <2>3
<1>7. ASSUME NEW g \in Running, SendStopped(g)
      PROVE  Apart' /\ Released1'
  <2>1. /\ UNCHANGED <<src, taken, packets>> /\ cur' = [cur EXCEPT ![g] = NoPkt]
        /\ pkts' = Released(pkts, HeldBy(g) \cup {cur[g]}) /\ ClearHeld(g)
    BY <1>7 DEF SendStopped, ReleaseAll, ClearHeld
  <2> QED
    BY <2>1, GiveUp DEF Running
<1>8. ASSUME NEW g \in Running, NEW e \in Elapsed, Reconnected(g, e)
      PROVE  Apart' /\ Released1'
  <2>1. /\ UNCHANGED <<src, taken, packets, cur>> /\ cur[g] = NoPkt
        /\ pkts' = Released(pkts, HeldBy(g)) /\ ClearHeld(g)
    BY <1>8 DEF Reconnected, ReleaseAll, ClearHeld, Control
  <2> QED
    BY <2>1, GiveUp DEF Running
<1>9. ASSUME NEW g \in Running, Send(g)
      PROVE  Apart' /\ Released1'
  <2>1. PICK k : k = pkts[cur[g]].k
    OBVIOUS
  <2>2. PICK q : q = held[g][k]
    OBVIOUS
  <2>3. /\ k \in Tracks /\ cur[g] \in Ids /\ q \in Ids /\ pkts' = pkts
        /\ Len(packets') = Len(packets) + 1
        /\ \A i \in 1 .. Len(packets) : packets'[i] = packets[i]
        /\ packets'[Len(packets) + 1] = q
        /\ Queued' = Queued \cup {q}
        /\ held'[g][k] = cur[g]
        /\ \A l \in Tracks : l # k => held'[g][l] = held[g][l]
        /\ \A h \in Running : h # g => held'[h] = held[h]
        /\ cur'[g] = NoPkt /\ \A h \in Running : h # g => cur'[h] = cur[h]
    BY <1>9, <2>1, <2>2, SendEffect
  <2>4. UNCHANGED <<src, taken>> /\ Running' = Running /\ Sent' = Sent \cup {q}
    BY <1>9, <2>3 DEF Send, Running, Sent
  <2>5. Len(packets) \in Nat /\ q # NoPkt /\ cur[g] # NoPkt
    BY <1>0, <2>3, Numbers
  <2>6. q \notin Sent /\ q # cur[g]
    BY <2>2, <2>3, <2>5 DEF Apart
  <2>7. \A i \in 1 .. Len(packets) : packets[i] \in Queued /\ packets[i] # q
    BY <2>6 DEF Queued, Sent
  <2>8. Apart'
    <3>1. \A h, j \in Running : cur'[h] # NoPkt /\ cur'[h] = cur'[j] => h = j
      BY <2>3 DEF Apart
    <3>2. \A h, j \in Running, l, m \in Tracks :
             held'[h][l] # NoPkt /\ held'[h][l] = held'[j][m] => h = j /\ l = m
      <4>1. \A h \in Running, l \in Tracks :
               IF h = g /\ l = k THEN held'[h][l] = cur[g] ELSE held'[h][l] = held[h][l]
        BY <2>3
      <4>2. \A h \in Running, l \in Tracks : held[h][l] # cur[g]
        BY <2>5 DEF Apart
      <4> QED
        BY <4>1, <4>2 DEF Apart
    <3>3. \A h, j \in Running, l \in Tracks : cur'[h] # NoPkt => cur'[h] # held'[j][l]
      <4>1. \A h \in Running, l \in Tracks :
               IF h = g /\ l = k THEN held'[h][l] = cur[g] ELSE held'[h][l] = held[h][l]
        BY <2>3
      <4>2. \A h \in Running : cur'[h] # NoPkt => h # g /\ cur'[h] = cur[h] /\ cur[h] # cur[g]
        BY <2>3 DEF Apart
      <4> QED
        BY <4>1, <4>2 DEF Apart
    <3>4. \A i, j \in 1 .. Len(packets') : packets'[i] = packets'[j] => i = j
      BY <2>3, <2>5, <2>7 DEF Apart
    <3>5. \A i \in 1 .. Len(packets') : packets'[i] \notin taken'
      BY <2>3, <2>4, <2>5, <2>6 DEF Apart, Sent
    <3>6. \A h \in Running : cur'[h] \notin Sent'
      <4>1. \A h \in Running : cur[h] # NoPkt => cur[h] # q
        BY <2>2, <2>3 DEF Apart
      <4> QED
        BY <1>0, <2>3, <2>4, <2>5, <4>1 DEF Apart
    <3>7. \A h \in Running, l \in Tracks : held'[h][l] \notin Sent'
      <4>1. \A h \in Running, l \in Tracks :
               IF h = g /\ l = k THEN held'[h][l] = cur[g] ELSE held'[h][l] = held[h][l]
        BY <2>3
      <4>2. \A h \in Running, l \in Tracks : held[h][l] = q => h = g /\ l = k
        BY <2>2, <2>3, <2>5 DEF Apart
      <4> QED
        BY <2>4, <2>6, <4>1, <4>2 DEF Apart
    <3> QED
      BY <2>4, <3>1, <3>2, <3>3, <3>4, <3>5, <3>6, <3>7 DEF Apart
  <2>9. ASSUME NEW p \in Ids
        PROVE  Owned(p)' <=> Owned(p)
    <3>1. Kept(p)' <=> p = cur[g] \/ (Kept(p) /\ p # q)
      <4>1. \A h \in Running, l \in Tracks :
               IF h = g /\ l = k THEN held'[h][l] = cur[g] ELSE held'[h][l] = held[h][l]
        BY <2>3
      <4>2. \A h \in Running, l \in Tracks : held[h][l] = q <=> h = g /\ l = k
        BY <2>2, <2>3, <2>5 DEF Apart
      <4> QED
        BY <2>3, <2>4, <4>1, <4>2 DEF Kept
    <3>2. InHand(p) <=> p = cur[g] \/ InHand(p)'
      BY <1>0, <2>3, <2>4 DEF InHand
    <3>3. p \in Sent' <=> p \in Sent \/ p = q
      BY <2>4
    <3>4. p = q => Kept(p)
      BY <2>2, <2>3 DEF Kept
    <3> QED
      BY <3>1, <3>2, <3>3, <3>4 DEF Owned
  <2> QED
    BY <2>3, <2>8, <2>9, OwnersKept DEF Ids
<1>10. ASSUME NEW g \in Running, NEW k \in Tracks, NEW raw \in RawTimes, NEW d \in Durations,
              ReadPacket(g, k, raw, d)
       PROVE  Apart' /\ Released1'
  <2>1. PICK p \in Packet, h \in Handler :
              /\ Arrival(g, k, p, h)
              /\ Keeps(g, k, p, h) \/ Refuses(g, k, p, h) \/ Follows(g, k, p, h)
    BY <1>10, ReadEffect
  <2>2. PICK id : id = Len(pkts) + 1
    OBVIOUS
  <2>3. /\ UNCHANGED <<src, taken, packets>> /\ Running' = Running /\ Sent' = Sent
        /\ pkts' = Append(pkts, p) /\ pc[g] = "read"
    BY <2>1 DEF Arrival, Running, Sent, Queued
  <2>4. /\ Ids' = Ids \cup {id} /\ id \notin Ids /\ id # NoPkt /\ pkts'[id] = p
        /\ \A i \in Ids : pkts'[i] = pkts[i]
    BY <2>2, <2>3, ArrivedFields
  <2>5. /\ \A j \in Running : cur[j] # id
        /\ \A j \in Running, l \in Tracks : held[j][l] # id
        /\ id \notin Sent
    BY <1>0, <2>4 DEF Shape
  <2>6. cur[g] = NoPkt
    BY <2>3 DEF Control
  <2>7. ASSUME NEW owned \in BOOLEAN, p.releases = IF owned THEN 0 ELSE 1,
               Owned(id)' <=> owned, \A i \in Ids : Owned(i)' <=> Owned(i)
        PROVE  Released1'
    BY <2>4, <2>7 DEF Released1
  <2>8. CASE Keeps(g, k, p, h)
    <3>1. /\ p.releases = 0 /\ cur' = cur /\ held[g][k] = NoPkt
          /\ held'[g][k] = id /\ \A l \in Tracks : l # k => held'[g][l] = held[g][l]
          /\ \A j \in Running : j # g => held'[j] = held[j]
      BY <2>2, <2>8 DEF Keeps, Shape, Control
    <3>2. \A j \in Running, l \in Tracks :
             IF j = g /\ l = k THEN held'[j][l] = id ELSE held'[j][l] = held[j][l]
      BY <3>1
    <3>3. Apart'
      BY <2>3, <2>5, <3>1, <3>2 DEF Apart
    <3>4. Kept(id)' /\ \A i \in Ids : Kept(i)' <=> Kept(i)
      BY <1>0, <2>3, <2>4, <3>1, <3>2 DEF Kept
    <3>5. Owned(id)' /\ \A i \in Ids : Owned(i)' <=> Owned(i)
      BY <2>3, <3>1, <3>4 DEF Owned, InHand
    <3> QED
      BY <2>7, <3>1, <3>3, <3>5
  <2>9. CASE Refuses(g, k, p, h)
    <3>1. p.releases = 1 /\ cur' = cur /\ held' = held
      BY <2>9 DEF Refuses
    <3>2. Apart'
      BY <2>3, <3>1 DEF Apart
    <3>3. ~ Owned(id)' /\ \A i \in Ids : Owned(i)' <=> Owned(i)
      BY <2>3, <2>5, <3>1 DEF Owned, Kept, InHand
    <3> QED
      BY <2>7, <3>1, <3>2, <3>3
  <2>10. CASE Follows(g, k, p, h)
    <3>1. /\ p.releases = 0 /\ held' = held /\ cur'[g] = id
          /\ \A j \in Running : j # g => cur'[j] = cur[j]
      BY <2>2, <2>10 DEF Follows, Shape
    <3>2. Apart'
      BY <2>3, <2>5, <3>1 DEF Apart
    <3>3. InHand(id)' /\ \A i \in Ids : InHand(i)' <=> InHand(i)
      BY <1>0, <2>3, <2>4, <2>6, <3>1 DEF InHand
    <3>4. Owned(id)' /\ \A i \in Ids : Owned(i)' <=> Owned(i)
      BY <2>3, <3>1, <3>3 DEF Owned, Kept
    <3> QED
      BY <2>7, <3>1, <3>2, <3>4
  <2> QED
    BY <2>1, <2>8, <2>9, <2>10
<1> QED
  BY <1>2, <1>3, <1>4, <1>5, <1>6, <1>7, <1>8, <1>9, <1>10 DEF Next, Step, Repack

-----------------------------------------------------------------------------
(* The order of timestamps *)

\* A new reader has sent nothing out of order.
LEMMA OrderInit == Init => Order
BY DEF Init, Order, InOrder, Running, Sent, Queued

SameFields(S) ==
    \A i \in S : /\ pkts'[i].g = pkts[i].g /\ pkts'[i].k = pkts[i].k
                 /\ pkts'[i].ts = pkts[i].ts

\* What was sent stays in order.
LEMMA SentKept ==
    ASSUME Shape, Order, SameFields(Ids), Running \subseteq Running', Sent' \subseteq Sent
    PROVE  InOrder(Sent)' /\ \A p \in Sent' : pkts'[p].g \in Running'
<1>1. Sent \subseteq Ids
  BY SentIds
<1>2. InOrder(Sent)'
  BY <1>1 DEF Order, InOrder, SameTrack, SameFields
<1> QED
  BY <1>1, <1>2 DEF Order, SameFields

\* A goroutine with the same packets and handlers keeps its order.
LEMMA FollowerKept ==
    ASSUME Shape, NEW g \in Running, Follower(g), SameFields(Ids),
           cur'[g] = cur[g], held'[g] = held[g], oh'[g] = oh[g]
    PROVE  Follower(g)'
<1>1. cur[g] # NoPkt => cur[g] \in Ids
  BY DEF Shape
<1> QED
  BY <1>1 DEF Follower, SameFields

\* A track with the same packet and handler stays behind it.
LEMMA BehindKept ==
    ASSUME Shape, NEW g \in Running, NEW k \in Tracks, Behind(g, k), SameFields(Ids),
           held'[g][k] = held[g][k], oh'[g][k] = oh[g][k],
           Busy(g, k) => Busy(g, k)', pc[g] = "ended" => pc'[g] = "ended",
           \A p \in Sent' : p \in Sent \/ ~ Of(p, g, k)'
    PROVE  Behind(g, k)'
<1>1. Sent \subseteq Ids
  BY SentIds
<1>2. ASSUME NEW p \in Sent', Of(p, g, k)'
      PROVE  p \in Sent /\ Of(p, g, k) /\ pkts'[p].ts = pkts[p].ts
  BY <1>1, <1>2 DEF Of, SameFields
<1>3. IsEmpty(oh[g][k])' <=> IsEmpty(oh[g][k])
  BY DEF IsEmpty
<1> QED
  BY <1>2, <1>3 DEF Behind

\* A track that lets go of its packet at the end has no order to keep.
LEMMA BehindEnded ==
    ASSUME NEW g, NEW k, pc'[g] = "ended", IsEmpty(oh'[g][k])
    PROVE  Behind(g, k)'
BY DEF Behind, IsEmpty

\* Steps that leave the goroutines alone.
LEMMA OrderFrame ==
    ASSUME Shape, Order, UNCHANGED <<src, pc, cur, oh, held>>, SameFields(Ids), Sent' \subseteq Sent
    PROVE  Order'
<1>1. Running' = Running
  BY DEF Running
<1>2. InOrder(Sent)' /\ \A p \in Sent' : pkts'[p].g \in Running'
  BY <1>1, SentKept
<1>3. \A g \in Running : Follower(g)'
  BY FollowerKept DEF Order
<1>4. ASSUME NEW g \in Running, NEW k \in Tracks
      PROVE  Behind(g, k)'
  <2>1. Busy(g, k) => Busy(g, k)'
    BY DEF Busy, SameFields, Shape
  <2> QED
    BY <2>1, BehindKept DEF Order
<1> QED
  BY <1>1, <1>2, <1>3, <1>4 DEF Order

\* One goroutine moves, and sends nothing.
LEMMA OrderOthers ==
    ASSUME Shape, Order, NEW g \in Running, Running' = Running, SameFields(Ids),
           \A h \in Running : h # g => /\ pc'[h] = pc[h] /\ cur'[h] = cur[h]
                                       /\ oh'[h] = oh[h] /\ held'[h] = held[h],
           \A p \in Sent' : p \in Sent \/ pkts'[p].g = g,
           InOrder(Sent)', \A p \in Sent' : pkts'[p].g \in Running,
           Follower(g)', \A k \in Tracks : Behind(g, k)'
    PROVE  Order'
<1>1. \A h \in Running : Follower(h)'
  BY FollowerKept DEF Order
<1>2. ASSUME NEW h \in Running, NEW k \in Tracks, h # g
      PROVE  Behind(h, k)'
  <2>1. Busy(h, k) => Busy(h, k)'
    BY <1>2 DEF Busy, SameFields, Shape
  <2>2. \A p \in Sent' : p \in Sent \/ ~ Of(p, h, k)'
    BY <1>2 DEF Of
  <2> QED
    BY <1>2, <2>1, <2>2, BehindKept DEF Order
<1> QED
  BY <1>1, <1>2 DEF Order

\* A reconnection goes on behind the last packet sent, in whatever time.
LEMMA OrderReconnected ==
    ASSUME Shape, Control, Order, NEW g \in Running, NEW e \in Elapsed, Reconnected(g, e)
    PROVE  Order'
<1>1. /\ src' = src /\ cur' = cur /\ pc[g] = "backoff" /\ pc'[g] = "loop"
      /\ \A h \in Running : h # g => pc'[h] = pc[h]
      /\ pkts' = Released(pkts, HeldBy(g)) /\ ClearHeld(g)
      /\ packets' = packets /\ taken' = taken
  BY DEF Reconnected, ReleaseAll, ClearHeld, Goto, Shape, others
<1>2. cur[g] = NoPkt /\ Running' = Running /\ Sent' = Sent
  BY <1>1 DEF Control, Running, Sent, Queued
<1>3. SameFields(Ids)
  BY <1>1, ReleasedFields DEF SameFields
<1>4. \A h \in Running : h # g => held'[h] = held[h] /\ oh'[h] = oh[h]
  BY <1>1, ClearTypes, GapEffect
<1>5. Follower(g)'
  BY <1>1, <1>2 DEF Follower
<1>6. Sent \subseteq Ids
  BY SentIds
<1>7. ASSUME NEW k \in Tracks
      PROVE  Behind(g, k)'
  <2> DEFINE h == oh[g][k]
             r == oh'[g][k]
  <2>1. h \in Handler /\ e \in Nat /\ e > Round
    BY TimesAssumption, ElapsedAssumption DEF Shape
  <2>2. /\ r = RecalcForGap(h, e)
        /\ IsEmpty(r) /\ r.dur = h.dur
        /\ r.up = IF IsEmpty(h) THEN h.up ELSE OnGrid(h.last + e, h.dur)
    BY <2>1, GapEffect, GapTypes
  <2>3. ASSUME NEW p \in Sent, Of(p, g, k)
        PROVE  pkts[p].ts < r.up
    <3>1. CASE IsEmpty(h)
      BY <1>1, <2>2, <2>3, <3>1 DEF Order, Behind
    <3>2. CASE ~ IsEmpty(h)
      <4>1. ~ Busy(g, k)
        BY <1>2 DEF Busy
      <4> QED
        BY <2>2, <2>3, <3>2, <4>1 DEF Order, Behind
    <3> QED
      BY <3>1, <3>2
  <2>4. ASSUME NEW f \in Elapsed
        PROVE  OnGrid(r.up + f, r.dur) >= r.up
    <3>1. CASE IsEmpty(h)
      BY <1>1, <2>2, <3>1 DEF Order, Behind
    <3>2. CASE ~ IsEmpty(h)
      <4>1. h.last + e \in Nat /\ h.dur \in Nat
        BY <2>1, <3>2 DEF Handler, IsEmpty, None
      <4>2. f \in Nat /\ f > Round
        BY TimesAssumption, ElapsedAssumption
      <4>3. r.up = OnGrid(h.last + e, h.dur) /\ r.dur = h.dur
        BY <2>2, <3>2
      <4> HIDE DEF h, r
      <4> QED
        BY <4>1, <4>2, <4>3, GridStays
    <3> QED
      BY <3>1, <3>2
  <2>5. \A p \in Sent : Of(p, g, k)' => Of(p, g, k) /\ pkts'[p].ts = pkts[p].ts
    BY <1>3, <1>6 DEF Of, SameFields
  <2> QED
    BY <1>2, <2>2, <2>3, <2>4, <2>5 DEF Behind, IsEmpty
<1>8. InOrder(Sent)' /\ \A p \in Sent' : pkts'[p].g \in Running
  BY <1>2, <1>3, SentKept
<1> QED
  BY <1>1, <1>2, <1>3, <1>4, <1>5, <1>7, <1>8, OrderOthers

\* The packet kept leaves, and the offset a reconnection would set is past it.
LEMMA OrderSend ==
    ASSUME Shape, Control, Apart, Order, NEW g \in Running, Send(g)
    PROVE  Order'
<1>1. PICK k : k = pkts[cur[g]].k
  OBVIOUS
<1>2. PICK q : q = held[g][k]
  OBVIOUS
<1>3. /\ k \in Tracks /\ cur[g] \in Ids /\ q \in Ids /\ pkts' = pkts
      /\ oh[g][k].last \in Nat
      /\ Queued' = Queued \cup {q}
      /\ held'[g][k] = cur[g]
      /\ \A l \in Tracks : l # k => held'[g][l] = held[g][l]
      /\ \A h \in Running : h # g => held'[h] = held[h]
      /\ cur'[g] = NoPkt /\ \A h \in Running : h # g => cur'[h] = cur[h]
      /\ oh'[g][k].last = pkts[cur[g]].ts /\ oh'[g][k].dur = oh[g][k].dur
      /\ \A l \in Tracks : l # k => oh'[g][l] = oh[g][l]
      /\ \A h \in Running : h # g => oh'[h] = oh[h]
  BY <1>1, <1>2, SendEffect
<1>4. /\ Running' = Running /\ Sent' = Sent \cup {q} /\ pc'[g] = "loop" /\ pc[g] = "send"
      /\ \A h \in Running : h # g => pc'[h] = pc[h]
  BY <1>3 DEF Send, Running, Sent, Goto, Shape, others
<1>5. cur[g] # NoPkt /\ q # NoPkt
  BY <1>4, <1>3, Numbers DEF Control
<1>6. PICK t \in Int : t = pkts[cur[g]].ts
  BY <1>3, Numbers DEF Packet
<1>7. PICK s \in Nat, d \in Nat : s = oh[g][k].last /\ d = oh[g][k].dur
  BY <1>3 DEF Shape, Handler
<1>8. Of(q, g, k) /\ pkts[q].ts = s /\ t > s /\ q < cur[g] /\ ~ IsEmpty(oh[g][k])
  <2>1. Of(q, g, k) /\ pkts[q].ts = s
    BY <1>2, <1>3, <1>5, <1>7 DEF Control, Of
  <2>4. pkts[cur[g]].ts > oh[g][k].last
    BY <1>1, <1>5 DEF Control
  <2>2. ~ IsEmpty(oh[g][k])
    BY <1>2, <1>3, <1>5 DEF Control
  <2>3. q < cur[g]
    BY <1>1, <1>2, <1>5 DEF Order, Follower
  <2> QED
    BY <1>6, <1>7, <2>1, <2>2, <2>3, <2>4
<1>9. t \in Nat
  BY <1>6, <1>7, <1>8
<1>10. ASSUME NEW e \in Elapsed
       PROVE  s < OnGrid(t + e, d)
  <2>1. e \in Nat /\ e > Round /\ Round \in Nat
    BY TimesAssumption, ElapsedAssumption, RoundAssumption
  <2>2. CASE k = "video"
    <3>1. d = t - s
      BY <1>1, <1>5, <1>6, <1>7, <2>2 DEF Order, Follower
    <3>2. d \in Nat \ {0} /\ t + e = s + d + e
      BY <1>7, <1>8, <1>9, <2>1, <3>1
    <3> QED
      BY <1>7, <2>1, <3>2, GridAhead
  <2>3. CASE k # "video"
    <3>1. d \in Durations
      BY <1>1, <1>5, <1>7, <2>3 DEF Order, Follower
    <3>2. e > d + Round
      BY <3>1, ElapsedAssumption
    <3>3. t + e \in Nat
      BY <1>9, <2>1
    <3>4. OnGrid(t + e, d) \in Nat /\ OnGrid(t + e, d) > (t + e) - d - Round
      BY <1>7, <3>3, GridBounds
    <3> QED
      BY <1>7, <1>8, <1>9, <2>1, <3>2, <3>4
  <2> QED
    BY <2>2, <2>3
<1>11. ~ IsEmpty(oh'[g][k])
  BY <1>3, <1>6, <1>9 DEF IsEmpty, None
<1>12. ASSUME NEW p \in Sent, Of(p, g, k)
       PROVE  pkts[p].ts < s /\ p < q /\ pkts[p].ts \in Int /\ p \in Nat
  <2>1. p \in Ids
    BY SentIds
  <2>2. pkts[p].ts \in Int /\ p \in Nat
    BY <2>1, Numbers DEF Packet
  <2>3. p < held[g][k] /\ pkts[p].ts < oh[g][k].last
    BY <1>3, <1>8, <1>12 DEF Order, Behind
  <2> QED
    BY <1>2, <1>7, <2>2, <2>3
<1>13. Behind(g, k)'
  <2>1. ASSUME NEW p \in Sent', Of(p, g, k)
        PROVE  /\ p < cur[g] /\ pkts[p].ts < t
               /\ \A e \in Elapsed : pkts[p].ts < OnGrid(t + e, d)
    <3>1. /\ p \in Nat /\ q \in Nat /\ cur[g] \in Nat
          /\ \A e \in Elapsed : OnGrid(t + e, d) \in Nat
      <4>1. \A e \in Elapsed : t + e \in Nat
        BY <1>9, TimesAssumption
      <4>2. p \in Nat /\ q \in Nat /\ cur[g] \in Nat
        BY <1>3, <1>4, <1>12, <2>1, Numbers
      <4>3. \A e \in Elapsed : OnGrid(t + e, d) \in Nat
        BY <1>7, <4>1, GridBounds
      <4> QED
        BY <4>2, <4>3
    <3>2. p <= q /\ pkts[p].ts <= s /\ pkts[p].ts \in Int
      BY <1>4, <1>7, <1>8, <1>12, <2>1, <3>1
    <3> QED
      BY <1>6, <1>7, <1>8, <1>10, <3>1, <3>2
  <2>2. \A p : Of(p, g, k)' => Of(p, g, k)
    BY <1>3 DEF Of
  <2> QED
    BY <1>3, <1>6, <1>7, <1>11, <2>1, <2>2 DEF Behind, IsEmpty
<1>14. ASSUME NEW l \in Tracks
       PROVE  Behind(g, l)'
  <2>1. CASE l # k
    <3>1. ~ Busy(g, l)
      BY <1>1, <2>1 DEF Busy
    <3>2. ~ Of(q, g, l)'
      BY <1>3, <1>8, <2>1 DEF Of
    <3>3. Behind(g, l) /\ SameFields(Ids)
      BY <1>3 DEF Order, SameFields
    <3> QED
      BY <1>3, <1>4, <2>1, <3>1, <3>2, <3>3, BehindKept
  <2> QED
    BY <1>13, <2>1
<1>15. InOrder(Sent)'
  <2>1. ASSUME NEW p \in Sent, SameTrack(p, q)
        PROVE  pkts[p].ts < s /\ p < q /\ p \in Nat
    <3>1. Of(p, g, k)
      BY <1>8, <2>1 DEF SameTrack, Of
    <3> QED
      BY <1>12, <3>1
  <2>2. q \in Nat
    BY <1>3, Numbers
  <2>3. ASSUME NEW p \in Sent', NEW r \in Sent', p < r, SameTrack(p, r)
        PROVE  pkts[p].ts < pkts[r].ts
    <3>1. CASE r = q /\ p # q
      BY <1>4, <1>8, <2>1, <2>3, <3>1
    <3>2. CASE p = q
      <4>1. q < r /\ r # q /\ r \in Sent
        BY <1>4, <2>2, <2>3, <3>2
      <4>2. SameTrack(r, q)
        BY <2>3, <3>2 DEF SameTrack
      <4>3. r < q /\ r \in Nat
        BY <2>1, <4>1, <4>2
      <4> QED
        BY <2>2, <4>1, <4>3
    <3>3. CASE r # q /\ p # q
      BY <1>4, <2>3, <3>3 DEF Order, InOrder
    <3> QED
      BY <3>1, <3>2, <3>3
  <2> QED
    BY <1>3, <2>3 DEF InOrder, SameTrack
<1>16. \A p \in Sent' : pkts'[p].g \in Running /\ (p \in Sent \/ pkts'[p].g = g)
  BY <1>3, <1>4, <1>8 DEF Order, Of
<1>17. Follower(g)' /\ SameFields(Ids)
  BY <1>3 DEF Follower, SameFields
<1> QED
  BY <1>3, <1>4, <1>14, <1>15, <1>16, <1>17, OrderOthers

\* A packet read is kept behind all that was sent, refused, or taken in hand.
LEMMA OrderRead ==
    ASSUME Shape, Control, Order, NEW g \in Running, NEW k \in Tracks, NEW raw \in RawTimes,
           NEW d \in Durations, ReadPacket(g, k, raw, d)
    PROVE  Order'
<1>1. PICK p \in Packet, h \in Handler :
            /\ Arrival(g, k, p, h)
            /\ Keeps(g, k, p, h) \/ Refuses(g, k, p, h) \/ Follows(g, k, p, h)
  BY ReadEffect
<1>2. PICK id : id = Len(pkts) + 1
  OBVIOUS
<1>3. /\ UNCHANGED <<src, taken, packets>> /\ Running' = Running /\ Sent' = Sent
      /\ pkts' = Append(pkts, p) /\ pc[g] = "read"
      /\ p.g = g /\ p.k = k /\ p.dur \in Durations
      /\ oh' = [oh EXCEPT ![g] = [@ EXCEPT ![k] = h]]
  BY <1>1 DEF Arrival, Running, Sent, Queued
<1>4. /\ oh'[g][k] = h /\ \A l \in Tracks : l # k => oh'[g][l] = oh[g][l]
      /\ \A j \in Running : j # g => oh'[j] = oh[j]
  BY <1>3 DEF Shape
<1>5. /\ id \notin Ids /\ id # NoPkt /\ pkts'[id] = p
      /\ \A i \in Ids : pkts'[i] = pkts[i] /\ i < id
  BY <1>2, <1>3, ArrivedFields
<1>6. cur[g] = NoPkt /\ (\A l \in Tracks : ~ Busy(g, l)) /\ SameFields(Ids)
  BY <1>3, <1>5 DEF Control, Busy, SameFields
<1>7. Sent \subseteq Ids
  BY SentIds
<1>8. InOrder(Sent)' /\ \A q \in Sent' : pkts'[q].g \in Running
  BY <1>3, <1>6, SentKept
<1>9. \A q \in Sent : pkts'[q] = pkts[q] /\ (Of(q, g, k)' => Of(q, g, k))
  BY <1>5, <1>7 DEF Of
<1>10. h.last \in Nat \cup {None} /\ h.dur \in Nat /\ oh[g][k].up \in Nat
  BY DEF Shape, Handler
<1>11. ASSUME NEW l \in Tracks, l # k, held'[g][l] = held[g][l], pc'[g] # "ended"
       PROVE  Behind(g, l)'
  <2>1. Behind(g, l)
    BY DEF Order
  <2>2. pc[g] # "ended"
    BY <1>3
  <2> QED
    BY <1>3, <1>4, <1>6, <1>11, <2>1, <2>2, BehindKept
<1>12. CASE Keeps(g, k, p, h)
  <2>1. /\ IsEmpty(oh[g][k]) /\ h.last = oh[g][k].up /\ h.dur = oh[g][k].dur /\ cur' = cur
        /\ held'[g][k] = id /\ \A l \in Tracks : l # k => held'[g][l] = held[g][l]
        /\ \A j \in Running : j # g => held'[j] = held[j] /\ pc'[j] = pc[j]
        /\ pc'[g] = "loop"
    BY <1>2, <1>12 DEF Keeps, Shape
  <2>2. ~ IsEmpty(h)
    BY <1>10, <2>1 DEF IsEmpty, None
  <2>3. ASSUME NEW q \in Sent, Of(q, g, k)
        PROVE  /\ q < id /\ pkts[q].ts < h.last
               /\ \A e \in Elapsed : pkts[q].ts < OnGrid(h.last + e, h.dur)
    <3>1. q \in Ids /\ pkts[q].ts \in Int /\ q < id
      BY <1>5, <1>7, Numbers DEF Packet
    <3>2. pkts[q].ts < h.last
      BY <1>3, <2>1, <2>3 DEF Order, Behind
    <3>3. ASSUME NEW e \in Elapsed
          PROVE  OnGrid(h.last + e, h.dur) \in Nat /\ OnGrid(h.last + e, h.dur) >= h.last
      <4>1. h.last + e \in Nat
        BY <1>10, <2>1, TimesAssumption
      <4> QED
        BY <1>3, <1>10, <2>1, <4>1, GridBounds DEF Order, Behind
    <3>4. h.last \in Nat
      BY <1>10, <2>1
    <3> QED
      BY <3>1, <3>2, <3>3, <3>4
  <2>4. Behind(g, k)'
    BY <1>3, <1>4, <1>9, <2>1, <2>2, <2>3 DEF Behind, IsEmpty
  <2>5. Follower(g)'
    BY <1>6, <2>1 DEF Follower
  <2> QED
    BY <1>3, <1>4, <1>6, <1>8, <1>11, <2>1, <2>4, <2>5, OrderOthers
<1>13. CASE Refuses(g, k, p, h)
  <2>1. /\ ~ IsEmpty(oh[g][k]) /\ h.last = oh[g][k].last /\ h.dur = oh[g][k].dur
        /\ cur' = cur /\ held' = held /\ pc'[g] = "loop"
        /\ \A j \in Running : j # g => pc'[j] = pc[j]
    BY <1>13 DEF Refuses, Shape
  <2>2. ~ IsEmpty(h)
    BY <2>1 DEF IsEmpty
  <2>3. ASSUME NEW q \in Sent, Of(q, g, k)
        PROVE  /\ q < held[g][k] /\ pkts[q].ts < h.last
               /\ \A e \in Elapsed : pkts[q].ts < OnGrid(h.last + e, h.dur)
    BY <1>6, <2>1, <2>3 DEF Order, Behind
  <2>4. Behind(g, k)'
    BY <1>3, <1>4, <1>9, <2>1, <2>2, <2>3 DEF Behind, IsEmpty
  <2>5. Follower(g)'
    BY <1>6, <2>1 DEF Follower
  <2> QED
    BY <1>3, <1>4, <1>6, <1>8, <1>11, <2>1, <2>4, <2>5, OrderOthers
<1>14. CASE Follows(g, k, p, h)
  <2>1. /\ ~ IsEmpty(oh[g][k]) /\ h.last = oh[g][k].last
        /\ IF k = "video" THEN h.dur = p.ts - h.last ELSE h.dur \in Durations
        /\ held' = held /\ pc'[g] = "send" /\ cur'[g] = id
        /\ \A j \in Running : j # g => pc'[j] = pc[j] /\ cur'[j] = cur[j]
    BY <1>2, <1>14 DEF Follows, Shape
  <2>2. ~ IsEmpty(h)
    BY <2>1 DEF IsEmpty
  <2>3. \A q \in Sent : Of(q, g, k) => q < held[g][k] /\ pkts[q].ts < h.last
    BY <2>1 DEF Order, Behind
  <2>4. Busy(g, k)'
    BY <1>3, <1>5, <2>1 DEF Busy
  <2>5. Behind(g, k)'
    BY <1>3, <1>4, <1>9, <2>1, <2>2, <2>3, <2>4 DEF Behind, IsEmpty
  <2>6. held[g][k] < id
    <3>1. held[g][k] \in Ids
      BY <2>1 DEF Control, Shape
    <3> QED
      BY <1>5, <3>1
  <2>7. pkts'[cur'[g]].k = k /\ pkts'[cur'[g]].ts = p.ts
    BY <1>3, <1>5, <2>1
  <2>8. Follower(g)'
    BY <1>4, <2>1, <2>6, <2>7 DEF Follower
  <2> QED
    BY <1>3, <1>4, <1>6, <1>8, <1>11, <2>1, <2>5, <2>8, OrderOthers
<1> QED
  BY <1>1, <1>12, <1>13, <1>14

\* Every step keeps the order.
LEMMA OrderStep ==
    ASSUME Shape, Control, Apart, Order, [Next]_vars
    PROVE  Order'
<1> USE DEF gvars, others
<1>1. CASE Receive
  <2>1. /\ packets # <<>> /\ packets' = Tail(packets) /\ taken' = taken \cup {Head(packets)}
        /\ UNCHANGED <<src, pc, cur, oh, held, pkts>>
    BY <1>1 DEF Receive
  <2>2. Sent' \subseteq Sent
    BY <2>1, HeadApart DEF Sent
  <2> QED
    BY <2>1, <2>2, OrderFrame DEF SameFields
<1>2. CASE ReleaseDrain
  <2>1. /\ packets # <<>> /\ packets' = Tail(packets) /\ taken' = taken
        /\ pkts' = Released(pkts, {Head(packets)})
        /\ UNCHANGED <<src, pc, cur, oh, held>>
    BY <1>2 DEF ReleaseDrain, ReleaseAll
  <2>2. Sent' \subseteq Sent
    BY <2>1, HeadApart DEF Sent
  <2>3. SameFields(Ids)
    BY <2>1, ReleasedFields DEF SameFields
  <2> QED
    BY <2>1, <2>2, <2>3, OrderFrame
<1>3. CASE CloseReader \/ ReleaseBegin \/ ReleaseEnd \/ UNCHANGED vars
           \/ \E u \in Urls : StepRemove(u)
  <2>1. UNCHANGED <<src, pc, cur, oh, held, pkts, packets, taken>>
    BY <1>3 DEF CloseReader, ReleaseBegin, ReleaseEnd, StepRemove, vars
  <2>2. Sent' \subseteq Sent /\ SameFields(Ids)
    BY <2>1 DEF Sent, Queued, SameFields
  <2> QED
    BY <2>1, <2>2, OrderFrame
<1>4. ASSUME NEW u \in Urls, StepAdd(u)
      PROVE  Order'
  <2>0. PICK n : n = Len(src) + 1
    OBVIOUS
  <2>1. /\ Running' = Running \cup {n} /\ n \notin Running
        /\ pc'[n] = "loop" /\ cur'[n] = NoPkt
        /\ oh'[n] = [k \in Tracks |-> NewHandler] /\ held'[n] = [k \in Tracks |-> NoPkt]
        /\ \A g \in Running : /\ pc'[g] = pc[g] /\ cur'[g] = cur[g]
                              /\ oh'[g] = oh[g] /\ held'[g] = held[g]
    BY <1>4, <2>0, AddEffect
  <2>2. pkts' = pkts /\ Sent' = Sent /\ SameFields(Ids)
    BY <1>4 DEF StepAdd, Sent, Queued, SameFields
  <2>3. InOrder(Sent)' /\ \A p \in Sent' : pkts'[p].g \in Running'
    BY <2>1, <2>2, SentKept
  <2>4. \A g \in Running : Follower(g)'
    BY <2>1, <2>2, FollowerKept DEF Order
  <2>5. Follower(n)'
    BY <2>1 DEF Follower
  <2>6. ASSUME NEW g \in Running, NEW k \in Tracks
        PROVE  Behind(g, k)'
    <3>1. (Busy(g, k) => Busy(g, k)') /\ Behind(g, k)
      BY <2>1, <2>2 DEF Busy, Order
    <3> QED
      BY <2>1, <2>2, <3>1, BehindKept
  <2>7. ASSUME NEW k \in Tracks
        PROVE  Behind(n, k)'
    <3>1. \A p \in Sent' : ~ Of(p, n, k)'
      BY <2>1, <2>2 DEF Of, Order
    <3>2. oh'[n][k].up = 0 /\ oh'[n][k].dur = 0 /\ IsEmpty(oh'[n][k])
      BY <2>1 DEF NewHandler, IsEmpty
    <3>3. \A e \in Elapsed : 0 + e \in Nat /\ OnGrid(0 + e, 0) \in Nat
      BY TimesAssumption, GridBounds
    <3> QED
      BY <3>1, <3>2, <3>3 DEF Behind
  <2> QED
    BY <2>1, <2>3, <2>4, <2>5, <2>6, <2>7 DEF Order
<1>5. ASSUME NEW g \in Running, pc'[g] = "ended", cur'[g] = NoPkt, ClearHeld(g), ClearLast(g),
             NEW S, pkts' = Released(pkts, S),
             UNCHANGED <<src, packets, taken>>,
             \A h \in Running : h # g => pc'[h] = pc[h] /\ cur'[h] = cur[h]
      PROVE  Order'
  <2>1. /\ \A k \in Tracks : IsEmpty(oh'[g][k])
        /\ \A h \in Running : h # g => held'[h] = held[h] /\ oh'[h] = oh[h]
    BY <1>5, ClearTypes
  <2>2. Sent' = Sent /\ SameFields(Ids) /\ Running' = Running
    BY <1>5, ReleasedFields DEF SameFields, Sent, Queued, Running
  <2>3. InOrder(Sent)' /\ \A p \in Sent' : pkts'[p].g \in Running
    BY <2>2, SentKept
  <2>4. Follower(g)' /\ \A k \in Tracks : Behind(g, k)'
    BY <1>5, <2>1, BehindEnded DEF Follower
  <2> QED
    BY <1>5, <2>1, <2>2, <2>3, <2>4, OrderOthers
<1>6. ASSUME NEW g \in Running, pc[g] # "ended", pc'[g] # "ended",
             UNCHANGED <<src, cur, oh, held, pkts, packets, taken>>,
             \A h \in Running : h # g => pc'[h] = pc[h]
      PROVE  Order'
  <2>1. Sent' = Sent /\ SameFields(Ids) /\ Running' = Running
    BY <1>6 DEF SameFields, Sent, Queued, Running
  <2>2. InOrder(Sent)' /\ \A p \in Sent' : pkts'[p].g \in Running
    BY <2>1, SentKept
  <2>3. ASSUME NEW k \in Tracks
        PROVE  Behind(g, k)'
    <3>1. (Busy(g, k) => Busy(g, k)') /\ Behind(g, k)
      BY <1>6 DEF Busy, Order
    <3> QED
      BY <1>6, <2>1, <3>1, BehindKept
  <2>4. Follower(g)'
    BY <1>6, <2>1, FollowerKept DEF Order
  <2> QED
    BY <1>6, <2>1, <2>2, <2>3, <2>4, OrderOthers
<1>7. ASSUME NEW g \in Running, Loop(g)
      PROVE  Order'
  <2>1. /\ UNCHANGED <<src, packets, taken>> /\ cur' = cur /\ pc[g] = "loop"
        /\ \A h \in Running : h # g => pc'[h] = pc[h]
    BY <1>7 DEF Loop, Goto, Shape
  <2>2. cur[g] = NoPkt
    BY <2>1 DEF Control
  <2>3. CASE g \in stop
    <3>1. /\ pkts' = Released(pkts, HeldBy(g)) /\ ClearHeld(g) /\ ClearLast(g)
          /\ pc'[g] = "ended"
      BY <1>7, <2>3 DEF Loop, ReleaseAll, ClearHeld, ClearLast, Goto, Shape
    <3> QED
      BY <1>5, <2>1, <2>2, <3>1
  <2>4. CASE g \notin stop
    <3>1. UNCHANGED <<pkts, oh, held>> /\ pc'[g] = "read"
      BY <1>7, <2>4 DEF Loop, Goto, Shape
    <3> QED
      BY <1>6, <2>1, <3>1
  <2> QED
    BY <2>3, <2>4
<1>8. ASSUME NEW g \in Running, SendStopped(g)
      PROVE  Order'
  <2>1. /\ UNCHANGED <<src, packets, taken>> /\ pc'[g] = "ended" /\ cur'[g] = NoPkt
        /\ \A h \in Running : h # g => pc'[h] = pc[h] /\ cur'[h] = cur[h]
        /\ pkts' = Released(pkts, HeldBy(g) \cup {cur[g]}) /\ ClearHeld(g) /\ ClearLast(g)
    BY <1>8 DEF SendStopped, ReleaseAll, ClearHeld, ClearLast, Goto, Shape
  <2> QED
    BY <1>5, <2>1
<1>9. ASSUME NEW g \in Running, ReadFails(g) \/ Retry(g) \/ DemuxerPanics(g)
      PROVE  Order'
  <2>1. /\ UNCHANGED <<src, cur, oh, held, pkts, packets, taken>>
        /\ pc[g] # "ended" /\ pc'[g] # "ended"
        /\ \A h \in Running : h # g => pc'[h] = pc[h]
    BY <1>9 DEF ReadFails, Retry, DemuxerPanics, Goto, Shape
  <2> QED
    BY <1>6, <2>1
<1> QED
  BY <1>1, <1>2, <1>3, <1>4, <1>7, <1>8, <1>9, OrderReconnected, OrderSend, OrderRead
  DEF Next, Step, Repack

-----------------------------------------------------------------------------
(* The theorems *)

\* All layers hold together: the state of the reader in every behaviour, for
\* any sources, capacity of the channel and times.
THEOREM InductiveInvariant == Spec => []IInv
<1>1. Init => IInv
  BY ShapeInit, StopsInit, ControlInit, OwnershipInit, OrderInit DEF IInv
<1>2. IInv /\ [Next]_vars => IInv'
  <2> SUFFICES ASSUME IInv, [Next]_vars PROVE IInv'
    OBVIOUS
  <2>1. Shape /\ Stops /\ Control /\ Apart /\ Released1 /\ Order
    BY DEF IInv
  <2>2. Shape' /\ Control' /\ Stops'
    BY <2>1, ShapeStep, ControlStep, StopsStep
  <2>3. Apart' /\ Released1' /\ Order'
    BY <2>1, OwnershipStep, OrderStep
  <2> QED
    BY <2>2, <2>3 DEF IInv
<1> QED
  BY <1>1, <1>2, PTL DEF Spec

\* A set of at most one element has none or one.
LEMMA AtMostOne ==
    ASSUME NEW A, \A x, y \in A : x = y
    PROVE  Cardinality(A) = IF A = {} THEN 0 ELSE 1
<1>1. CASE A = {}
  BY <1>1, FS_EmptySet
<1>2. ASSUME NEW x \in A
      PROVE  Cardinality(A) = 1
  <2>1. A = {x}
    OBVIOUS
  <2> QED
    BY <2>1, FS_Singleton
<1> QED
  BY <1>1, <1>2

\* The places of a packet, counted, are one place or none.
LEMMA PlacesCounted ==
    ASSUME Shape, Apart, NEW p \in Ids
    PROVE  Holders(p) = IF Owned(p) THEN 1 ELSE 0
<1> DEFINE A == {g \in Running : cur[g] = p}
           B == {x \in Running \X Tracks : held[x[1]][x[2]] = p}
           C == {i \in 1 .. Len(packets) : packets[i] = p}
<1>1. p # NoPkt
  BY Numbers
<1>2. /\ \A g, h \in A : g = h
      /\ \A i, j \in C : i = j
  BY <1>1 DEF Apart
<1>3. ASSUME NEW x \in B, NEW y \in B
      PROVE  x = y
  <2>1. /\ x = <<x[1], x[2]>> /\ x[1] \in Running /\ x[2] \in Tracks /\ held[x[1]][x[2]] = p
        /\ y = <<y[1], y[2]>> /\ y[1] \in Running /\ y[2] \in Tracks /\ held[y[1]][y[2]] = p
    OBVIOUS
  <2>2. x[1] = y[1] /\ x[2] = y[2]
    BY <1>1, <2>1 DEF Apart
  <2> QED
    BY <2>1, <2>2
<1>4. /\ InHand(p) <=> A # {}
      /\ p \in Queued <=> C # {}
  BY DEF InHand, Queued
<1>5. Kept(p) <=> B # {}
  <2>1. ASSUME NEW g \in Running, NEW k \in Tracks, held[g][k] = p
        PROVE  <<g, k>> \in B
    BY <2>1
  <2>2. ASSUME NEW x \in B
        PROVE  Kept(p)
    BY DEF Kept
  <2> QED
    BY <2>1, <2>2 DEF Kept
<1>6. /\ Cardinality(A) = IF InHand(p) THEN 1 ELSE 0
      /\ Cardinality(B) = IF Kept(p) THEN 1 ELSE 0
      /\ Cardinality(C) = IF p \in Queued THEN 1 ELSE 0
  <2> HIDE DEF A, B, C
  <2> QED
    BY <1>2, <1>3, <1>4, <1>5, AtMostOne
<1>7. Holders(p) = Cardinality(A) + Cardinality(B) + Cardinality(C) + (IF p \in taken THEN 1 ELSE 0)
  BY DEF Holders
<1>8. /\ ~ (InHand(p) /\ Kept(p)) /\ ~ (InHand(p) /\ p \in Sent) /\ ~ (Kept(p) /\ p \in Sent)
      /\ ~ (p \in Queued /\ p \in taken)
  BY <1>1 DEF InHand, Kept, Queued, Apart
<1> HIDE DEF A, B, C
<1> QED
  BY <1>6, <1>7, <1>8 DEF Owned, Sent

\* Whatever the goroutines, the reconnections, the removals and the drain of
\* Release do, every packet read is in one place or was released once.
THEOREM PacketsHaveOneOwner == Spec => []OneOwnerUntilReleased
<1>1. ASSUME IInv
      PROVE  OneOwnerUntilReleased
  <2> SUFFICES ASSUME NEW p \in Ids
               PROVE  Holders(p) + pkts[p].releases = 1
    BY DEF OneOwnerUntilReleased
  <2>1. Holders(p) = IF Owned(p) THEN 1 ELSE 0
    BY <1>1, PlacesCounted DEF IInv
  <2>2. pkts[p].releases = IF Owned(p) THEN 0 ELSE 1
    BY <1>1 DEF IInv, Released1
  <2> QED
    BY <2>1, <2>2
<1> QED
  BY <1>1, InductiveInvariant, PTL

\* A source told to stop sends at most one more packet, and no stop channel is
\* closed twice.
THEOREM SourcesStop == Spec => []StopsAreSound
<1>1. ASSUME IInv
      PROVE  StopsAreSound
  <2>1. Shape /\ Stops
    BY <1>1 DEF IInv
  <2>2. ASSUME NEW g \in Running
        PROVE  late[g] <= 1
    <3>1. late[g] \in Nat
      BY <2>1 DEF Shape
    <3>2. late[g] > 0 => late[g] = 1
      BY <2>1 DEF Stops
    <3> QED
      BY <3>1, <3>2
  <2> QED
    BY <2>1, <2>2 DEF Stops, StopsAreSound
<1> QED
  BY <1>1, InductiveInvariant, PTL

\* The timestamps of a track rise from packet to packet in the channel, however
\* often its source reconnects or its clock wraps.
THEOREM TimestampsOnlyRise == Spec => []TimestampsRise
<1>1. ASSUME IInv
      PROVE  TimestampsRise
  <2>1. Shape /\ Control /\ Order
    BY <1>1 DEF IInv
  <2>2. ASSUME NEW p \in Outgoing
        PROVE  p \in Sent \/ (\E g \in Running, k \in Tracks : p = held[g][k] /\ p # NoPkt)
    BY DEF Outgoing, Sent, Queued, HeldBy
  <2>3. ASSUME NEW g \in Running, NEW k \in Tracks, held[g][k] # NoPkt
        PROVE  /\ held[g][k] \in Ids /\ Of(held[g][k], g, k)
               /\ pkts[held[g][k]].ts = oh[g][k].last /\ ~ IsEmpty(oh[g][k])
    BY <2>1, <2>3 DEF Shape, Control, Of
  <2>4. ASSUME NEW p \in Sent, NEW g \in Running, NEW k \in Tracks, held[g][k] # NoPkt,
               SameTrack(p, held[g][k]) \/ SameTrack(held[g][k], p)
        PROVE  p < held[g][k] /\ pkts[p].ts < pkts[held[g][k]].ts
    <3>1. Of(p, g, k)
      BY <2>3, <2>4 DEF Of, SameTrack
    <3> QED
      BY <2>1, <2>3, <2>4, <3>1 DEF Order, Behind
  <2>5. ASSUME NEW p \in Outgoing, NEW q \in Outgoing, p < q, SameTrack(p, q)
        PROVE  pkts[p].ts < pkts[q].ts
    <3>1. CASE p \in Sent /\ q \in Sent
      BY <2>1, <2>5, <3>1 DEF Order, InOrder
    <3>2. CASE q \notin Sent
      <4>1. PICK g \in Running, k \in Tracks : q = held[g][k] /\ q # NoPkt
        BY <2>2, <3>2
      <4>2. CASE p \in Sent
        BY <2>4, <2>5, <4>1, <4>2
      <4>3. CASE p \notin Sent
        <5>1. PICK h \in Running, l \in Tracks : p = held[h][l] /\ p # NoPkt
          BY <2>2, <4>3
        <5>2. h = g /\ l = k
          BY <2>3, <2>5, <4>1, <5>1 DEF SameTrack, Of
        <5>3. p = q /\ q \in Nat
          BY <2>1, <2>3, <4>1, <5>1, <5>2, Numbers
        <5> QED
          BY <2>5, <5>3
      <4> QED
        BY <4>2, <4>3
    <3>3. CASE p \notin Sent /\ q \in Sent
      <4>1. PICK g \in Running, k \in Tracks : p = held[g][k] /\ p # NoPkt
        BY <2>2, <3>3
      <4>2. q < p
        BY <2>4, <2>5, <3>3, <4>1
      <4>3. p \in Nat /\ q \in Nat
        BY <2>1, <2>3, <3>3, <4>1, SentIds, Numbers
      <4> QED
        BY <2>5, <4>2, <4>3
    <3> QED
      BY <3>1, <3>2, <3>3
  <2> QED
    BY <2>5 DEF TimestampsRise
<1> QED
  BY <1>1, InductiveInvariant, PTL

-----------------------------------------------------------------------------
(* The RTSP demuxer, whose packets the reader is given *)

CONSTANTS Schemes, MaxTries, Tls, Slashed, Offers, Skipped, MaxFrames, MaxMade, QuietLimit
VARIABLES conn, seq, auth, call, plan, asked, wire,
          dpc, sdp, tracks, chan, depac, queued, frame, quiet, due, got, upset, fate

Demuxer == INSTANCE RTSPDemuxer WITH pc <- dpc, packets <- queued

DemuxIInv ==
    /\ queued \in Seq(Nat)
    /\ fate \in [made : Nat, gone : Nat, nils : Nat]
    /\ Demuxer!PacketsOwnedOnce

\* The module's Cardinality is that of this one.
LEMMA SameCardinality ==
    ASSUME NEW S
    PROVE  Demuxer!Cardinality(S) = Cardinality(S)
BY DEF Demuxer!Cardinality, Cardinality

\* The packets in the queue are the elements of it that are not nil.
LEMMA RealIsCount ==
    ASSUME NEW q \in Seq(Nat)
    PROVE  /\ Demuxer!Cardinality(Demuxer!Real(q)) = CountIn(q, Nat \ {0})
           /\ CountIn(q, Nat \ {0}) \in Nat
<1>1. Demuxer!Real(q) = PlacesIn(q, Nat \ {0})
  <2>1. \A i \in DOMAIN q : q[i] \in Nat
    OBVIOUS
  <2> QED
    BY <2>1 DEF Demuxer!Real, Demuxer!Nil, PlacesIn
<1> QED
  BY <1>1, CountType, SameCardinality DEF CountIn

\* The invariant in these terms.
LEMMA OwnedIsCount ==
    ASSUME queued \in Seq(Nat)
    PROVE  Demuxer!PacketsOwnedOnce <=>
              /\ fate.made = fate.gone + CountIn(queued, Nat \ {0})
              /\ dpc = "closed" => queued = <<>>
BY RealIsCount DEF Demuxer!PacketsOwnedOnce

\* What neither queues a packet nor takes one.
LEMMA QuietStep ==
    ASSUME DemuxIInv, UNCHANGED <<queued, fate>>, dpc' = dpc \/ dpc' # "closed"
    PROVE  DemuxIInv'
<1>1. Demuxer!Real(queued)' = Demuxer!Real(queued)
  BY DEF Demuxer!Real
<1> QED
  BY <1>1 DEF DemuxIInv, Demuxer!PacketsOwnedOnce

\* The first packet, if it is not nil, is the caller's.
LEMMA PopStep ==
    ASSUME DemuxIInv, Demuxer!PopPacket, dpc # "closed", dpc' # "closed"
    PROVE  DemuxIInv'
<1>1. CASE queued = <<>>
  BY <1>1, QuietStep DEF Demuxer!PopPacket
<1>2. CASE queued # <<>>
  <2>1. queued \in Seq(Nat) /\ queued' = Tail(queued) /\ Head(queued) \in Nat
    BY <1>2 DEF DemuxIInv, Demuxer!PopPacket
  <2>2. PICK q \in Seq(Nat) : q = Tail(queued)
    BY <1>2, <2>1, HeadTailProperties
  <2>3. PICK k \in Nat : k = CountIn(q, Nat \ {0})
    BY CountType
  <2>4. CountIn(queued, Nat \ {0}) = (IF Head(queued) \in Nat \ {0} THEN 1 ELSE 0) + k
    BY <1>2, <2>1, <2>2, <2>3, CountTail
  <2>5. fate.made = fate.gone + CountIn(queued, Nat \ {0})
    BY <2>1, OwnedIsCount DEF DemuxIInv
  <2>6. fate' = [fate EXCEPT !.gone = IF Head(queued) = 0 THEN @ ELSE @ + 1]
    BY <1>2 DEF Demuxer!PopPacket, Demuxer!Nil
  <2>7. fate' \in [made : Nat, gone : Nat, nils : Nat] /\ fate'.made = fate'.gone + k
    <3>1. PICK m \in Nat, g \in Nat, n \in Nat : fate = [made |-> m, gone |-> g, nils |-> n]
      BY DEF DemuxIInv
    <3>2. CASE Head(queued) = 0
      <4>1. fate' = [made |-> m, gone |-> g, nils |-> n]
        BY <2>6, <3>1, <3>2
      <4>2. m = g + k
        BY <2>3, <2>4, <2>5, <3>1, <3>2
      <4> QED
        BY <4>1, <4>2
    <3>3. CASE Head(queued) # 0
      <4>1. fate' = [made |-> m, gone |-> g + 1, nils |-> n]
        BY <2>6, <3>1, <3>3
      <4>2. m = (g + 1) + k
        BY <2>1, <2>3, <2>4, <2>5, <3>1, <3>3
      <4> QED
        BY <3>1, <4>1, <4>2
    <3> QED
      BY <3>2, <3>3
  <2>8. /\ Demuxer!Cardinality(Demuxer!Real(queued))' = k
        /\ queued' \in Seq(Nat)
    <3>1. Demuxer!Cardinality(Demuxer!Real(q)) = k
      BY <2>3, RealIsCount
    <3> QED
      BY <2>1, <2>2, <3>1 DEF Demuxer!Real
  <2> QED
    BY <2>7, <2>8 DEF DemuxIInv, Demuxer!PacketsOwnedOnce
<1> QED
  BY <1>1, <1>2

\* Packets are made and queued behind the others, whether an error follows or not; or
\* a nil is.
LEMMA DepacketizeStep ==
    ASSUME DemuxIInv, Demuxer!Depacketize
    PROVE  DemuxIInv'
<1>1. PICK m \in Nat, g \in Nat, n \in Nat : m = fate.made /\ g = fate.gone /\ n = fate.nils
  BY DEF DemuxIInv
<1>2. queued \in Seq(Nat) /\ m = g + CountIn(queued, Nat \ {0})
  BY <1>1, OwnedIsCount DEF DemuxIInv
<1>3. dpc' # "closed"
  BY DEF Demuxer!Depacketize
<1>4. CASE \E k \in 0 .. 2 : /\ queued' = queued \o [i \in 1 .. k |-> fate.made + i]
                            /\ fate' = [fate EXCEPT !.made = @ + k]
  <2>1. PICK k \in 0 .. 2 : /\ queued' = queued \o [i \in 1 .. k |-> m + i]
                           /\ fate' = [fate EXCEPT !.made = @ + k]
    BY <1>1, <1>4
  <2>2. PICK r : r = [i \in 1 .. k |-> m + i]
    OBVIOUS
  <2>3. r \in Seq(Nat) /\ Len(r) = k /\ DOMAIN r = 1 .. k
    BY <1>1, <2>2
  <2>4. \A i \in DOMAIN r : r[i] \in Nat \ {0}
    BY <1>1, <2>2, <2>3
  <2>5. CountIn(r, Nat \ {0}) = k
    BY <2>3, <2>4, CountAll
  <2>6. CountIn(queued \o r, Nat \ {0}) = CountIn(queued, Nat \ {0}) + k
    BY <1>2, <2>3, <2>5, CountConcat
  <2>7. PICK q \in Seq(Nat) : q = queued \o r
    BY <1>2, <2>3, ConcatProperties
  <2>8. Demuxer!Cardinality(Demuxer!Real(q)) = CountIn(q, Nat \ {0})
    BY RealIsCount
  <2>9. PICK c \in Nat : c = CountIn(queued, Nat \ {0})
    BY <1>2, CountType
  <2>10. Demuxer!Cardinality(Demuxer!Real(queued))' = c + k /\ queued' \in Seq(Nat)
    BY <2>1, <2>2, <2>6, <2>7, <2>8, <2>9 DEF Demuxer!Real
  <2>11. /\ fate' \in [made : Nat, gone : Nat, nils : Nat]
         /\ fate'.made = m + k /\ fate'.gone = g
    <3>1. fate' = [made |-> m + k, gone |-> g, nils |-> n]
      BY <1>1, <2>1 DEF DemuxIInv
    <3> QED
      BY <1>1, <3>1
  <2>12. fate'.made = fate'.gone + (c + k)
    BY <1>1, <1>2, <2>9, <2>11
  <2> QED
    BY <1>3, <2>10, <2>11, <2>12 DEF DemuxIInv, Demuxer!PacketsOwnedOnce
<1>5. CASE queued' = Append(queued, Demuxer!Nil) /\ fate' = [fate EXCEPT !.nils = @ + 1]
  <2>1. PICK q \in Seq(Nat) : q = Append(queued, 0)
    BY <1>2, AppendProperties
  <2>2. PICK c \in Nat : c = CountIn(queued, Nat \ {0})
    BY <1>2, CountType
  <2>3. CountIn(Append(queued, 0), Nat \ {0}) = CountIn(queued, Nat \ {0}) + 0
    BY <1>2, CountAppend
  <2>4. Demuxer!Cardinality(Demuxer!Real(q)) = c
    <3>1. CountIn(q, Nat \ {0}) = c
      BY <2>1, <2>2, <2>3
    <3> QED
      BY <3>1, RealIsCount
  <2>5. queued' = q
    BY <1>5, <2>1 DEF Demuxer!Nil
  <2>6. Demuxer!Cardinality(Demuxer!Real(queued))' = c /\ queued' \in Seq(Nat)
    BY <2>4, <2>5 DEF Demuxer!Real
  <2>7. /\ fate' \in [made : Nat, gone : Nat, nils : Nat]
        /\ fate'.made = m /\ fate'.gone = g
    <3>1. fate' = [made |-> m, gone |-> g, nils |-> n + 1]
      BY <1>1, <1>5 DEF DemuxIInv
    <3> QED
      BY <1>1, <3>1
  <2> QED
    BY <1>2, <1>3, <2>2, <2>6, <2>7 DEF DemuxIInv, Demuxer!PacketsOwnedOnce
<1> QED
  BY <1>4, <1>5 DEF Demuxer!Depacketize

\* Close releases what is queued, or panics before it does.
LEMMA DemuxerCloseStep ==
    ASSUME DemuxIInv, Demuxer!Close
    PROVE  DemuxIInv'
<1>1. CASE dpc' = "panicked" /\ UNCHANGED <<queued, fate>>
  BY <1>1, QuietStep
<1>2. CASE Demuxer!CloseQueue
  <2>1. queued' = <<>> /\ queued \in Seq(Nat)
        /\ fate' = [fate EXCEPT !.gone = @ + Demuxer!Cardinality(Demuxer!Real(queued))]
    BY <1>2 DEF Demuxer!CloseQueue, DemuxIInv
  <2>2. PICK c \in Nat : c = Demuxer!Cardinality(Demuxer!Real(queued))
    BY <2>1, RealIsCount
  <2>3. fate.made = fate.gone + c
    BY <2>2 DEF DemuxIInv, Demuxer!PacketsOwnedOnce
  <2>4. fate' \in [made : Nat, gone : Nat, nils : Nat] /\ fate'.made = fate'.gone
    BY <2>1, <2>2, <2>3 DEF DemuxIInv
  <2>5. Demuxer!Cardinality(Demuxer!Real(queued))' = 0 /\ queued' \in Seq(Nat)
    <3>1. Demuxer!Real(queued)' = {}
      BY <2>1 DEF Demuxer!Real
    <3>2. Demuxer!Cardinality({}) = 0
      BY SameCardinality, FS_EmptySet
    <3>3. << >> \in Seq(Nat)
      OBVIOUS
    <3> QED
      BY <2>1, <3>1, <3>2, <3>3
  <2> QED
    BY <2>1, <2>4, <2>5 DEF DemuxIInv, Demuxer!PacketsOwnedOnce
<1> QED
  BY <1>1, <1>2 DEF Demuxer!Close

\* The other steps of Demux, of ReadPacket, of the server and of the clock.
LEMMA DemuxerQuiet ==
    ASSUME \/ Demuxer!Demux \/ Demuxer!DemuxFailed \/ Demuxer!Describe \/ Demuxer!ReadSdp
           \/ Demuxer!ReadSdpFails \/ Demuxer!SetUp \/ Demuxer!Playing \/ Demuxer!DemuxCalls
           \/ Demuxer!ReadPacket \/ Demuxer!ReadFails \/ Demuxer!ReadExpired \/ Demuxer!SkipJunk
           \/ Demuxer!MisreadJunk \/ Demuxer!ReadAnswer \/ Demuxer!ReadHeader
           \/ Demuxer!ReadPayload \/ Demuxer!Ping \/ Demuxer!Serve \/ Demuxer!SendFrame
           \/ Demuxer!SendJunk \/ Demuxer!Tick
    PROVE  UNCHANGED <<queued, fate>> /\ (dpc' = dpc \/ dpc' # "closed")
<1>1. ASSUME UNCHANGED Demuxer!demuxVars
      PROVE  UNCHANGED <<queued, fate>> /\ (dpc' = dpc \/ dpc' # "closed")
  BY <1>1 DEF Demuxer!demuxVars
<1>2. CASE Demuxer!Demux
  BY <1>2 DEF Demuxer!Demux
<1>3. CASE Demuxer!DemuxFailed
  BY <1>3 DEF Demuxer!DemuxFailed
<1>4. CASE Demuxer!Describe
  BY <1>1, <1>4 DEF Demuxer!Describe
<1>5. CASE Demuxer!ReadSdp
  BY <1>5 DEF Demuxer!ReadSdp
<1>6. CASE Demuxer!ReadSdpFails
  BY <1>6 DEF Demuxer!ReadSdpFails
<1>7. CASE Demuxer!SetUp
  BY <1>7 DEF Demuxer!SetUp
<1>8. CASE Demuxer!Playing
  BY <1>8 DEF Demuxer!Playing
<1>9. CASE Demuxer!DemuxCalls \/ Demuxer!Serve \/ Demuxer!SkipJunk
  BY <1>1, <1>9 DEF Demuxer!DemuxCalls, Demuxer!Serve, Demuxer!SkipJunk
<1>10. CASE Demuxer!ReadPacket
  BY <1>10 DEF Demuxer!ReadPacket
<1>11. CASE Demuxer!ReadFails \/ Demuxer!ReadExpired
  BY <1>11 DEF Demuxer!ReadFails, Demuxer!ReadExpired
<1>12. CASE Demuxer!MisreadJunk \/ Demuxer!ReadAnswer
  BY <1>12 DEF Demuxer!MisreadJunk, Demuxer!ReadAnswer
<1>13. CASE Demuxer!ReadHeader
  BY <1>13 DEF Demuxer!ReadHeader
<1>14. CASE Demuxer!ReadPayload
  BY <1>14 DEF Demuxer!ReadPayload
<1>15. CASE Demuxer!Ping
  BY <1>15 DEF Demuxer!Ping
<1>16. CASE Demuxer!SendFrame \/ Demuxer!SendJunk \/ Demuxer!Tick
  BY <1>16 DEF Demuxer!SendFrame, Demuxer!SendJunk, Demuxer!Tick
<1> QED
  BY <1>2, <1>3, <1>4, <1>5, <1>6, <1>7, <1>8, <1>9, <1>10, <1>11, <1>12, <1>13, <1>14, <1>15, <1>16

\* Every packet that a depacketizer made is queued, or was returned, or was released
\* by Close, once, whatever the server sends and whatever fails after it was made;
\* and a demuxer that is closed holds none.
THEOREM DemuxerOwnsPackets == Demuxer!DemuxSpec => []Demuxer!PacketsOwnedOnce
<1>1. Demuxer!DemuxInit => DemuxIInv
  <2> SUFFICES ASSUME Demuxer!DemuxInit PROVE DemuxIInv
    OBVIOUS
  <2>1. queued = <<>> /\ fate = [made |-> 0, gone |-> 0, nils |-> 0] /\ dpc = "new"
    BY DEF Demuxer!DemuxInit
  <2>2. Demuxer!Cardinality(Demuxer!Real(queued)) = 0
    <3>1. Demuxer!Real(queued) = {}
      BY <2>1 DEF Demuxer!Real
    <3> QED
      BY <3>1, SameCardinality, FS_EmptySet
  <2> QED
    BY <2>1, <2>2 DEF DemuxIInv, Demuxer!PacketsOwnedOnce
<1>2. DemuxIInv /\ [Demuxer!DemuxNext]_<<Demuxer!clientVars, Demuxer!demuxVars>> => DemuxIInv'
  <2> SUFFICES ASSUME DemuxIInv, [Demuxer!DemuxNext]_<<Demuxer!clientVars, Demuxer!demuxVars>>
               PROVE  DemuxIInv'
    OBVIOUS
  <2>1. CASE Demuxer!ReadQueued
    <3>1. Demuxer!PopPacket /\ dpc # "closed" /\ dpc' # "closed"
      BY <2>1 DEF Demuxer!ReadQueued
    <3> QED
      BY <3>1, PopStep
  <2>2. CASE Demuxer!Return
    <3>1. Demuxer!PopPacket /\ dpc # "closed" /\ dpc' # "closed"
      BY <2>2 DEF Demuxer!Return
    <3> QED
      BY <3>1, PopStep
  <2>3. CASE UNCHANGED <<Demuxer!clientVars, Demuxer!demuxVars>>
    BY <2>3, QuietStep DEF Demuxer!demuxVars
  <2> QED
    BY <2>1, <2>2, <2>3, DepacketizeStep, DemuxerCloseStep, DemuxerQuiet, QuietStep
    DEF Demuxer!DemuxNext, Demuxer!ReadStep
<1>3. DemuxIInv => Demuxer!PacketsOwnedOnce
  BY DEF DemuxIInv
<1> QED
  BY <1>1, <1>2, <1>3, PTL DEF Demuxer!DemuxSpec

-----------------------------------------------------------------------------
(* The RTSP writer, over the same client *)

CONSTANTS Sources, Streams, MaxPackets, MaxCommands, QueueSize
VARIABLES wpc, srcURL, inpPktCh, pkt, muxer, started, medias, given, freed, open, left, commands

Publisher == INSTANCE RTSPWriter WITH ChanSize <- QueueSize

Handed == [src : Sources, kind : Publisher!Kinds]
RealHanded == {p \in Handed : p.kind # "nil"}

\* Who holds the packets: the channel, the writer while it is at work, or nobody.
PacketsHeld ==
    /\ inpPktCh \in Seq(Handed) /\ given \in Nat /\ freed \in Nat
    /\ wpc \in {"idle", "mux", "write", "stopped"}
    /\ wpc \in {"idle", "stopped"} => pkt = Publisher!NoPacket
    /\ wpc \in {"mux", "write"} => pkt \in Handed /\ pkt.kind \in DOMAIN Streams
    /\ given = freed + CountIn(inpPktCh, RealHanded) + Publisher!Packets(pkt)

\* A muxer that is being made has a connection of its own, unless the dial failed.
ConnectionHeld ==
    /\ muxer \in BOOLEAN /\ started \in BOOLEAN /\ open \in Nat /\ left \in Nat
    /\ Publisher!MuxerOwnsConnection
    /\ wpc = "mux" => /\ ~ muxer /\ ~ started
                      /\ conn = "up" \/ call = Publisher!Failed
                      /\ open = left + (IF conn = "none" THEN 0 ELSE 1)

\* The packets of the channel that are not nil.
LEMMA RealInIsCount ==
    ASSUME NEW q \in Seq(Handed)
    PROVE  Publisher!RealIn(q) = CountIn(q, RealHanded) /\ CountIn(q, RealHanded) \in Nat
<1>1. {i \in DOMAIN q : q[i].kind # "nil"} = PlacesIn(q, RealHanded)
  <2>1. \A i \in DOMAIN q : q[i] \in Handed
    OBVIOUS
  <2> QED
    BY <2>1 DEF RealHanded, PlacesIn
<1>2. \A S : Publisher!Cardinality(S) = Cardinality(S)
  BY DEF Publisher!Cardinality, Cardinality
<1> QED
  BY <1>1, <1>2, CountType DEF Publisher!RealIn, CountIn

\* What the writer is given counts, but for nil.
LEMMA HandedCounts ==
    ASSUME NEW p \in Handed
    PROVE  Publisher!Packets(p) = IF p \in RealHanded THEN 1 ELSE 0
BY DEF Publisher!Packets, RealHanded

\* Nothing is moved.
LEMMA HeldStays ==
    ASSUME PacketsHeld, UNCHANGED <<inpPktCh, pkt, given, freed>>,
           wpc' = wpc \/ (wpc = "mux" /\ wpc' = "write")
    PROVE  PacketsHeld'
BY DEF PacketsHeld, Publisher!NoPacket, Publisher!Packets

\* A packet is put into the channel.
LEMMA GiveHeld ==
    ASSUME PacketsHeld, Publisher!Give
    PROVE  PacketsHeld'
<1>1. PICK url \in Sources, kind \in Publisher!Kinds :
         /\ inpPktCh' = Append(inpPktCh, [src |-> url, kind |-> kind])
         /\ given' = given + Publisher!Packets([kind |-> kind])
         /\ UNCHANGED <<wpc, pkt, freed>>
  BY DEF Publisher!Give
<1>2. PICK p \in Handed : p = [src |-> url, kind |-> kind]
  BY DEF Handed
<1>3. PICK d \in Nat : /\ d = Publisher!Packets([kind |-> kind])
                       /\ d = IF p \in RealHanded THEN 1 ELSE 0
  BY <1>2 DEF Publisher!Packets, RealHanded
<1>4. inpPktCh \in Seq(Handed) /\ given \in Nat /\ freed \in Nat
  BY DEF PacketsHeld
<1>5. PICK c \in Nat : c = CountIn(inpPktCh, RealHanded)
  BY <1>4, CountType
<1>6. PICK k \in Nat : k = Publisher!Packets(pkt)
  BY DEF Publisher!Packets
<1>7. given = freed + c + k
  BY <1>5, <1>6 DEF PacketsHeld
<1>8. CountIn(Append(inpPktCh, p), RealHanded) = c + d
  BY <1>3, <1>4, <1>5, CountAppend
<1>9. inpPktCh' \in Seq(Handed) /\ CountIn(inpPktCh', RealHanded) = c + d
  BY <1>1, <1>2, <1>4, <1>8, AppendProperties
<1>10. given' \in Nat /\ given' = freed + CountIn(inpPktCh', RealHanded) + k
  <2>1. given' = given + d
    BY <1>1, <1>3
  <2>2. given' \in Nat /\ given' = freed + (c + d) + k
    BY <1>4, <1>7, <2>1
  <2> QED
    BY <1>9, <2>2
<1>11. RealHanded' = RealHanded /\ Publisher!Packets(pkt)' = k /\ Handed' = Handed
  BY <1>1, <1>6 DEF RealHanded, Handed, Publisher!Packets, Publisher!Kinds
<1>12. CountIn(inpPktCh, RealHanded)' = CountIn(inpPktCh', RealHanded)
  BY <1>11 DEF CountIn, PlacesIn
<1> QED
  BY <1>1, <1>4, <1>9, <1>10, <1>11, <1>12 DEF PacketsHeld

\* The first packet of the channel leaves it, released or in hand.
LEMMA TakeHeld ==
    ASSUME PacketsHeld, "nil" \notin DOMAIN Streams, wpc = "idle",
           inpPktCh # <<>>, inpPktCh' = Tail(inpPktCh), UNCHANGED given,
           \/ /\ freed' = freed + Publisher!Packets(Head(inpPktCh))
              /\ UNCHANGED <<wpc, pkt>>
           \/ /\ UNCHANGED freed /\ pkt' = Head(inpPktCh) /\ wpc' \in {"mux", "write"}
              /\ Head(inpPktCh).kind \in DOMAIN Streams
    PROVE  PacketsHeld'
<1>1. inpPktCh \in Seq(Handed) /\ given \in Nat /\ freed \in Nat
  BY DEF PacketsHeld
<1>2. PICK h \in Handed, t \in Seq(Handed) : h = Head(inpPktCh) /\ t = Tail(inpPktCh)
  BY <1>1, HeadTailProperties
<1>3. PICK c \in Nat : c = CountIn(t, RealHanded)
  BY CountType
<1>4. PICK n \in Nat : n = Publisher!Packets(h) /\ n = IF h \in RealHanded THEN 1 ELSE 0
  BY HandedCounts
<1>5. CountIn(inpPktCh, RealHanded) = n + c
  BY <1>1, <1>2, <1>3, <1>4, CountTail
<1>6. Publisher!Packets(pkt) = 0
  <2>1. pkt = Publisher!NoPacket
    BY DEF PacketsHeld
  <2> QED
    BY <2>1 DEF Publisher!Packets, Publisher!NoPacket
<1>7. given = freed + (n + c)
  BY <1>1, <1>3, <1>4, <1>5, <1>6 DEF PacketsHeld
<1>8. inpPktCh' = t /\ RealHanded' = RealHanded /\ Handed' = Handed
  BY <1>2 DEF RealHanded, Handed, Publisher!Kinds
<1>9. CountIn(inpPktCh, RealHanded)' = c
  BY <1>3, <1>8 DEF CountIn, PlacesIn
<1>10. CASE freed' = freed + n /\ UNCHANGED <<wpc, pkt>>
  <2>1. Publisher!Packets(pkt)' = 0
    BY <1>6, <1>10 DEF Publisher!Packets
  <2>2. given' = freed' + c + 0 /\ given' \in Nat /\ freed' \in Nat
    BY <1>1, <1>3, <1>4, <1>7, <1>10
  <2> QED
    BY <1>8, <1>9, <1>10, <2>1, <2>2 DEF PacketsHeld
<1>11. CASE /\ UNCHANGED freed /\ pkt' = h /\ wpc' \in {"mux", "write"}
            /\ h.kind \in DOMAIN Streams
  <2>1. Publisher!Packets(pkt)' = n
    BY <1>4, <1>11 DEF Publisher!Packets
  <2>2. given' = freed' + c + n /\ given' \in Nat /\ freed' \in Nat
    BY <1>1, <1>3, <1>4, <1>7, <1>11
  <2> QED
    BY <1>8, <1>9, <1>11, <2>1, <2>2 DEF PacketsHeld
<1> QED
  BY <1>2, <1>4, <1>10, <1>11

\* The packet in hand is released.
LEMMA DoneHeld ==
    ASSUME PacketsHeld, "nil" \notin DOMAIN Streams, wpc \in {"mux", "write"}, wpc' = "idle",
           pkt' = Publisher!NoPacket, freed' = freed + 1, UNCHANGED <<inpPktCh, given>>
    PROVE  PacketsHeld'
<1>1. Publisher!Packets(pkt) = 1
  BY DEF PacketsHeld, Publisher!Packets
<1>2. Publisher!Packets(pkt)' = 0
  BY DEF Publisher!Packets, Publisher!NoPacket
<1>3. inpPktCh \in Seq(Handed) /\ given \in Nat /\ freed \in Nat
  BY DEF PacketsHeld
<1>4. PICK c \in Nat : c = CountIn(inpPktCh, RealHanded)
  BY <1>3, CountType
<1>5. RealHanded' = RealHanded /\ Handed' = Handed
  BY DEF RealHanded, Handed, Publisher!Kinds
<1>6. CountIn(inpPktCh, RealHanded)' = c
  BY <1>4, <1>5 DEF CountIn, PlacesIn
<1>7. given = freed + c + 1
  BY <1>1, <1>4 DEF PacketsHeld
<1>8. given' = freed' + c + 0 /\ freed' \in Nat
  BY <1>3, <1>4, <1>7
<1> QED
  BY <1>2, <1>3, <1>5, <1>6, <1>8 DEF PacketsHeld, Publisher!NoPacket

\* Release drains the channel.
LEMMA ReleaseHeld ==
    ASSUME PacketsHeld, Publisher!ReleaseWriter
    PROVE  PacketsHeld'
<1>1. /\ wpc = "idle" /\ wpc' = "stopped" /\ inpPktCh' = <<>>
      /\ freed' = freed + Publisher!RealIn(inpPktCh) /\ UNCHANGED <<pkt, given>>
  BY DEF Publisher!ReleaseWriter
<1>2. inpPktCh \in Seq(Handed) /\ given \in Nat /\ freed \in Nat /\ pkt = Publisher!NoPacket
  BY <1>1 DEF PacketsHeld
<1>3. PICK c \in Nat : c = CountIn(inpPktCh, RealHanded) /\ c = Publisher!RealIn(inpPktCh)
  BY <1>2, RealInIsCount
<1>4. Publisher!Packets(pkt) = 0 /\ Publisher!Packets(pkt)' = 0
  BY <1>1, <1>2 DEF Publisher!Packets, Publisher!NoPacket
<1>5. given' = freed' + 0 + 0 /\ freed' \in Nat /\ given' \in Nat
  BY <1>1, <1>2, <1>3, <1>4 DEF PacketsHeld
<1>6. inpPktCh' \in Seq(Handed)' /\ CountIn(inpPktCh, RealHanded)' = 0
  <2>1. << >> \in Seq(Handed) /\ Handed' = Handed
    BY DEF Handed, Publisher!Kinds
  <2>2. PlacesIn(inpPktCh, RealHanded)' = {}
    BY <1>1 DEF PlacesIn
  <2> QED
    BY <1>1, <2>1, <2>2, FS_EmptySet DEF CountIn
<1> QED
  BY <1>1, <1>2, <1>4, <1>5, <1>6 DEF PacketsHeld

\* The steps of the client and of the server leave the packets alone.
LEMMA PublisherHeld ==
    ASSUME PacketsHeld, "nil" \notin DOMAIN Streams,
           [Publisher!WriterNext]_<<Publisher!clientVars, Publisher!writerVars>>
    PROVE  PacketsHeld'
<1>1. CASE UNCHANGED Publisher!writerVars
  BY <1>1, HeldStays DEF Publisher!writerVars
<1>2. CASE Publisher!StepDrop
  BY <1>2, TakeHeld DEF Publisher!StepDrop
<1>3. CASE Publisher!StepWrite
  BY <1>3, TakeHeld DEF Publisher!StepWrite, Publisher!Video
<1>4. CASE Publisher!StepMux
  BY <1>4, TakeHeld DEF Publisher!StepMux, Publisher!Video
<1>5. CASE Publisher!MuxAnnounce \/ Publisher!MuxSetup \/ Publisher!MuxRecord
  BY <1>5, HeldStays
  DEF Publisher!MuxAnnounce, Publisher!MuxSetup, Publisher!MuxRecord, Publisher!MuxAsks
<1>6. CASE Publisher!MuxFails
  BY <1>6, DoneHeld DEF Publisher!MuxFails
<1>7. CASE Publisher!Muxed
  BY <1>7, HeldStays DEF Publisher!Muxed
<1>8. CASE Publisher!Write
  BY <1>8, DoneHeld DEF Publisher!Write
<1>9. CASE Publisher!WriteFails
  BY <1>9, DoneHeld DEF Publisher!WriteFails
<1>10. ASSUME NEW url \in Sources, Publisher!StepAddSource(url) \/ Publisher!StepRemoveSource(url)
       PROVE  PacketsHeld'
  BY <1>10, HeldStays DEF Publisher!StepAddSource, Publisher!StepRemoveSource
<1> QED
  BY <1>1, <1>2, <1>3, <1>4, <1>5, <1>6, <1>7, <1>8, <1>9, <1>10, GiveHeld, ReleaseHeld
  DEF Publisher!WriterNext, Publisher!WriterServe, Publisher!WriterCalls

\* A muxer that is reset closes its connection.
LEMMA ResetHeld ==
    ASSUME ConnectionHeld, wpc \in {"idle", "write", "stopped"}, Publisher!ResetMuxer,
           wpc' \in {"idle", "stopped"}, UNCHANGED left
    PROVE  ConnectionHeld'
<1>1. /\ muxer => conn = "up"
      /\ call = Publisher!NoCall /\ muxer' = FALSE /\ started' = FALSE
      /\ open \in Nat /\ left \in Nat /\ open = left + (IF muxer THEN 1 ELSE 0)
  BY DEF ConnectionHeld, Publisher!MuxerOwnsConnection, Publisher!ResetMuxer
<1>2. open' = left /\ call' = Publisher!NoCall
  <2>1. CASE muxer
    <3>1. conn' # conn /\ call' = Publisher!NoCall
      BY <1>1, <2>1 DEF Publisher!ResetMuxer, Publisher!CloseMuxer, Publisher!CloseClient
    <3>2. open' = open - 1
      BY <3>1 DEF Publisher!ResetMuxer, Publisher!CloseMuxer
    <3> QED
      BY <1>1, <2>1, <3>1, <3>2
  <2>2. CASE ~ muxer
    BY <1>1, <2>2 DEF Publisher!ResetMuxer, Publisher!CloseMuxer
  <2> QED
    BY <2>1, <2>2
<1>3. Publisher!NoCall' = Publisher!NoCall
  BY DEF Publisher!NoCall, Publisher!Ask
<1>4. open' = left' + (IF muxer' THEN 1 ELSE 0) /\ open' \in Nat /\ left' \in Nat
  BY <1>1, <1>2
<1> QED
  BY <1>1, <1>2, <1>3, <1>4 DEF ConnectionHeld, Publisher!MuxerOwnsConnection

\* Steps that leave the connection, the muxer and the call alone.
LEMMA ConnectionStays ==
    ASSUME ConnectionHeld, UNCHANGED <<conn, call, muxer, started, open, left>>,
           wpc' = wpc \/ (wpc \in {"idle", "write"} /\ wpc' \in {"idle", "write"})
    PROVE  ConnectionHeld'
BY DEF ConnectionHeld, Publisher!MuxerOwnsConnection, Publisher!NoCall, Publisher!Ask, Publisher!Failed

\* A call of a muxer that is being made: its connection stays, and a call that has
\* failed before there was one has no further step.
LEMMA MuxCalls ==
    ASSUME ConnectionHeld, wpc = "mux", Publisher!ClientStep, UNCHANGED Publisher!writerVars
    PROVE  ConnectionHeld'
<1>1. call.phase \in {"send", "wait"} /\ UNCHANGED conn
  BY DEF Publisher!ClientStep, Publisher!Request, Publisher!Answered, Publisher!Challenged,
         Publisher!Garbled, Publisher!NoAnswer
<1>2. conn = "up"
  BY <1>1 DEF ConnectionHeld, Publisher!Failed, Publisher!NoCall, Publisher!Ask
<1> QED
  BY <1>1, <1>2 DEF ConnectionHeld, Publisher!MuxerOwnsConnection, Publisher!writerVars

\* Every step keeps the connection with the muxer.
LEMMA PublisherConnection ==
    ASSUME ConnectionHeld, wpc \in {"idle", "mux", "write", "stopped"},
           [Publisher!WriterNext]_<<Publisher!clientVars, Publisher!writerVars>>
    PROVE  ConnectionHeld'
<1>1. CASE UNCHANGED <<Publisher!clientVars, Publisher!writerVars>>
  BY <1>1, ConnectionStays DEF Publisher!clientVars, Publisher!writerVars
<1>2. CASE Publisher!Give \/ Publisher!StepDrop \/ Publisher!StepWrite \/ Publisher!Write
  BY <1>2, ConnectionStays
  DEF Publisher!Give, Publisher!StepDrop, Publisher!StepWrite, Publisher!Write, Publisher!clientVars
<1>3. CASE Publisher!StepMux
  <2>1. /\ ~ muxer /\ ~ started /\ UNCHANGED <<muxer, started, left>> /\ wpc' = "mux"
        /\ open = left /\ open \in Nat /\ open' = IF conn' = "none" THEN open ELSE open + 1
    BY <1>3 DEF ConnectionHeld, Publisher!MuxerOwnsConnection, Publisher!StepMux
  <2>2. conn' = "up" \/ call' = Publisher!Failed'
    BY <1>3 DEF Publisher!StepMux, Publisher!Establish, Publisher!EstablishFails,
                Publisher!Failed, Publisher!NoCall, Publisher!Ask
  <2> QED
    BY <2>1, <2>2 DEF ConnectionHeld, Publisher!MuxerOwnsConnection
<1>4. CASE Publisher!MuxAnnounce \/ Publisher!MuxSetup \/ Publisher!MuxRecord
  <2>1. wpc = "mux" /\ wpc' = "mux" /\ UNCHANGED <<conn, muxer, started, open, left>>
        /\ call.phase \in {"ok", "odd"}
    BY <1>4 DEF Publisher!MuxAnnounce, Publisher!MuxSetup, Publisher!MuxRecord,
                Publisher!MuxAsks, Publisher!Continue
  <2>2. conn = "up"
    BY <2>1 DEF ConnectionHeld, Publisher!Failed, Publisher!NoCall, Publisher!Ask
  <2> QED
    BY <2>1, <2>2 DEF ConnectionHeld, Publisher!MuxerOwnsConnection
<1>5. CASE Publisher!MuxFails
  <2>1. /\ wpc = "mux" /\ wpc' = "idle" /\ call' = Publisher!NoCall
        /\ UNCHANGED <<muxer, started, open>>
        /\ left' = left + (IF conn = "none" THEN 0 ELSE 1)
    BY <1>5 DEF Publisher!MuxFails
  <2>2. Publisher!NoCall' = Publisher!NoCall
    BY DEF Publisher!NoCall, Publisher!Ask
  <2> QED
    BY <2>1, <2>2 DEF ConnectionHeld, Publisher!MuxerOwnsConnection
<1>6. CASE Publisher!Muxed
  <2>1. /\ wpc = "mux" /\ wpc' = "write" /\ muxer' = TRUE /\ started' = TRUE
        /\ call' = Publisher!NoCall /\ call.method = "RECORD"
        /\ UNCHANGED <<conn, open, left>>
    BY <1>6 DEF Publisher!Muxed
  <2>2. conn = "up"
    BY <2>1 DEF ConnectionHeld, Publisher!Failed, Publisher!NoCall, Publisher!Ask
  <2>3. Publisher!NoCall' = Publisher!NoCall
    BY DEF Publisher!NoCall, Publisher!Ask
  <2> QED
    BY <2>1, <2>2, <2>3 DEF ConnectionHeld, Publisher!MuxerOwnsConnection
<1>7. CASE Publisher!WriteFails \/ Publisher!ReleaseWriter
  BY <1>7, ResetHeld DEF Publisher!WriteFails, Publisher!ReleaseWriter
<1>8. CASE Publisher!WriterServe
  BY <1>8, ConnectionStays DEF Publisher!WriterServe, Publisher!ServeOldest, Publisher!writerVars
<1>9. CASE Publisher!WriterCalls
  BY <1>9, MuxCalls DEF Publisher!WriterCalls
<1>10. ASSUME NEW url \in Sources, Publisher!StepAddSource(url)
       PROVE  ConnectionHeld'
  BY <1>10, ResetHeld DEF Publisher!StepAddSource
<1>11. ASSUME NEW url \in Sources, Publisher!StepRemoveSource(url)
       PROVE  ConnectionHeld'
  <2>1. wpc = "idle" /\ wpc' = "idle"
        /\ (Publisher!ResetMuxer \/ UNCHANGED <<Publisher!clientVars, muxer, started, open>>)
        /\ UNCHANGED left
    BY <1>11 DEF Publisher!StepRemoveSource
  <2> QED
    BY <2>1, ResetHeld, ConnectionStays DEF Publisher!clientVars
<1> QED
  BY <1>1, <1>2, <1>3, <1>4, <1>5, <1>6, <1>7, <1>8, <1>9, <1>10, <1>11 DEF Publisher!WriterNext

\* What holds at first, and what every step keeps.
LEMMA PublisherInvariant ==
    ASSUME "nil" \notin DOMAIN Streams
    PROVE  Publisher!WriterSpec => [](PacketsHeld /\ ConnectionHeld)
<1>1. Publisher!ClientInit /\ Publisher!WriterInit => PacketsHeld /\ ConnectionHeld
  <2> SUFFICES ASSUME Publisher!ClientInit, Publisher!WriterInit
               PROVE  PacketsHeld /\ ConnectionHeld
    OBVIOUS
  <2>1. /\ wpc = "idle" /\ inpPktCh = <<>> /\ pkt = Publisher!NoPacket /\ given = 0 /\ freed = 0
        /\ muxer = FALSE /\ started = FALSE /\ open = 0 /\ left = 0 /\ call = Publisher!NoCall
    BY DEF Publisher!WriterInit, Publisher!ClientInit
  <2>2. CountIn(inpPktCh, RealHanded) = 0
    <3>1. PlacesIn(inpPktCh, RealHanded) = {}
      BY <2>1 DEF PlacesIn
    <3> QED
      BY <3>1, FS_EmptySet DEF CountIn
  <2>3. Publisher!Packets(pkt) = 0
    BY <2>1 DEF Publisher!Packets, Publisher!NoPacket
  <2>4. PacketsHeld
    BY <2>1, <2>2, <2>3 DEF PacketsHeld
  <2>5. Publisher!MuxerOwnsConnection
    <3>1. open = left + (IF muxer THEN 1 ELSE 0)
      BY <2>1
    <3> QED
      BY <2>1, <3>1 DEF Publisher!MuxerOwnsConnection
  <2>6. ConnectionHeld
    <3>1. open \in Nat /\ left \in Nat /\ muxer \in BOOLEAN /\ started \in BOOLEAN /\ wpc # "mux"
      BY <2>1
    <3> QED
      BY <2>5, <3>1 DEF ConnectionHeld
  <2> QED
    BY <2>4, <2>6
<1>2. /\ PacketsHeld /\ ConnectionHeld
      /\ [Publisher!WriterNext]_<<Publisher!clientVars, Publisher!writerVars>>
      => (PacketsHeld /\ ConnectionHeld)'
  <2>1. PacketsHeld => wpc \in {"idle", "mux", "write", "stopped"}
    BY DEF PacketsHeld
  <2> QED
    BY <2>1, PublisherHeld, PublisherConnection
<1> QED
  BY <1>1, <1>2, PTL DEF Publisher!WriterSpec

\* Every packet that the RTSP writer was given is queued, in hand or released, once,
\* whatever fails while it connects or writes.
THEOREM PublisherOwnsPackets ==
    ASSUME "nil" \notin DOMAIN Streams
    PROVE  Publisher!WriterSpec => []Publisher!WriterOwnsOnce
<1>1. PacketsHeld => Publisher!WriterOwnsOnce
  BY RealInIsCount DEF PacketsHeld, Publisher!WriterOwnsOnce
<1> QED
  BY <1>1, PublisherInvariant, PTL

\* Between two steps of the writer the connections that are open are the muxer's,
\* which will close it, and those that failed Muxes have left; and there is a muxer
\* just when the writer takes itself for started.
THEOREM PublisherOwnsConnection ==
    ASSUME "nil" \notin DOMAIN Streams
    PROVE  Publisher!WriterSpec => []Publisher!MuxerOwnsConnection
<1>1. ConnectionHeld => Publisher!MuxerOwnsConnection
  BY DEF ConnectionHeld
<1> QED
  BY <1>1, PublisherInvariant, PTL
=============================================================================
