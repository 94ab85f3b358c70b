---------------------------- MODULE HLSMuxerProofs ----------------------------
(***************************************************************************)
(* What HLSMuxer guarantees for all durations, options, packets and        *)
(* readers.  The segments are numbered from zero without a gap; the one    *)
(* being written is the last.  The inductive invariant says which of them  *)
(* are in the playlist, what the published manifest knows of them, and     *)
(* what is in the last one at each point of the writer.                    *)
(***************************************************************************)
EXTENDS HLSMuxer, ListProofs

-----------------------------------------------------------------------------
(* The inductive invariant *)

Labels == {"idle", "close", "add", "evict", "append", "fragment", "store", "broadcast",
           "update"}

FragmentOf == [dur : Nat, done : BOOLEAN]
SegmentOf  == [dur : Nat, frags : Seq(FragmentOf), parts : Nat, ended : BOOLEAN,
               done : BOOLEAN, held : Nat, keyed : BOOLEAN, disc : BOOLEAN, init : Nat]
JobOf      == [video : BOOLEAN, key : BOOLEAN, dur : Nat, disc : BOOLEAN]
EntryOf    == [id : Nat, parts : Nat, ended : BOOLEAN, dur : Nat, disc : BOOLEAN, init : Nat]
ManifestOf == [seq : Nat, disc : Nat, independent : BOOLEAN, list : Seq(EntryOf)]

\* The types; a segment has a fragment.
Shape ==
    /\ opt \in Options /\ closed \in BOOLEAN /\ wpc \in Labels /\ job \in JobOf
    /\ segs \in Seq(SegmentOf) /\ Len(segs) >= 1
    /\ \A i \in 1 .. Len(segs) : Len(segs[i].frags) >= 1
    /\ segIDs \in Seq(Nat) /\ mediaSequence \in Nat /\ discontinuitySequence \in Nat
    /\ initVersion \in Nat /\ gateOpen \in BOOLEAN /\ capSplitSeen \in BOOLEAN
    /\ manifest \in ManifestOf

\* The segment that is written, or was last.
Current == segs[Len(segs)]
Content(s) == s.dur + CurFrag(s).dur

\* Where the writer is, and what it may find there.
Control ==
    /\ closed => wpc = "idle"
    /\ wpc \in {"idle", "update"} => job = NoJob
    /\ wpc \in {"close", "add"} => job.video
    /\ job.key => job.video
    /\ wpc = "evict" => Content(Current) = 0 /\ Current.held = 0
    /\ wpc \notin {"add", "update"} => ~ Current.ended
    /\ wpc \notin {"add", "update", "fragment"} => ~ CurFrag(Current).done

\* The playlist has the segments from the media sequence on; before it are as
\* many discontinuities as were counted.
Discontinuities(n) == {i \in 0 .. n - 1 : Seg(i).disc}
Playlist ==
    /\ closed => segIDs = <<>>
    /\ ~ closed => Len(segIDs) = Len(segs) - mediaSequence
    /\ \A k \in 1 .. Len(segIDs) : segIDs[k] = mediaSequence + k - 1
    /\ mediaSequence < Len(segs)
    /\ discontinuitySequence = Cardinality(Discontinuities(mediaSequence))
    /\ \A i \in Ids \ Listed : Seg(i).held = 0

\* What is listed was so, and what is finished is as it was listed.
Published == manifest.seq + Len(manifest.list)
Manifest ==
    /\ manifest.seq <= mediaSequence /\ Published <= Len(segs)
    /\ manifest.disc = Cardinality(Discontinuities(manifest.seq))
    /\ \A k \in 1 .. Len(manifest.list) :
          /\ manifest.list[k].id = manifest.seq + k - 1
          /\ manifest.list[k].init = Seg(manifest.list[k].id).init
          /\ manifest.list[k].ended => manifest.list[k] = Entry(manifest.list[k].id)
    /\ wpc = "evict" => Published < Len(segs)

\* The inits of the listed segments are kept, of which the current one is the last.
Inits ==
    /\ ~ closed => Current.init = initVersion
    /\ \A i \in Listed : Seg(i).init \in initCache

\* Without a cut between keyframes each segment begins with one; where the
\* current segment is empty, a keyframe comes next.  A cut is not published with the
\* tag, as the new segment gets its first packet before the manifest is made.
Opens == job.key \/ capSplitSeen
Keyed ==
    /\ opt.keyframeSplit /\ ~ capSplitSeen => \A i \in Ids : Seg(i).keyed
    /\ manifest.independent => \A k \in 1 .. Len(manifest.list) : Seg(manifest.list[k].id).keyed
KeyframeNext ==
    opt.keyframeSplit =>
        /\ wpc \in {"close", "add"} => Opens
        /\ wpc = "evict" => IF job = NoJob THEN ~ gateOpen ELSE Opens
        /\ wpc = "append" /\ Current.held = 0 => Opens /\ (job.key \/ Published < Len(segs))
        /\ wpc \in {"idle", "fragment", "store", "broadcast"} /\ ~ closed /\ Current.held = 0 =>
              ~ gateOpen
Independent == manifest.independent => opt.keyframeSplit
Keyframes == Keyed /\ KeyframeNext /\ Independent

\* No segment outgrows its limit, also with what is about to come.
Limit == IF opt.cap > 0 THEN opt.cap ELSE SegDuration
Limited == ~ opt.keyframeSplit \/ opt.cap > 0
Lengths ==
    /\ job.dur <= SegDuration
    /\ Limited =>
          /\ \A i \in Ids : Seg(i).dur <= Limit
          /\ wpc \notin {"add", "update"} => Content(Current) <= Limit
          /\ wpc = "append" => Content(Current) + job.dur <= Limit

\* What eviction leaves is enough, and once it is over not more than that.
EvictedLast == Seg(mediaSequence - 1).dur
Eviction ==
    ~ closed =>
        IF opt.keep > 0
        THEN /\ mediaSequence > 0 => Durations(ClosedIds) >= opt.keep
             /\ wpc # "evict" /\ Len(segIDs) > 2 =>
                   Durations(ClosedIds) - Seg(Head(segIDs)).dur < opt.keep
        ELSE /\ Len(segIDs) >= opt.count \/ Len(segIDs) >= Len(segs)
             /\ mediaSequence > 0 => Durations(ClosedIds) + EvictedLast > MaxPlaylist
             /\ wpc # "evict" /\ Len(segIDs) > opt.count => Durations(ClosedIds) <= MaxPlaylist

IInv ==
    /\ Shape /\ Control /\ Playlist /\ Manifest /\ Inits /\ Keyframes /\ Lengths /\ Eviction

-----------------------------------------------------------------------------
(* Segments *)

\* The last fragment of a segment.
LEMMA LastFragment ==
    ASSUME NEW s \in SegmentOf, Len(s.frags) >= 1
    PROVE  /\ CurFrag(s) = s.frags[Len(s.frags)] /\ CurFrag(s) \in FragmentOf
           /\ Content(s) \in Nat /\ Content(s) >= s.dur
           /\ Len(s.frags) \in 1 .. Len(s.frags)
<1>1. Len(s.frags) \in Nat /\ s.frags \in Seq(FragmentOf) /\ s.dur \in Nat
  BY DEF SegmentOf
<1>2. Len(s.frags) \in 1 .. Len(s.frags)
  BY <1>1
<1>3. CurFrag(s) = s.frags[Len(s.frags)]
  BY DEF CurFrag, Last
<1>4. CurFrag(s) \in FragmentOf
  BY <1>1, <1>2, <1>3
<1> QED
  BY <1>1, <1>2, <1>3, <1>4 DEF Content, FragmentOf

\* A change of the last fragment, and of nothing else.
LEMMA FragmentChanged ==
    ASSUME NEW frags \in Seq(FragmentOf), NEW n \in Nat, n = Len(frags), n >= 1,
           NEW f \in FragmentOf
    PROVE  LET fs == [frags EXCEPT ![n] = f]
           IN  fs \in Seq(FragmentOf) /\ Len(fs) = n /\ fs[n] = f
OBVIOUS

\* What is known of any segment.
LEMMA SegmentFields ==
    ASSUME NEW s \in SegmentOf
    PROVE  /\ s.dur \in Nat /\ s.frags \in Seq(FragmentOf) /\ s.parts \in Nat
           /\ s.ended \in BOOLEAN /\ s.done \in BOOLEAN /\ s.held \in Nat
           /\ s.keyed \in BOOLEAN /\ s.disc \in BOOLEAN /\ s.init \in Nat
           /\ s = [dur |-> s.dur, frags |-> s.frags, parts |-> s.parts, ended |-> s.ended,
                    done |-> s.done, held |-> s.held, keyed |-> s.keyed, disc |-> s.disc,
                    init |-> s.init]
BY DEF SegmentOf

\* What does not change when a segment is closed or written to.
SameRest(t, s) == /\ t \in SegmentOf /\ Len(t.frags) >= 1
                  /\ t.disc = s.disc /\ t.init = s.init

\* A segment is closed with all it holds.
LEMMA CloseSegIs ==
    ASSUME NEW s \in SegmentOf, Len(s.frags) >= 1, ~ CurFrag(s).done
    PROVE  /\ SameRest(closeSeg(s), s) /\ closeSeg(s).dur = Content(s)
           /\ closeSeg(s).held = s.held /\ closeSeg(s).keyed = s.keyed
<1>1. PICK n, f : n = Len(s.frags) /\ f = CurFrag(s)
  OBVIOUS
<1>2. f \in FragmentOf /\ f = s.frags[n] /\ f.dur \in Nat /\ n >= 1 /\ ~ f.done
  BY <1>1, LastFragment DEF FragmentOf
<1>3. PICK fs : fs = [s.frags EXCEPT ![n] = [dur |-> f.dur, done |-> TRUE]]
  OBVIOUS
<1>4. [dur |-> f.dur, done |-> TRUE] \in FragmentOf
  BY <1>2 DEF FragmentOf
<1>5. fs \in Seq(FragmentOf) /\ Len(fs) = n
  BY <1>1, <1>2, <1>3, <1>4, SegmentFields, FragmentChanged
<1>6. fs = [s.frags EXCEPT ![n].done = TRUE]
  BY <1>1, <1>2, <1>3, LastFragment DEF FragmentOf
<1>7. PICK d, p : /\ d = (IF f.dur > 0 THEN s.dur + f.dur ELSE s.dur)
                  /\ p = (IF f.dur > 0 THEN s.parts + 1 ELSE s.parts)
  OBVIOUS
<1>8. d \in Nat /\ p \in Nat /\ d = s.dur + f.dur
  BY <1>2, <1>7, SegmentFields
<1>9. closeSeg(s) = [s EXCEPT !.frags = fs, !.dur = d, !.parts = p, !.ended = TRUE, !.done = TRUE]
  BY <1>1, <1>2, <1>6, <1>7, SegmentFields DEF closeSeg
<1>10. closeSeg(s) = [dur |-> d, frags |-> fs, parts |-> p, ended |-> TRUE,
                      done |-> TRUE, held |-> s.held, keyed |-> s.keyed, disc |-> s.disc,
                      init |-> s.init]
  BY <1>9, SegmentFields
<1>11. PICK t : t = closeSeg(s)
  OBVIOUS
<1>12. /\ t \in SegmentOf /\ t.frags = fs /\ t.dur = d /\ t.held = s.held
       /\ t.keyed = s.keyed /\ t.disc = s.disc /\ t.init = s.init
  BY <1>5, <1>8, <1>10, <1>11, SegmentFields DEF SegmentOf
<1>13. Len(fs) >= 1
  BY <1>2, <1>5
<1> QED
  BY <1>1, <1>8, <1>11, <1>12, <1>13 DEF SameRest, Content

\* UpdateCodecParameters drops what the open fragment holds.
LEMMA ForceCloseIs ==
    ASSUME NEW s \in SegmentOf, Len(s.frags) >= 1
    PROVE  /\ SameRest(forceClose(s), s) /\ forceClose(s).dur = s.dur
           /\ forceClose(s).held = s.held /\ forceClose(s).keyed = s.keyed
<1>1. PICK n, f : n = Len(s.frags) /\ f = CurFrag(s)
  OBVIOUS
<1>2. f \in FragmentOf /\ f = s.frags[n] /\ n \in Nat /\ n >= 1
  BY <1>1, LastFragment, SegmentFields
<1>3. PICK g : g = IF f.done THEN f ELSE [dur |-> 0, done |-> TRUE]
  OBVIOUS
<1>4. g \in FragmentOf
  BY <1>2, <1>3 DEF FragmentOf
<1>5. PICK fs : fs = [s.frags EXCEPT ![n] = g]
  OBVIOUS
<1>6. fs \in Seq(FragmentOf) /\ Len(fs) = n
  BY <1>1, <1>2, <1>4, <1>5, SegmentFields, FragmentChanged
<1>7. PICK e \in BOOLEAN : e = (s.dur > 0)
  <2>1. CASE s.dur > 0
    <3>1. (s.dur > 0) = TRUE
      BY <2>1
    <3> QED
      BY <3>1
  <2>2. CASE ~ (s.dur > 0)
    <3>1. (s.dur > 0) = FALSE
      BY <2>2
    <3> QED
      BY <3>1
  <2> QED
    BY <2>1, <2>2
<1>8. forceClose(s) = [s EXCEPT !.frags = fs, !.ended = e, !.done = TRUE]
  BY <1>1, <1>2, <1>3, <1>5, <1>7, SegmentFields DEF forceClose
<1>9. forceClose(s) = [dur |-> s.dur, frags |-> fs, parts |-> s.parts, ended |-> e,
                       done |-> TRUE, held |-> s.held, keyed |-> s.keyed, disc |-> s.disc,
                       init |-> s.init]
  BY <1>8, SegmentFields
<1>10. PICK t : t = forceClose(s)
  OBVIOUS
<1>11. /\ t \in SegmentOf /\ t.frags = fs /\ t.dur = s.dur /\ t.held = s.held
       /\ t.keyed = s.keyed /\ t.disc = s.disc /\ t.init = s.init
  BY <1>6, <1>7, <1>9, <1>10, SegmentFields DEF SegmentOf
<1>12. Len(fs) >= 1
  BY <1>2, <1>6
<1> QED
  BY <1>10, <1>11, <1>12 DEF SameRest

\* A packet is added to the last fragment.
Appended(s, dur, full, key) ==
    [s EXCEPT !.frags[Len(s.frags)] = [dur |-> dur, done |-> full], !.held = @ + 1,
              !.keyed = IF s.held = 0 THEN key ELSE @]
WrittenTo(t, s, dur, full, key) ==
    /\ SameRest(t, s) /\ t.dur = s.dur /\ t.held = s.held + 1 /\ t.ended = s.ended
    /\ t.keyed = IF s.held = 0 THEN key ELSE s.keyed
    /\ CurFrag(t).dur = dur /\ CurFrag(t).done = full

\* It is one packet more, and the first one says what the segment begins with.
LEMMA AppendedIs ==
    ASSUME NEW s \in SegmentOf, Len(s.frags) >= 1, NEW dur \in Nat, NEW full \in BOOLEAN,
           NEW key \in BOOLEAN
    PROVE  WrittenTo(Appended(s, dur, full, key), s, dur, full, key)
<1>0. PICK t : t = Appended(s, dur, full, key)
  OBVIOUS
<1>1. PICK n, f : n = Len(s.frags) /\ f = [dur |-> dur, done |-> full]
  OBVIOUS
<1>2. f \in FragmentOf /\ f.dur = dur /\ f.done = full /\ n \in Nat /\ n >= 1
  BY <1>1, SegmentFields DEF FragmentOf
<1>3. PICK fs : fs = [s.frags EXCEPT ![n] = f]
  OBVIOUS
<1>4. fs \in Seq(FragmentOf) /\ Len(fs) = n /\ fs[n] = f
  BY <1>1, <1>2, <1>3, SegmentFields, FragmentChanged
<1>5. PICK k \in BOOLEAN : k = IF s.held = 0 THEN key ELSE s.keyed
  BY SegmentFields
<1>6. t = [s EXCEPT !.frags = fs, !.held = s.held + 1, !.keyed = k]
  BY <1>0, <1>1, <1>3, <1>5, SegmentFields DEF Appended
<1>7. t = [dur |-> s.dur, frags |-> fs, parts |-> s.parts, ended |-> s.ended,
           done |-> s.done, held |-> s.held + 1, keyed |-> k, disc |-> s.disc,
           init |-> s.init]
  BY <1>5, <1>6 DEF SegmentOf
<1>8. /\ t \in SegmentOf /\ t.frags = fs /\ t.dur = s.dur /\ t.held = s.held + 1
      /\ t.ended = s.ended /\ t.keyed = k /\ t.disc = s.disc /\ t.init = s.init
  BY <1>4, <1>5, <1>7, SegmentFields DEF SegmentOf
<1>9. CurFrag(t) = f
  BY <1>4, <1>8 DEF CurFrag, Last
<1> QED
  BY <1>0, <1>2, <1>4, <1>5, <1>8, <1>9 DEF SameRest, WrittenTo

\* The next fragment is begun.
Begun(s) == [s EXCEPT !.dur = @ + CurFrag(s).dur, !.parts = @ + 1,
                      !.frags = Append(@, NewFragment)]

\* The duration takes in what the full fragment holds.
LEMMA BegunIs ==
    ASSUME NEW s \in SegmentOf, Len(s.frags) >= 1, NEW t, t = Begun(s)
    PROVE  /\ SameRest(t, s) /\ t.dur = Content(s) /\ t.held = s.held
           /\ t.ended = s.ended /\ t.keyed = s.keyed
           /\ CurFrag(t).dur = 0 /\ CurFrag(t).done = FALSE
<1>1. PICK n, f, e : n = Len(s.frags) /\ f = NewFragment /\ e = CurFrag(s)
  OBVIOUS
<1>2. /\ f \in FragmentOf /\ f.dur = 0 /\ f.done = FALSE /\ n \in Nat /\ n >= 1
      /\ e.dur \in Nat
  BY <1>1, SegmentFields, LastFragment DEF FragmentOf, NewFragment
<1>3. PICK fs : fs = Append(s.frags, f)
  OBVIOUS
<1>4. fs \in Seq(FragmentOf) /\ Len(fs) = n + 1 /\ fs[n + 1] = f
  BY <1>1, <1>2, <1>3, SegmentFields
<1>5. PICK d \in Nat : d = s.dur + e.dur
  BY <1>2, SegmentFields
<1>6. t = [s EXCEPT !.dur = d, !.parts = s.parts + 1, !.frags = fs]
  BY <1>1, <1>3, <1>5, SegmentFields DEF Begun
<1>7. t = [dur |-> d, frags |-> fs, parts |-> s.parts + 1, ended |-> s.ended,
           done |-> s.done, held |-> s.held, keyed |-> s.keyed, disc |-> s.disc,
           init |-> s.init]
  BY <1>6, SegmentFields
<1>8. /\ t \in SegmentOf /\ t.frags = fs /\ t.dur = d /\ t.held = s.held
      /\ t.ended = s.ended /\ t.keyed = s.keyed /\ t.disc = s.disc /\ t.init = s.init
  BY <1>4, <1>5, <1>7, SegmentFields DEF SegmentOf
<1>9. CurFrag(t) = f
  BY <1>4, <1>8 DEF CurFrag, Last
<1> QED
  BY <1>1, <1>2, <1>4, <1>5, <1>8, <1>9 DEF SameRest, Content

\* Nothing of a segment is finished.
Fresh(s) == CurFrag(s).done = FALSE /\ s.keyed = TRUE /\ s.ended = FALSE

\* A new segment is empty.
LEMMA NewSegmentIs ==
    ASSUME NEW disc, NEW init
    PROVE  /\ Len(NewSegment(disc, init).frags) >= 1
           /\ Content(NewSegment(disc, init)) = 0 /\ NewSegment(disc, init).dur = 0
           /\ NewSegment(disc, init).held = 0 /\ NewSegment(disc, init).init = init
           /\ Fresh(NewSegment(disc, init))
<1>0. PICK t : t = NewSegment(disc, init)
  OBVIOUS
<1>1. PICK f : f = NewFragment
  OBVIOUS
<1>2. f \in FragmentOf /\ f.dur = 0 /\ f.done = FALSE
  BY <1>1 DEF NewFragment, FragmentOf
<1>3. PICK fs : fs = <<f>>
  OBVIOUS
<1>4. fs \in Seq(FragmentOf) /\ Len(fs) = 1 /\ fs[1] = f /\ Len(fs) >= 1
  BY <1>2, <1>3
<1>5. t = [dur |-> 0, frags |-> fs, parts |-> 0, ended |-> FALSE, done |-> FALSE, held |-> 0,
           keyed |-> TRUE, disc |-> disc, init |-> init]
  BY <1>0, <1>1, <1>3 DEF NewSegment
<1>6. /\ t.frags = fs /\ t.dur = 0 /\ t.held = 0 /\ t.keyed = TRUE
      /\ t.ended = FALSE /\ t.init = init
  BY <1>5
<1>7. CurFrag(t) = f
  BY <1>4, <1>6 DEF CurFrag, Last
<1>8. Content(t) = 0
  BY <1>2, <1>6, <1>7 DEF Content
<1>9. Len(t.frags) >= 1
  BY <1>4, <1>6
<1> QED
  BY <1>0, <1>2, <1>6, <1>7, <1>8, <1>9 DEF Fresh

\* A new segment is one.
LEMMA NewSegmentTyped ==
    ASSUME NEW disc \in BOOLEAN, NEW init \in Nat
    PROVE  NewSegment(disc, init) \in SegmentOf
BY DEF NewSegment, NewFragment, SegmentOf, FragmentOf

-----------------------------------------------------------------------------
(* Sums of durations, and the ids of the playlist *)

\* The sums of the model, for any sequence of segments.
TimeOf(ss, S) == MapThenSumSet(LAMBDA i : ss[i + 1].dur, S)

\* Durations is such a sum.
LEMMA DurationsNow == \A S : Durations(S) = TimeOf(segs, S)
BY DEF Durations, Seg, TimeOf, MapThenSumSet, MapThenFoldSet

\* Those of the segments that stay, after a step.
LEMMA ClosedDurationsNext == Durations(ClosedIds)' = TimeOf(segs', ClosedIds')
BY DEF Durations, Seg, TimeOf, MapThenSumSet, MapThenFoldSet

\* They are sums as ListProofs has them.
LEMMA TimeIsSum ==
    ASSUME NEW ss, NEW S, NEW g, \A i \in S : g[i] = ss[i + 1].dur
    PROVE  TimeOf(ss, S) = SumOver(g, S)
<1> DEFINE F(h) == [s \in SUBSET S |-> IF s = {} THEN 0
                     ELSE ss[(CHOOSE x \in s : TRUE) + 1].dur + h[s \ {CHOOSE x \in s : TRUE}]]
           G(h) == [s \in SUBSET S |-> SumStep(g, h, s)]
<1>1. \A h : F(h) = G(h)
  <2>1. \A s \in SUBSET S : s # {} => (CHOOSE x \in s : TRUE) \in S
    OBVIOUS
  <2> QED
    BY <2>1 DEF SumStep
<1>2. SumOver(g, S) = (CHOOSE h : h = G(h))[S]
  BY SumIs
<1>3. TimeOf(ss, S) = (CHOOSE h : h = F(h))[S]
  BY DEF TimeOf, MapThenSumSet, MapThenFoldSet
<1> HIDE DEF F, G
<1>4. (CHOOSE h : h = F(h)) = (CHOOSE h : h = G(h))
  BY <1>1
<1> QED
  BY <1>2, <1>3, <1>4

\* The ids of a playlist without gaps.
LEMMA IdsAre ==
    ASSUME NEW ids \in Seq(Nat), NEW m \in Nat, NEW n \in Nat, m < n, Len(ids) = n - m,
           \A k \in 1 .. Len(ids) : ids[k] = m + k - 1
    PROVE  /\ Range(ids) = m .. n - 1 /\ ids # <<>>
           /\ Head(ids) = m /\ Last(ids) = n - 1
           /\ Range(Front(ids)) = m .. n - 2
<1>1. \A i \in m .. n - 1 : i - m + 1 \in 1 .. Len(ids) /\ ids[i - m + 1] = i
  OBVIOUS
<1>2. Range(ids) = m .. n - 1
  <2>1. Range(ids) = {ids[k] : k \in 1 .. Len(ids)}
    BY DEF Range
  <2>2. \A i \in m .. n - 1 : \E k \in 1 .. Len(ids) : ids[k] = i
    BY <1>1
  <2>3. \A k \in 1 .. Len(ids) : ids[k] \in m .. n - 1
    OBVIOUS
  <2> QED
    BY <2>1, <2>2, <2>3
<1>3. PICK fr : fr = Front(ids)
  OBVIOUS
<1>4. Len(fr) = n - m - 1 /\ DOMAIN fr = 1 .. n - m - 1 /\ \A k \in 1 .. n - m - 1 : fr[k] = m + k - 1
  BY <1>3 DEF Front
<1>5. Range(fr) = m .. n - 2
  <2>1. Range(fr) = {fr[k] : k \in 1 .. n - m - 1}
    BY <1>4 DEF Range
  <2>2. \A i \in m .. n - 2 : i - m + 1 \in 1 .. n - m - 1 /\ fr[i - m + 1] = i
    BY <1>4
  <2>3. \A i \in m .. n - 2 : \E k \in 1 .. n - m - 1 : fr[k] = i
    BY <2>2
  <2> QED
    BY <1>4, <2>1, <2>3
<1>6. ids # <<>> /\ Head(ids) = m /\ Last(ids) = n - 1
  BY DEF Last
<1> QED
  BY <1>2, <1>3, <1>5, <1>6

-----------------------------------------------------------------------------
(* What a change of the segments leaves as it is *)

\* One segment of a sequence is replaced.
LEMMA Replaced ==
    ASSUME NEW ss \in Seq(SegmentOf), NEW k \in 1 .. Len(ss), NEW t \in SegmentOf,
           NEW tt, tt = [ss EXCEPT ![k] = t]
    PROVE  /\ tt \in Seq(SegmentOf) /\ Len(tt) = Len(ss) /\ tt[k] = t
           /\ \A j \in 1 .. Len(ss) : j # k => tt[j] = ss[j]
OBVIOUS

\* A segment is added.
LEMMA Added ==
    ASSUME NEW ss \in Seq(SegmentOf), NEW t \in SegmentOf, NEW tt, tt = Append(ss, t)
    PROVE  /\ tt \in Seq(SegmentOf) /\ Len(tt) = Len(ss) + 1 /\ tt[Len(ss) + 1] = t
           /\ \A j \in 1 .. Len(ss) : tt[j] = ss[j]
OBVIOUS

\* While the muxer is open the playlist ends with the current segment.
LEMMA Where ==
    ASSUME Shape, Playlist, ~ closed
    PROVE  /\ Len(segs) \in Nat /\ mediaSequence \in Nat /\ segIDs # <<>>
           /\ Cur = Len(segs) - 1 /\ Seg(Cur) = Current
           /\ Current \in SegmentOf /\ Len(Current.frags) >= 1
           /\ Listed = mediaSequence .. Len(segs) - 1 /\ Head(segIDs) = mediaSequence
           /\ ClosedIds = mediaSequence .. Len(segs) - 2
<1>1. /\ segIDs \in Seq(Nat) /\ mediaSequence \in Nat /\ segs \in Seq(SegmentOf)
      /\ Len(segs) >= 1 /\ \A i \in 1 .. Len(segs) : Len(segs[i].frags) >= 1
  BY DEF Shape
<1>2. /\ mediaSequence < Len(segs) /\ Len(segIDs) = Len(segs) - mediaSequence
      /\ \A k \in 1 .. Len(segIDs) : segIDs[k] = mediaSequence + k - 1
  BY DEF Playlist
<1>3. PICK n \in Nat : n = Len(segs)
  BY <1>1
<1>4. /\ Range(segIDs) = mediaSequence .. n - 1 /\ segIDs # <<>>
      /\ Head(segIDs) = mediaSequence /\ Last(segIDs) = n - 1
      /\ Range(Front(segIDs)) = mediaSequence .. n - 2
  BY <1>1, <1>2, <1>3, IdsAre
<1>5. n \in 1 .. Len(segs) /\ segs[n] = Current
  BY <1>1, <1>3 DEF Current
<1>6. Current \in SegmentOf /\ Len(Current.frags) >= 1
  BY <1>1, <1>5
<1>7. Seg(Cur) = segs[n]
  BY <1>3, <1>4 DEF Seg, Cur
<1> QED
  BY <1>1, <1>3, <1>4, <1>5, <1>6, <1>7 DEF Cur, Listed, ClosedIds

\* The discontinuities before n in ss.
DiscOf(ss, n) == {i \in 0 .. n - 1 : ss[i + 1].disc}

\* They are counted, and one more segment adds itself if it is one.
LEMMA DiscOfIs ==
    ASSUME NEW ss, NEW n \in Nat
    PROVE  /\ IsFiniteSet(DiscOf(ss, n)) /\ Cardinality(DiscOf(ss, n)) \in Nat
           /\ Cardinality(DiscOf(ss, 0)) = 0
           /\ Cardinality(DiscOf(ss, n + 1)) =
                 Cardinality(DiscOf(ss, n)) + (IF ss[n + 1].disc THEN 1 ELSE 0)
<1>1. IsFiniteSet(0 .. n - 1)
  BY FS_Interval
<1>2. IsFiniteSet(DiscOf(ss, n))
  BY <1>1, FS_Subset DEF DiscOf
<1>3. Cardinality(DiscOf(ss, n)) \in Nat
  BY <1>2, FS_CardinalityType
<1>4. Cardinality(DiscOf(ss, 0)) = 0
  <2>1. DiscOf(ss, 0) = {}
    BY DEF DiscOf
  <2> QED
    BY <2>1, FS_EmptySet
<1>5. CASE ss[n + 1].disc
  <2>1. DiscOf(ss, n + 1) = DiscOf(ss, n) \cup {n} /\ n \notin DiscOf(ss, n)
    BY <1>5 DEF DiscOf
  <2>2. Cardinality(DiscOf(ss, n) \cup {n}) = Cardinality(DiscOf(ss, n)) + 1
    BY <1>2, <2>1, FS_AddElement
  <2> QED
    BY <1>2, <1>3, <1>4, <1>5, <2>1, <2>2
<1>6. CASE ~ ss[n + 1].disc
  <2>1. DiscOf(ss, n + 1) = DiscOf(ss, n)
    BY <1>6 DEF DiscOf
  <2> QED
    BY <1>2, <1>3, <1>4, <1>6, <2>1
<1> QED
  BY <1>5, <1>6

\* They are the same where the segments are the same in this.
LEMMA DiscOfSame ==
    ASSUME NEW ss, NEW tt, NEW n \in Nat, \A k \in 1 .. n : tt[k].disc = ss[k].disc
    PROVE  DiscOf(tt, n) = DiscOf(ss, n)
<1>1. \A i \in 0 .. n - 1 : i + 1 \in 1 .. n
  OBVIOUS
<1> QED
  BY <1>1 DEF DiscOf

\* The duration of the segments a to b of ss.
DurOf(ss) == [i \in 0 .. Len(ss) - 1 |-> ss[i + 1].dur]
Kept(ss, a, b) == SumOver(DurOf(ss), a .. b)

\* It is a number, and a segment at either end adds its own duration.
LEMMA KeptIs ==
    ASSUME NEW ss \in Seq(SegmentOf), NEW a \in Nat, NEW b \in Int, b < Len(ss)
    PROVE  /\ Kept(ss, a, b) \in Int /\ (a > b => Kept(ss, a, b) = 0)
           /\ a <= b => /\ Kept(ss, a, b) = ss[a + 1].dur + Kept(ss, a + 1, b)
                        /\ Kept(ss, a, b) = ss[b + 1].dur + Kept(ss, a, b - 1)
<1>1. PICK n \in Nat : n = Len(ss)
  OBVIOUS
<1>2. PICK S : S = 0 .. n - 1
  OBVIOUS
<1>3. IsFiniteSet(S)
  BY <1>1, <1>2, FS_Interval
<1>4. PICK g : g = DurOf(ss)
  OBVIOUS
<1>5. g \in [S -> Int] /\ \A i \in S : g[i] = ss[i + 1].dur
  <2>1. \A i \in S : i + 1 \in 1 .. Len(ss)
    BY <1>1, <1>2
  <2>2. \A s \in SegmentOf : s.dur \in Int
    BY DEF SegmentOf
  <2>3. \A i \in S : ss[i + 1].dur \in Int
    BY <2>1, <2>2
  <2> QED
    BY <1>1, <1>2, <1>4, <2>3 DEF DurOf
<1>6. /\ SumOver(g, {}) = 0
      /\ \A T \in SUBSET S : SumOver(g, T) \in Int
      /\ \A T \in SUBSET S : \A x \in T : SumOver(g, T) = g[x] + SumOver(g, T \ {x})
  BY <1>3, <1>5, SumProperties
<1>7. a .. b \in SUBSET S
  BY <1>1, <1>2
<1>8. a > b => a .. b = {}
  OBVIOUS
<1>9. ASSUME a <= b
      PROVE  /\ Kept(ss, a, b) = ss[a + 1].dur + Kept(ss, a + 1, b)
             /\ Kept(ss, a, b) = ss[b + 1].dur + Kept(ss, a, b - 1)
  <2>1. a \in a .. b /\ b \in a .. b
    BY <1>9
  <2>2. (a .. b) \ {a} = (a + 1) .. b /\ (a .. b) \ {b} = a .. (b - 1)
    BY <1>9
  <2>3. /\ SumOver(g, a .. b) = g[a] + SumOver(g, (a .. b) \ {a})
        /\ SumOver(g, a .. b) = g[b] + SumOver(g, (a .. b) \ {b})
    BY <1>6, <1>7, <2>1
  <2>4. g[a] = ss[a + 1].dur /\ g[b] = ss[b + 1].dur
    BY <1>5, <1>7, <2>1
  <2> QED
    BY <1>4, <2>2, <2>3, <2>4 DEF Kept
<1>10. SumOver(g, a .. b) \in Int /\ (a > b => SumOver(g, a .. b) = 0)
  BY <1>6, <1>7, <1>8
<1> QED
  BY <1>4, <1>9, <1>10 DEF Kept

\* Durations of other segments do not matter.
LEMMA KeptSame ==
    ASSUME NEW ss \in Seq(SegmentOf), NEW tt \in Seq(SegmentOf), NEW a \in Nat, NEW b \in Int,
           b < Len(ss), b < Len(tt), \A k \in a + 1 .. b + 1 : tt[k].dur = ss[k].dur
    PROVE  Kept(tt, a, b) = Kept(ss, a, b)
<1>1. \A i \in a .. b : i \in 0 .. Len(ss) - 1 /\ i \in 0 .. Len(tt) - 1 /\ i + 1 \in a + 1 .. b + 1
  OBVIOUS
<1>2. \A i \in a .. b : DurOf(tt)[i] = DurOf(ss)[i]
  BY <1>1 DEF DurOf
<1> QED
  BY <1>2, SumAgrees DEF Kept

\* Such are the sums of the model.
LEMMA TimeIs ==
    ASSUME NEW ss \in Seq(SegmentOf), NEW a \in Nat, NEW b \in Int, b < Len(ss)
    PROVE  TimeOf(ss, a .. b) = Kept(ss, a, b)
<1>1. \A i \in a .. b : i \in 0 .. Len(ss) - 1
  OBVIOUS
<1>2. \A i \in a .. b : DurOf(ss)[i] = ss[i + 1].dur
  BY <1>1 DEF DurOf
<1> QED
  BY <1>2, TimeIsSum DEF Kept

\* The limit of a playlist whose segments are counted.
LEMMA MaxPlaylistIs ==
    ASSUME Shape
    PROVE  MaxPlaylist \in Nat
<1>1. opt.count \in Nat /\ SegDuration \in Nat
  BY OptionsAssumption, DurationsAssumption DEF Shape
<1>2. \A a \in Nat, b \in Nat : a * b \in Nat
  OBVIOUS
<1> QED
  BY <1>1, <1>2 DEF MaxPlaylist

\* The duration of the closed segments, and of the segment evicted last.
LEMMA ClosedTime ==
    ASSUME Shape, Playlist, ~ closed
    PROVE  /\ Durations(ClosedIds) = Kept(segs, mediaSequence, Len(segs) - 2)
           /\ Kept(segs, mediaSequence, Len(segs) - 2) \in Int
           /\ mediaSequence > 0 => EvictedLast = segs[mediaSequence].dur /\ EvictedLast \in Nat
<1>1. PICK n \in Nat, m \in Nat : n = Len(segs) /\ m = mediaSequence
  BY Where
<1>2. m < n /\ segs \in Seq(SegmentOf) /\ ClosedIds = m .. n - 2
  BY <1>1, Where DEF Shape, Playlist
<1>3. n - 2 \in Int /\ n - 2 < Len(segs)
  BY <1>1
<1>4. Durations(m .. n - 2) = Kept(segs, m, n - 2) /\ Kept(segs, m, n - 2) \in Int
  BY <1>2, <1>3, DurationsNow, TimeIs, KeptIs
<1>5. ASSUME m > 0
      PROVE  EvictedLast = segs[m].dur /\ EvictedLast \in Nat
  <2>1. m \in 1 .. Len(segs) /\ m - 1 + 1 = m
    BY <1>1, <1>2, <1>5
  <2>2. segs[m].dur \in Nat
    BY <1>2, <2>1, SegmentFields
  <2> QED
    BY <1>1, <2>1, <2>2 DEF EvictedLast, Seg
<1> QED
  BY <1>1, <1>2, <1>4, <1>5

\* The current segment is written to, or closed: the playlist, and what the
\* manifest knows of the segments before it, stay as they are.
LEMMA CurrentChanges ==
    ASSUME Shape, Control, Playlist, Manifest, Inits, Eviction, ~ closed,
           wpc \notin {"add", "update", "evict"}, wpc' # "evict",
           NEW t, SameRest(t, Current), segs' = Set(Cur, t),
           UNCHANGED <<opt, closed, segIDs, mediaSequence, discontinuitySequence, initVersion,
                       initCache, manifest>>
    PROVE  /\ segs' \in Seq(SegmentOf) /\ Len(segs') = Len(segs) /\ Len(segs) >= 1
           /\ \A i \in 1 .. Len(segs) : Len(segs'[i].frags) >= 1
           /\ Current' = t /\ \A i \in 1 .. Len(segs) - 1 : segs'[i] = segs[i]
           /\ Playlist' /\ Manifest' /\ Inits' /\ Eviction'
<1>1. PICK n \in Nat, m \in Nat : n = Len(segs) /\ m = mediaSequence
  BY Where
<1>2. /\ Cur = n - 1 /\ Seg(Cur) = Current /\ Listed = m .. n - 1 /\ Head(segIDs) = m
      /\ ClosedIds = m .. n - 2 /\ segIDs # <<>>
  BY <1>1, Where
<1>3. t \in SegmentOf /\ Len(t.frags) >= 1 /\ t.disc = Current.disc /\ t.init = Current.init
  BY DEF SameRest
<1>4. /\ segs \in Seq(SegmentOf) /\ n >= 1 /\ \A i \in 1 .. n : Len(segs[i].frags) >= 1
  BY <1>1 DEF Shape
<1>5. segs' = [segs EXCEPT ![n] = t]
  BY <1>1, <1>2 DEF Set
<1>6. n \in 1 .. Len(segs)
  BY <1>1, <1>4
<1>7. /\ segs' \in Seq(SegmentOf) /\ Len(segs') = n /\ segs'[n] = t
      /\ \A i \in 1 .. n : i # n => segs'[i] = segs[i]
  BY <1>1, <1>3, <1>4, <1>5, <1>6, Replaced
<1>8. Current' = t /\ \A i \in 1 .. n - 1 : segs'[i] = segs[i]
  BY <1>7 DEF Current
<1>9. \A i \in 1 .. n : Len(segs'[i].frags) >= 1
  BY <1>3, <1>4, <1>7
<1>10. segs[n] = Current
  BY <1>1 DEF Current
<1>11. \A i \in 1 .. n : segs'[i].disc = segs[i].disc /\ segs'[i].init = segs[i].init
  BY <1>3, <1>7, <1>10
<1>12. /\ m < n /\ Len(segIDs) = n - m /\ \A k \in 1 .. Len(segIDs) : segIDs[k] = m + k - 1
       /\ discontinuitySequence = Cardinality(DiscOf(segs, m))
       /\ \A i \in Ids \ Listed : Seg(i).held = 0
  BY <1>1 DEF Playlist, Discontinuities, DiscOf, Seg
<1>13. DiscOf(segs', m) = DiscOf(segs, m)
  BY <1>11, <1>12, DiscOfSame
<1>14. \A i \in Ids' \ Listed' : Seg(i)' = Seg(i) /\ i \in Ids \ Listed
  <2>1. Ids' = Ids /\ Ids = 0 .. n - 1 /\ Listed' = Listed
    BY <1>1, <1>7 DEF Ids, Listed
  <2>2. \A i \in Ids \ Listed : i + 1 \in 1 .. n /\ i + 1 # n
    BY <1>2, <1>12, <2>1
  <2> QED
    BY <1>7, <2>1, <2>2 DEF Seg
<1>15. Playlist'
  BY <1>1, <1>7, <1>12, <1>13, <1>14 DEF Playlist, Discontinuities, DiscOf, Seg
<1>16. /\ manifest.seq \in Nat /\ manifest.list \in Seq(EntryOf)
       /\ manifest.seq <= m /\ Published <= n
       /\ manifest.disc = Cardinality(DiscOf(segs, manifest.seq))
       /\ \A k \in 1 .. Len(manifest.list) :
             /\ manifest.list[k].id = manifest.seq + k - 1
             /\ manifest.list[k].init = Seg(manifest.list[k].id).init
             /\ manifest.list[k].ended => manifest.list[k] = Entry(manifest.list[k].id)
  BY <1>1 DEF Shape, ManifestOf, Manifest, Discontinuities, DiscOf, Seg
<1>17. Manifest'
  <2>1. DiscOf(segs', manifest.seq) = DiscOf(segs, manifest.seq)
    BY <1>11, <1>12, <1>16, DiscOfSame
  <2>2. ASSUME NEW k \in 1 .. Len(manifest.list)
        PROVE  /\ manifest.list[k].id = manifest.seq + k - 1
               /\ manifest.list[k].init = segs'[manifest.list[k].id + 1].init
               /\ manifest.list[k].ended => manifest.list[k] = Entry(manifest.list[k].id)'
    <3>0. Len(manifest.list) \in Nat /\ manifest.seq + Len(manifest.list) <= n
      BY <1>16 DEF Published
    <3>1. manifest.seq + k \in 1 .. n /\ manifest.list[k].id + 1 = manifest.seq + k
      <4>1. /\ manifest.seq \in Nat /\ k \in Nat /\ 1 <= k /\ k <= Len(manifest.list)
            /\ manifest.list[k].id = manifest.seq + k - 1
        BY <1>16, <3>0
      <4> QED
        BY <3>0, <4>1
    <3>2. manifest.list[k].init = segs'[manifest.list[k].id + 1].init
      BY <1>11, <1>16, <3>1 DEF Seg
    <3>3. ASSUME manifest.list[k].ended
          PROVE  manifest.list[k] = Entry(manifest.list[k].id)'
      <4>1. Entry(manifest.list[k].id).ended
        BY <1>16, <3>3
      <4>2. Seg(manifest.list[k].id).ended
        BY <4>1 DEF Entry
      <4>3. manifest.list[k].id + 1 # n
        BY <1>10, <4>2 DEF Control, Seg
      <4>4. Seg(manifest.list[k].id)' = Seg(manifest.list[k].id)
        BY <1>7, <3>1, <4>3 DEF Seg
      <4> QED
        BY <1>16, <3>3, <4>4 DEF Entry
    <3> QED
      BY <1>16, <3>2, <3>3
  <2> QED
    BY <1>1, <1>7, <1>16, <2>1, <2>2 DEF Manifest, Discontinuities, DiscOf, Seg, Published
<1>18. Inits'
  <2>1. \A i \in Listed : Seg(i)'.init = Seg(i).init
    BY <1>1, <1>2, <1>11 DEF Seg
  <2> QED
    BY <1>3, <1>8, <2>1 DEF Inits, Listed
<1>19. Eviction'
  <2>1. ClosedIds' = m .. n - 2 /\ Durations(ClosedIds) = TimeOf(segs, m .. n - 2)
        /\ Durations(ClosedIds)' = TimeOf(segs', ClosedIds')
    BY <1>2, DurationsNow, ClosedDurationsNext DEF ClosedIds
  <2>2. TimeOf(segs, m .. n - 2) = Kept(segs, m, n - 2) /\ TimeOf(segs', m .. n - 2) = Kept(segs', m, n - 2)
    BY <1>1, <1>4, <1>7, TimeIs
  <2>3. Kept(segs', m, n - 2) = Kept(segs, m, n - 2)
    <3>1. n - 2 \in Int /\ n - 2 < Len(segs) /\ n - 2 < Len(segs')
      BY <1>1, <1>7
    <3>2. \A k \in m + 1 .. n - 2 + 1 : segs'[k].dur = segs[k].dur
      BY <1>7
    <3> QED
      BY <1>4, <1>7, <3>1, <3>2, KeptSame
  <2>4. Durations(ClosedIds)' = Durations(ClosedIds)
    BY <2>1, <2>2, <2>3
  <2>5. Len(segIDs) > 2 => Seg(Head(segIDs))' = Seg(Head(segIDs))
    BY <1>2, <1>7, <1>12 DEF Seg
  <2>6. mediaSequence > 0 => EvictedLast' = EvictedLast
    <3>1. m > 0 => m - 1 + 1 = m /\ m \in 1 .. n /\ m # n
      BY <1>12
    <3> QED
      BY <1>1, <1>7, <3>1 DEF EvictedLast, Seg
  <2>7. MaxPlaylist' = MaxPlaylist
    BY DEF MaxPlaylist
  <2> QED
    BY <1>1, <1>7, <2>4, <2>5, <2>6, <2>7 DEF Eviction
<1> QED
  BY <1>1, <1>4, <1>7, <1>8, <1>9, <1>15, <1>17, <1>18, <1>19

\* What begins a segment.
Begins(disc, init) ==
    /\ wpc' = "evict" /\ initVersion' = init
    /\ initCache \subseteq initCache' /\ init \in initCache'
    /\ segs' = Append(segs, NewSegment(disc, init)) /\ segIDs' = Append(segIDs, Cur + 1)
    /\ UNCHANGED <<opt, closed, mediaSequence, discontinuitySequence, manifest>>

\* A segment is begun: it is listed, is not in the manifest, and eviction has
\* one more segment that stays.
LEMMA SegmentBegun ==
    ASSUME Shape, Playlist, Manifest, Inits, Eviction, ~ closed,
           NEW disc \in BOOLEAN, NEW init \in Nat, Begins(disc, init)
    PROVE  /\ segs' \in Seq(SegmentOf) /\ Len(segs') = Len(segs) + 1 /\ Len(segs) >= 1
           /\ \A i \in 1 .. Len(segs') : Len(segs'[i].frags) >= 1
           /\ Current' = NewSegment(disc, init) /\ segIDs' \in Seq(Nat)
           /\ \A i \in 1 .. Len(segs) : segs'[i] = segs[i]
           /\ Playlist' /\ Manifest' /\ Inits' /\ Eviction'
<1>1. PICK n \in Nat, m \in Nat : n = Len(segs) /\ m = mediaSequence
  BY Where
<1>2. /\ Cur = n - 1 /\ Seg(Cur) = Current /\ Listed = m .. n - 1 /\ Head(segIDs) = m
      /\ ClosedIds = m .. n - 2 /\ segIDs # <<>>
  BY <1>1, Where
<1>3. PICK t : t = NewSegment(disc, init)
  OBVIOUS
<1>n. /\ UNCHANGED <<opt, closed, mediaSequence, discontinuitySequence, manifest>>
      /\ wpc' = "evict" /\ initVersion' = init
      /\ initCache \subseteq initCache' /\ init \in initCache'
  BY DEF Begins
<1>4. t \in SegmentOf /\ Len(t.frags) >= 1 /\ t.dur = 0 /\ t.held = 0 /\ t.init = init
  <2>1. /\ Len(NewSegment(disc, init).frags) >= 1 /\ NewSegment(disc, init).dur = 0
        /\ NewSegment(disc, init).held = 0 /\ NewSegment(disc, init).init = init
    BY NewSegmentIs
  <2>2. NewSegment(disc, init) \in SegmentOf
    BY NewSegmentTyped
  <2> QED
    BY <1>3, <2>1, <2>2
<1>5. /\ segs \in Seq(SegmentOf) /\ n >= 1 /\ \A i \in 1 .. n : Len(segs[i].frags) >= 1
      /\ segIDs \in Seq(Nat)
  BY <1>1 DEF Shape
<1>6. /\ segs' \in Seq(SegmentOf) /\ Len(segs') = n + 1 /\ segs'[n + 1] = t
      /\ \A i \in 1 .. n : segs'[i] = segs[i]
  <2>1. segs' = Append(segs, t)
    BY <1>3 DEF Begins
  <2> QED
    BY <1>1, <1>4, <1>5, <2>1, Added
<1>7. Current' = t
  <2>1. Current' = segs'[Len(segs')]
    BY DEF Current
  <2> QED
    BY <1>6, <2>1
<1>8. \A i \in 1 .. n + 1 : Len(segs'[i].frags) >= 1
  <2>1. \A i \in 1 .. n + 1 : i \in 1 .. n \/ i = n + 1
    OBVIOUS
  <2> QED
    BY <1>4, <1>5, <1>6, <2>1
<1>9. /\ m < n /\ Len(segIDs) = n - m /\ \A k \in 1 .. Len(segIDs) : segIDs[k] = m + k - 1
      /\ discontinuitySequence = Cardinality(DiscOf(segs, m))
      /\ \A i \in Ids \ Listed : Seg(i).held = 0
  BY <1>1 DEF Playlist, Discontinuities, DiscOf, Seg
<1>10. /\ segIDs' \in Seq(Nat) /\ Len(segIDs') = n + 1 - m
       /\ \A k \in 1 .. Len(segIDs') : segIDs'[k] = m + k - 1
  <2>1. segIDs' = Append(segIDs, n)
    <3>1. segIDs' = Append(segIDs, Cur + 1)
      BY DEF Begins
    <3>2. Cur + 1 = n
      BY <1>1, <1>2
    <3> QED
      BY <3>1, <3>2
  <2>2. Len(segIDs') = Len(segIDs) + 1 /\ segIDs' \in Seq(Nat)
    BY <1>5, <2>1
  <2>3. ASSUME NEW k \in 1 .. Len(segIDs')
        PROVE  segIDs'[k] = m + k - 1
    <3>1. CASE k = Len(segIDs) + 1
      BY <1>5, <1>9, <2>1, <3>1
    <3>2. CASE k \in 1 .. Len(segIDs)
      BY <1>5, <1>9, <2>1, <3>2
    <3> QED
      BY <1>5, <2>2, <3>1, <3>2
  <2>4. Len(segIDs) = n - m /\ m < n
    BY <1>9
  <2>5. Len(segIDs') = n + 1 - m
    BY <2>2, <2>4
  <2> QED
    BY <2>2, <2>3, <2>5
<1>11. /\ Listed' = m .. n /\ Head(segIDs') = m /\ ClosedIds' = m .. n - 1
  <2>0. m < n
    BY <1>9
  <2>1. m < n + 1 /\ n + 1 \in Nat /\ Len(segIDs') = (n + 1) - m
    BY <1>10, <2>0
  <2>2. /\ Range(segIDs') = m .. (n + 1) - 1 /\ Head(segIDs') = m
        /\ Range(Front(segIDs')) = m .. (n + 1) - 2
    BY <1>10, <2>1, IdsAre
  <2>3. (n + 1) - 1 = n /\ (n + 1) - 2 = n - 1
    BY <1>1
  <2>4. Range(segIDs') = m .. n /\ Range(Front(segIDs')) = m .. n - 1
    BY <2>2, <2>3
  <2> QED
    BY <2>2, <2>4 DEF Listed, ClosedIds
<1>12. \A k \in Nat : k <= n => DiscOf(segs', k) = DiscOf(segs, k)
  <2>1. \A k \in Nat : k <= n => \A i \in 1 .. k : segs'[i].disc = segs[i].disc
    BY <1>6
  <2> QED
    BY <2>1, DiscOfSame
<1>13. \A i \in Ids' \ Listed' : Seg(i)' = Seg(i) /\ i \in Ids \ Listed
  <2>1. Ids' = 0 .. n /\ Ids = 0 .. n - 1
    BY <1>1, <1>6 DEF Ids
  <2>2. \A i \in Ids' \ Listed' : i \in Ids \ Listed /\ i + 1 \in 1 .. n
    BY <1>2, <1>9, <1>11, <2>1
  <2> QED
    BY <1>6, <2>2 DEF Seg
<1>14. Playlist'
  <2>1. /\ mediaSequence' = m /\ m < Len(segs') /\ Len(segIDs') = Len(segs') - m
    BY <1>1, <1>n, <1>6, <1>9, <1>10
  <2>2. discontinuitySequence' = Cardinality(DiscOf(segs', m))
    BY <1>n, <1>9, <1>12
  <2>3. \A i \in Ids' \ Listed' : Seg(i)'.held = 0
    BY <1>9, <1>13
  <2> QED
    BY <1>n, <1>10, <2>1, <2>2, <2>3 DEF Playlist, Discontinuities, DiscOf, Seg
<1>15. /\ manifest.seq \in Nat /\ Len(manifest.list) \in Nat
       /\ manifest.seq <= m /\ Published <= n
       /\ manifest.disc = Cardinality(DiscOf(segs, manifest.seq))
       /\ \A k \in 1 .. Len(manifest.list) :
             /\ manifest.list[k].id = manifest.seq + k - 1
             /\ manifest.list[k].init = Seg(manifest.list[k].id).init
             /\ manifest.list[k].ended => manifest.list[k] = Entry(manifest.list[k].id)
  BY <1>1 DEF Shape, ManifestOf, Manifest, Discontinuities, DiscOf, Seg
<1>16. Manifest'
  <2>1. DiscOf(segs', manifest.seq) = DiscOf(segs, manifest.seq)
    BY <1>9, <1>12, <1>15
  <2>2. ASSUME NEW k \in 1 .. Len(manifest.list)
        PROVE  Seg(manifest.list[k].id)' = Seg(manifest.list[k].id)
    <3>0. manifest.list[k].id = manifest.seq + k - 1 /\ Published <= n
      BY <1>15
    <3>1. /\ k \in Nat /\ 1 <= k /\ k <= Len(manifest.list)
          /\ manifest.list[k].id = manifest.seq + k - 1
          /\ manifest.seq + Len(manifest.list) <= n
      BY <1>15, <3>0 DEF Published
    <3>2. manifest.list[k].id + 1 \in 1 .. n
      BY <1>15, <3>1
    <3> QED
      BY <1>n, <1>6, <3>2 DEF Seg
  <2>3. Published' = Published /\ Published < n + 1
    BY <1>n, <1>15 DEF Published
  <2>4. \A k \in 1 .. Len(manifest.list) :
            /\ manifest.list[k].id = manifest.seq + k - 1
            /\ manifest.list[k].init = Seg(manifest.list[k].id)'.init
            /\ manifest.list[k].ended => manifest.list[k] = Entry(manifest.list[k].id)'
    BY <1>n, <1>15, <2>2 DEF Entry
  <2>5. manifest' = manifest /\ mediaSequence' = m /\ Len(segs') = n + 1
    BY <1>1, <1>n, <1>6
  <2>6. manifest.seq <= m /\ Published' <= n + 1 /\ Published' < n + 1
    <3>1. Published \in Int
      BY <1>15 DEF Published
    <3> QED
      BY <1>15, <2>3, <3>1
  <2>7. manifest.disc = Cardinality(DiscOf(segs', manifest.seq))
    BY <1>15, <2>1
  <2> QED
    BY <1>n, <2>4, <2>5, <2>6, <2>7 DEF Manifest, Discontinuities, DiscOf, Seg
<1>17. Inits'
  <2>1. \A i \in Listed : Seg(i)' = Seg(i) /\ Seg(i).init \in initCache
    BY <1>1, <1>2, <1>6 DEF Seg, Inits
  <2>2. \A i \in Listed' : i \in Listed \/ Seg(i)' = t
    BY <1>2, <1>6, <1>11 DEF Seg
  <2> QED
    BY <1>n, <1>4, <1>7, <2>1, <2>2 DEF Inits
<1>18. Eviction'
  <2>1. /\ Durations(ClosedIds) = TimeOf(segs, m .. n - 2)
        /\ Durations(ClosedIds)' = TimeOf(segs', m .. n - 1)
    BY <1>2, <1>11, DurationsNow, ClosedDurationsNext
  <2>2. TimeOf(segs, m .. n - 2) = Kept(segs, m, n - 2) /\ TimeOf(segs', m .. n - 1) = Kept(segs', m, n - 1)
    <3>1. n - 2 \in Int /\ n - 2 < Len(segs) /\ n - 1 \in Int /\ n - 1 < Len(segs')
      BY <1>1, <1>6
    <3> QED
      BY <1>5, <1>6, <3>1, TimeIs
  <2>3. Kept(segs', m, n - 1) = segs'[n].dur + Kept(segs', m, n - 2)
    <3>1. n - 1 \in Int /\ n - 1 < Len(segs') /\ m <= n - 1 /\ (n - 1) + 1 = n /\ (n - 1) - 1 = n - 2
      BY <1>6, <1>9
    <3>2. \A a \in Nat, b \in Int : b < Len(segs') /\ a <= b =>
             Kept(segs', a, b) = segs'[b + 1].dur + Kept(segs', a, b - 1)
      BY <1>6, KeptIs
    <3>3. Kept(segs', m, n - 1) = segs'[(n - 1) + 1].dur + Kept(segs', m, (n - 1) - 1)
      BY <3>1, <3>2
    <3> QED
      BY <3>1, <3>3
  <2>4. Kept(segs', m, n - 2) = Kept(segs, m, n - 2)
    <3>1. n - 2 \in Int /\ n - 2 < Len(segs) /\ n - 2 < Len(segs')
      BY <1>1, <1>6
    <3>2. \A k \in m + 1 .. n - 2 + 1 : segs'[k].dur = segs[k].dur
      BY <1>6
    <3> QED
      BY <1>5, <1>6, <3>1, <3>2, KeptSame
  <2>5. segs'[n].dur \in Nat
    BY <1>1, <1>5, <1>6, SegmentFields
  <2>6. Kept(segs, m, n - 2) \in Int
    <3>1. n - 2 \in Int /\ n - 2 < Len(segs)
      BY <1>1
    <3> QED
      BY <1>5, <3>1, KeptIs
  <2>7. opt.keep \in Int /\ opt.count \in Nat
    BY OptionsAssumption DEF Shape
  <2>8. opt.keep > 0 /\ mediaSequence' > 0 => Durations(ClosedIds)' >= opt.keep
    <3>1. opt.keep > 0 /\ m > 0 => Kept(segs, m, n - 2) >= opt.keep
      BY <1>1, <1>n, <2>1, <2>2 DEF Eviction
    <3>2. Kept(segs', m, n - 1) >= Kept(segs, m, n - 2) /\ Kept(segs', m, n - 1) \in Int
      <4>1. Kept(segs', m, n - 1) = segs'[n].dur + Kept(segs, m, n - 2)
        BY <2>3, <2>4
      <4>2. \A d \in Nat, k \in Int : d + k >= k /\ d + k \in Int
        OBVIOUS
      <4> QED
        BY <2>5, <2>6, <4>1, <4>2
    <3>3. opt.keep > 0 /\ m > 0 => Kept(segs', m, n - 1) >= opt.keep
      BY <2>6, <2>7, <3>1, <3>2
    <3> QED
      BY <1>1, <1>n, <2>1, <2>2, <3>3
  <2>9. Len(segIDs) >= opt.count \/ Len(segIDs) >= Len(segs) =>
           Len(segIDs') >= opt.count \/ Len(segIDs') >= Len(segs')
    BY <1>1, <1>6, <1>9, <1>10, <2>7
  <2>10. ~ (opt.keep > 0) /\ mediaSequence' > 0 =>
             Durations(ClosedIds)' + EvictedLast' > MaxPlaylist'
    <3>1. MaxPlaylist' = MaxPlaylist /\ MaxPlaylist \in Nat
      BY <1>n, MaxPlaylistIs DEF MaxPlaylist
    <3>2. m > 0 => EvictedLast' = EvictedLast /\ EvictedLast \in Nat
      <4>1. m > 0 => m - 1 + 1 = m /\ m \in 1 .. n
        BY <1>9
      <4>2. m > 0 => EvictedLast' = EvictedLast
        BY <1>1, <1>n, <1>6, <4>1 DEF EvictedLast, Seg
      <4> QED
        BY <1>1, <4>2, ClosedTime
    <3>3. PICK a \in Int, b \in Nat : a = Kept(segs, m, n - 2) /\ b = segs'[n].dur
      BY <2>5, <2>6
    <3>4. Durations(ClosedIds) = a /\ Durations(ClosedIds)' = b + a
      BY <2>1, <2>2, <2>3, <2>4, <3>3
    <3>5. ~ (opt.keep > 0) /\ m > 0 => a + EvictedLast > MaxPlaylist
      BY <1>1, <3>4 DEF Eviction
    <3>6. ~ (opt.keep > 0) /\ m > 0 => (b + a) + EvictedLast > MaxPlaylist
      BY <3>1, <3>2, <3>3, <3>5
    <3> QED
      BY <1>1, <1>n, <3>1, <3>2, <3>4, <3>6
  <2> QED
    BY <1>1, <1>n, <2>8, <2>9, <2>10 DEF Eviction
<1> QED
  BY <1>1, <1>3, <1>5, <1>6, <1>7, <1>8, <1>10, <1>14, <1>16, <1>17, <1>18

\* Segments keep their beginnings.
LEMMA KeyedKept ==
    ASSUME Shape, Manifest, Keyed, UNCHANGED <<opt, manifest>>, capSplitSeen => capSplitSeen',
           Len(segs') \in Nat, \A i \in 1 .. Len(segs) : segs'[i].keyed = segs[i].keyed,
           \A i \in 1 .. Len(segs') : i > Len(segs) => segs'[i].keyed
    PROVE  Keyed'
<1>1. PICK n \in Nat : n = Len(segs) /\ n >= 1
  BY DEF Shape
<1>2. ASSUME opt'.keyframeSplit, ~ capSplitSeen', NEW i \in Ids'
      PROVE  Seg(i)'.keyed
  <2>1. i + 1 \in 1 .. Len(segs') /\ i + 1 \in Nat
    BY <1>2 DEF Ids
  <2>2. i + 1 \in 1 .. Len(segs) => segs[i + 1].keyed
    BY <1>1, <1>2 DEF Keyed, Ids, Seg
  <2> QED
    BY <1>1, <2>1, <2>2 DEF Seg
<1>3. ASSUME manifest'.independent, NEW k \in 1 .. Len(manifest.list)
      PROVE  Seg(manifest.list[k].id)'.keyed
  <2>1. /\ manifest.seq \in Nat /\ Len(manifest.list) \in Nat /\ k \in Nat /\ 1 <= k
        /\ k <= Len(manifest.list)
    BY DEF Shape, ManifestOf
  <2>2. manifest.seq + Len(manifest.list) <= n /\ manifest.list[k].id = manifest.seq + k - 1
    BY <1>1 DEF Manifest, Published
  <2>3. manifest.list[k].id + 1 \in 1 .. n
    BY <1>1, <2>1, <2>2
  <2>4. segs[manifest.list[k].id + 1].keyed
    BY <1>3 DEF Keyed, Seg
  <2> QED
    BY <1>1, <2>3, <2>4 DEF Seg
<1> QED
  BY <1>2, <1>3 DEF Keyed

\* No segment outgrows the limit.
LEMMA LengthsKept ==
    ASSUME Shape, Lengths, UNCHANGED opt, Len(segs') \in Nat, job'.dur <= SegDuration,
           \A i \in 1 .. Len(segs') : \/ i <= Len(segs) /\ segs'[i].dur = segs[i].dur
                                      \/ Limited => segs'[i].dur <= Limit,
           Limited => /\ wpc' \notin {"add", "update"} => Content(Current)' <= Limit
                      /\ wpc' = "append" => Content(Current)' + job'.dur <= Limit
    PROVE  Lengths'
<1>1. Limit' = Limit /\ Limited' = Limited
  BY DEF Limit, Limited
<1>2. PICK n \in Nat : n = Len(segs)
  BY DEF Shape
<1>3. ASSUME Limited, NEW i \in Ids'
      PROVE  Seg(i)'.dur <= Limit
  <2>1. i + 1 \in 1 .. Len(segs') /\ i + 1 \in Nat /\ i + 1 >= 1 /\ i \in Int
    BY <1>3 DEF Ids
  <2>2. CASE i + 1 <= n
    <3>1. i \in Ids
      BY <1>2, <2>1, <2>2 DEF Ids
    <3>2. segs[i + 1].dur <= Limit
      BY <1>3, <3>1 DEF Lengths, Seg
    <3> QED
      BY <1>3, <2>1, <3>2 DEF Seg
  <2>3. CASE i + 1 > n
    BY <1>2, <1>3, <2>1, <2>3 DEF Seg
  <2> QED
    BY <1>2, <2>1, <2>2, <2>3
<1> QED
  BY <1>1, <1>3 DEF Lengths

-----------------------------------------------------------------------------
(* The steps *)

\* The options have their types.
LEMMA OptionsAre ==
    ASSUME Shape
    PROVE  /\ opt.keyframeSplit \in BOOLEAN /\ opt.keep \in Int /\ opt.count \in Nat
           /\ opt.cap \in Nat /\ (opt.cap # 0 => opt.cap >= SegDuration)
           /\ SegDuration \in Nat /\ SegDuration >= 1 /\ Limit \in Nat /\ Limit >= SegDuration
<1>1. /\ opt.keyframeSplit \in BOOLEAN /\ opt.keep \in Int /\ opt.count \in Nat
      /\ opt.cap \in Nat /\ (opt.cap # 0 => opt.cap >= SegDuration)
  BY OptionsAssumption DEF Shape
<1>2. SegDuration \in Nat /\ SegDuration >= 1
  BY DurationsAssumption
<1> QED
  BY <1>1, <1>2 DEF Limit

\* No job has its own values.
LEMMA NoJobIs == /\ NoJob \in JobOf /\ NoJob.dur = 0 /\ ~ NoJob.video /\ ~ NoJob.key
BY DEF NoJob, JobOf

\* Packets are jobs.
LEMMA PacketIs ==
    ASSUME NEW p \in Packets, NEW disc \in BOOLEAN
    PROVE  /\ [p EXCEPT !.disc = disc] \in JobOf
           /\ [p EXCEPT !.disc = disc].video = p.video /\ [p EXCEPT !.disc = disc].key = p.key
           /\ [p EXCEPT !.disc = disc].dur = p.dur
           /\ p.dur \in Nat /\ p.dur <= SegDuration /\ (p.key => p.video)
           /\ (~ p.video => p.dur = 0)
<1> DEFINE Known == /\ p \in JobOf /\ p.dur \in Nat /\ p.dur <= SegDuration
                    /\ (p.key => p.video) /\ (~ p.video => p.dur = 0)
<1>1. SegDuration \in Nat /\ \A d \in PktDurations : d \in Nat /\ d <= SegDuration
  BY DurationsAssumption
<1>2. ASSUME p \in [video : {TRUE}, key : BOOLEAN, dur : PktDurations, disc : {FALSE}]
      PROVE Known
  BY <1>1, <1>2 DEF JobOf
<1>3. ASSUME p \in [video : {FALSE}, key : {FALSE}, dur : {0}, disc : {FALSE}]
      PROVE Known
  <2>1. p = [video |-> FALSE, key |-> FALSE, dur |-> 0, disc |-> FALSE]
    BY <1>3
  <2>2. ~ p.video /\ ~ p.key /\ p.dur = 0
    BY <2>1
  <2>3. p \in JobOf
    BY <2>1 DEF JobOf
  <2> QED
    BY <1>1, <2>2, <2>3
<1>4. Known
  BY <1>2, <1>3 DEF Packets
<1>5. \A q \in JobOf : /\ [q EXCEPT !.disc = disc] \in JobOf
                       /\ [q EXCEPT !.disc = disc].video = q.video
                       /\ [q EXCEPT !.disc = disc].key = q.key
                       /\ [q EXCEPT !.disc = disc].dur = q.dur
  BY DEF JobOf
<1> QED
  BY <1>4, <1>5

\* WritePacket decides what becomes of the packet.
LEMMA WritePacketStep ==
    ASSUME IInv, NEW p \in Packets, WritePacket(p)
    PROVE  IInv'
<1> USE DEF IInv
<1>1. /\ wpc = "idle" /\ ~ closed /\ Admitted(p) /\ gateOpen' = TRUE
      /\ capSplitSeen' = (capSplitSeen \/ (~ Wraps(p) /\ p.video /\ CapCut(p)))
      /\ job' = [p EXCEPT !.disc = Wraps(p)]
      /\ wpc' = IF Wraps(p) \/ Rotates(p) THEN "close" ELSE "append"
      /\ UNCHANGED <<opt, segs, segIDs, mediaSequence, discontinuitySequence, initVersion,
                     initCache, manifest, closed>>
  BY DEF WritePacket, counts
<1>2. Wraps(p) \in BOOLEAN
  BY DEF Wraps
<1>3. /\ job' \in JobOf /\ job'.video = p.video /\ job'.key = p.key /\ job'.dur = p.dur
      /\ p.dur \in Nat /\ p.dur <= SegDuration /\ (p.key => p.video) /\ (~ p.video => p.dur = 0)
  BY <1>1, <1>2, PacketIs
<1>4. wpc' \in {"close", "append"} /\ wpc' \in Labels /\ (wpc' = "close" => p.video)
  BY <1>1, <1>3 DEF Wraps, Rotates, Labels
<1>5. Current' = Current
  BY <1>1 DEF Current
<1>6. Shape'
  BY <1>1, <1>3, <1>4 DEF Shape
<1>7. Control'
  BY <1>1, <1>3, <1>4, <1>5 DEF Control
<1>8. Playlist'
  BY <1>1 DEF Playlist, Discontinuities, Seg, Ids, Listed
<1>9. Manifest' /\ Published' = Published
  BY <1>1, <1>4 DEF Manifest, Discontinuities, Seg, Entry, Published
<1>10. Inits'
  BY <1>1, <1>5 DEF Inits, Seg, Listed
<1>11. Keyframes'
  <2>1. Keyed'
    BY <1>1, KeyedKept DEF Keyframes, Shape
  <2>2. opt.keyframeSplit /\ wpc' = "close" => Opens'
    <3>1. opt.keyframeSplit /\ wpc' = "close" => p.key \/ (~ Wraps(p) /\ p.video /\ CapCut(p))
      BY <1>1 DEF Rotates, Wraps, AtKeyframe
    <3> QED
      BY <1>1, <1>3, <3>1 DEF Opens
  <2>3. opt.keyframeSplit /\ Current.held = 0 => p.key
    BY <1>1 DEF Keyframes, KeyframeNext, Admitted
  <2>4. KeyframeNext'
    BY <1>1, <1>3, <1>4, <1>5, <2>2, <2>3 DEF KeyframeNext, Opens
  <2> QED
    BY <1>1, <2>1, <2>4 DEF Keyframes, Independent
<1>12. Lengths'
  <2>1. Content(Current) \in Nat
    BY <1>1, Where, LastFragment
  <2>2. Limited => Content(Current) <= Limit
    BY <1>1 DEF Lengths
  <2>3. ASSUME Limited, wpc' = "append"
        PROVE  Content(Current) + p.dur <= Limit
    <3>1. ~ Rotates(p) /\ ~ Wraps(p)
      BY <1>1, <2>3
    <3>2. CASE ~ p.video
      BY <1>3, <2>1, <2>2, <2>3, <3>2, OptionsAre
    <3>3. CASE p.video /\ opt.keyframeSplit
      <4>1. opt.cap > 0 /\ Limit = opt.cap /\ ~ Overflows(p, opt.cap)
        BY <2>3, <3>1, <3>3 DEF Rotates, CapCut, Limited, Limit
      <4>2. ~ (Content(Current) > 0 /\ Content(Current) + p.dur > opt.cap)
        BY <1>1, <4>1, Where DEF Overflows, Content
      <4> QED
        BY <1>3, <2>1, <4>1, <4>2, OptionsAre
    <3>4. CASE p.video /\ ~ opt.keyframeSplit
      <4>1. ~ Overflows(p, SegDuration)
        BY <3>1, <3>4 DEF Rotates
      <4>2. ~ (Content(Current) > 0 /\ Content(Current) + p.dur > SegDuration)
        BY <1>1, <4>1, Where DEF Overflows, Content
      <4> QED
        BY <1>3, <2>1, <4>2, OptionsAre
    <3> QED
      BY <3>2, <3>3, <3>4
  <2>4. Content(Current)' = Content(Current)
    BY <1>5 DEF Content, CurFrag
  <2>5. Len(segs') \in Nat /\ \A i \in 1 .. Len(segs') : i <= Len(segs) /\ segs'[i].dur = segs[i].dur
    BY <1>1 DEF Shape
  <2> QED
    BY <1>1, <1>3, <1>4, <2>2, <2>3, <2>4, <2>5, LengthsKept
<1>13. Eviction'
  BY <1>1, <1>4 DEF Eviction, EvictedLast, MaxPlaylist, Durations, ClosedIds, Seg, MapThenSumSet, MapThenFoldSet
<1> QED
  BY <1>6, <1>7, <1>8, <1>9, <1>10, <1>11, <1>12, <1>13

\* The segment is closed with all it holds, which is within its limit.
LEMMA CloseSegmentStep ==
    ASSUME IInv, CloseSegment
    PROVE  IInv'
<1> USE DEF IInv
<1>1. /\ wpc = "close" /\ wpc' = "add" /\ ~ closed /\ job.video
      /\ segs' = Set(Cur, closeSeg(Seg(Cur)))
      /\ UNCHANGED <<opt, closed, segIDs, mediaSequence, discontinuitySequence, initVersion,
                     initCache, manifest, job, capSplitSeen, gateOpen>>
  BY DEF CloseSegment, others, counts, config, Control
<1>2. PICK t : t = closeSeg(Current)
  OBVIOUS
<1>3. Seg(Cur) = Current /\ Current \in SegmentOf /\ Len(Current.frags) >= 1
  BY <1>1, Where
<1>4. ~ CurFrag(Current).done
  BY <1>1 DEF Control
<1>5. /\ SameRest(t, Current) /\ t.dur = Content(Current) /\ t.held = Current.held
      /\ t.keyed = Current.keyed
  BY <1>2, <1>3, <1>4, CloseSegIs
<1>6. segs' = Set(Cur, t)
  BY <1>1, <1>2, <1>3
<1>7. /\ segs' \in Seq(SegmentOf) /\ Len(segs') = Len(segs) /\ Len(segs) >= 1
      /\ \A i \in 1 .. Len(segs) : Len(segs'[i].frags) >= 1
      /\ Current' = t /\ \A i \in 1 .. Len(segs) - 1 : segs'[i] = segs[i]
      /\ Playlist' /\ Manifest' /\ Inits' /\ Eviction'
  BY <1>1, <1>5, <1>6, CurrentChanges
<1>8. PICK n \in Nat : n = Len(segs) /\ n >= 1
  BY <1>7 DEF Shape
<1>9. segs[n] = Current /\ segs'[n] = t
  BY <1>7, <1>8 DEF Current
<1>10. Shape'
  BY <1>1, <1>7 DEF Shape, Labels
<1>11. Control'
  BY <1>1 DEF Control
<1>12. Keyframes'
  <2>1. Keyed'
    <3>1. \A i \in 1 .. n : segs'[i].keyed = segs[i].keyed
      BY <1>5, <1>7, <1>8, <1>9
    <3> QED
      BY <1>1, <1>7, <1>8, <3>1, KeyedKept DEF Keyframes
  <2>2. KeyframeNext'
    BY <1>1 DEF Keyframes, KeyframeNext, Opens
  <2> QED
    BY <1>1, <2>1, <2>2 DEF Keyframes, Independent
<1>13. Lengths'
  <2>1. \A i \in 1 .. n : i # n => segs'[i].dur = segs[i].dur
    BY <1>7, <1>8
  <2>2. Limited => segs'[n].dur <= Limit
    BY <1>1, <1>5, <1>9 DEF Lengths
  <2>3. \A i \in 1 .. Len(segs') : \/ i <= Len(segs) /\ segs'[i].dur = segs[i].dur
                                   \/ Limited => segs'[i].dur <= Limit
    BY <1>7, <1>8, <2>1, <2>2
  <2>4. job'.dur <= SegDuration
    BY <1>1 DEF Lengths
  <2> QED
    BY <1>1, <1>7, <1>8, <2>3, <2>4, LengthsKept
<1> QED
  BY <1>7, <1>10, <1>11, <1>12, <1>13

\* The next segment is begun after a rotation.
LEMMA AddSegmentStep ==
    ASSUME IInv, AddSegment
    PROVE  IInv'
<1> USE DEF IInv
<1>1. /\ wpc = "add" /\ wpc' = "evict" /\ ~ closed /\ job.video
      /\ segs' = Append(segs, NewSegment(job.disc, initVersion))
      /\ segIDs' = Append(segIDs, Cur + 1)
      /\ UNCHANGED <<opt, closed, mediaSequence, discontinuitySequence, initVersion,
                     initCache, manifest, job, capSplitSeen, gateOpen>>
  BY DEF AddSegment, others, counts, config, Control
<1>2. job.disc \in BOOLEAN /\ initVersion \in Nat /\ job \in JobOf
  BY DEF Shape, JobOf
<1>3. initVersion \in initCache
  <2>1. Current.init = initVersion /\ Cur \in Listed /\ Seg(Cur) = Current
    <3>1. Len(segs) - 1 \in mediaSequence .. Len(segs) - 1
      BY <1>1, Where DEF Playlist
    <3> QED
      BY <1>1, <3>1, Where DEF Inits
  <2> QED
    BY <2>1 DEF Inits
<1>4. PICK t : t = NewSegment(job.disc, initVersion)
  OBVIOUS
<1>5. /\ segs' \in Seq(SegmentOf) /\ Len(segs') = Len(segs) + 1 /\ Len(segs) >= 1
      /\ \A i \in 1 .. Len(segs') : Len(segs'[i].frags) >= 1
      /\ Current' = t /\ segIDs' \in Seq(Nat)
      /\ \A i \in 1 .. Len(segs) : segs'[i] = segs[i]
      /\ Playlist' /\ Manifest' /\ Inits' /\ Eviction'
  <2>1. Begins(job.disc, initVersion)
    BY <1>1, <1>3 DEF Begins
  <2> QED
    BY <1>1, <1>2, <1>4, <2>1, SegmentBegun
<1>6. /\ Content(t) = 0 /\ t.dur = 0 /\ CurFrag(t).done = FALSE /\ t.held = 0 /\ t.keyed = TRUE
      /\ t.ended = FALSE
  <2>1. Content(t) = 0 /\ t.dur = 0 /\ t.held = 0 /\ Fresh(t)
    BY <1>4, NewSegmentIs
  <2> QED
    BY <2>1 DEF Fresh
<1>7. PICK n \in Nat : n = Len(segs) /\ n >= 1
  BY <1>5 DEF Shape
<1>8. segs'[n + 1] = t
  BY <1>5, <1>7 DEF Current
<1>9. Shape'
  BY <1>1, <1>5 DEF Shape, Labels
<1>10. /\ Content(Current)' = 0 /\ CurFrag(Current)'.done = FALSE /\ Current'.held = 0
       /\ Current'.ended = FALSE
  BY <1>5, <1>6 DEF Content, CurFrag
<1>11. Control'
  BY <1>1, <1>10 DEF Control
<1>12. Keyframes'
  <2>1. Keyed'
    <3>1. \A i \in 1 .. n : segs'[i].keyed = segs[i].keyed
      BY <1>5, <1>7
    <3>2. \A i \in 1 .. Len(segs') : i > n => segs'[i].keyed
      BY <1>5, <1>6, <1>7, <1>8
    <3> QED
      BY <1>1, <1>5, <1>7, <3>1, <3>2, KeyedKept DEF Keyframes
  <2>2. job # NoJob
    BY <1>1, NoJobIs
  <2>3. KeyframeNext'
    BY <1>1, <2>2 DEF Keyframes, KeyframeNext, Opens
  <2> QED
    BY <1>1, <2>1, <2>3 DEF Keyframes, Independent
<1>13. Lengths'
  <2>1. Limit \in Nat
    BY OptionsAre
  <2>2. \A i \in 1 .. Len(segs') : \/ i <= Len(segs) /\ segs'[i].dur = segs[i].dur
                                   \/ Limited => segs'[i].dur <= Limit
    BY <1>5, <1>6, <1>7, <1>8, <2>1
  <2>3. job'.dur <= SegDuration
    BY <1>1 DEF Lengths
  <2> QED
    BY <1>1, <1>5, <1>7, <1>10, <2>1, <2>2, <2>3, LengthsKept
<1> QED
  BY <1>5, <1>9, <1>11, <1>12, <1>13

\* The codec changes: the segment is closed with the fragments that are full.
LEMMA UpdateCodecParametersStep ==
    ASSUME IInv, UpdateCodecParameters
    PROVE  IInv'
<1> USE DEF IInv
<1>1. /\ wpc = "idle" /\ wpc' = "update" /\ ~ closed /\ job = NoJob
      /\ segs' = Set(Cur, forceClose(Seg(Cur)))
      /\ UNCHANGED <<opt, closed, segIDs, mediaSequence, discontinuitySequence, initVersion,
                     initCache, manifest, job, capSplitSeen, gateOpen>>
  BY DEF UpdateCodecParameters, counts, config, Control
<1>2. PICK t : t = forceClose(Current)
  OBVIOUS
<1>3. Seg(Cur) = Current /\ Current \in SegmentOf /\ Len(Current.frags) >= 1
  BY <1>1, Where
<1>4. /\ SameRest(t, Current) /\ t.dur = Current.dur /\ t.held = Current.held
      /\ t.keyed = Current.keyed
  BY <1>2, <1>3, ForceCloseIs
<1>5. segs' = Set(Cur, t)
  BY <1>1, <1>2, <1>3
<1>6. /\ segs' \in Seq(SegmentOf) /\ Len(segs') = Len(segs) /\ Len(segs) >= 1
      /\ \A i \in 1 .. Len(segs) : Len(segs'[i].frags) >= 1
      /\ Current' = t /\ \A i \in 1 .. Len(segs) - 1 : segs'[i] = segs[i]
      /\ Playlist' /\ Manifest' /\ Inits' /\ Eviction'
  BY <1>1, <1>4, <1>5, CurrentChanges
<1>7. PICK n \in Nat : n = Len(segs) /\ n >= 1
  BY <1>6 DEF Shape
<1>8. segs[n] = Current /\ segs'[n] = t
  BY <1>6, <1>7 DEF Current
<1>9. Shape'
  BY <1>1, <1>6 DEF Shape, Labels
<1>10. Control'
  BY <1>1 DEF Control
<1>11. Keyframes'
  <2>1. Keyed'
    <3>1. \A i \in 1 .. n : segs'[i].keyed = segs[i].keyed
      BY <1>4, <1>6, <1>7, <1>8
    <3> QED
      BY <1>1, <1>6, <1>7, <3>1, KeyedKept DEF Keyframes
  <2> QED
    BY <1>1, <2>1 DEF Keyframes, KeyframeNext, Independent
<1>12. Lengths'
  <2>1. \A i \in 1 .. n : segs'[i].dur = segs[i].dur
    BY <1>4, <1>6, <1>7, <1>8
  <2>2. job'.dur <= SegDuration
    BY <1>1 DEF Lengths
  <2> QED
    BY <1>1, <1>6, <1>7, <2>1, <2>2, LengthsKept
<1> QED
  BY <1>6, <1>9, <1>10, <1>11, <1>12

\* A segment of the new version is begun, behind a closed gate.
LEMMA UpdateSegmentStep ==
    ASSUME IInv, UpdateSegment
    PROVE  IInv'
<1> USE DEF IInv
<1>1. /\ wpc = "update" /\ wpc' = "evict" /\ ~ closed /\ job = NoJob /\ gateOpen' = FALSE
      /\ UNCHANGED <<opt, closed, mediaSequence, discontinuitySequence, manifest, job,
                     capSplitSeen>>
  BY DEF UpdateSegment, others, counts, Control
<1>2. /\ initVersion' = initVersion + 1 /\ initCache' = initCache \cup {initVersion + 1}
      /\ segs' = Append(segs, NewSegment(TRUE, initVersion + 1))
      /\ segIDs' = Append(segIDs, Cur + 1)
      /\ initVersion + 1 \in Nat
  BY DEF UpdateSegment, Shape
<1>3. PICK t : t = NewSegment(TRUE, initVersion + 1)
  OBVIOUS
<1>4. initCache \subseteq initCache' /\ initVersion + 1 \in initCache'
  BY <1>2
<1>5. /\ segs' \in Seq(SegmentOf) /\ Len(segs') = Len(segs) + 1 /\ Len(segs) >= 1
      /\ \A i \in 1 .. Len(segs') : Len(segs'[i].frags) >= 1
      /\ Current' = t /\ segIDs' \in Seq(Nat)
      /\ \A i \in 1 .. Len(segs) : segs'[i] = segs[i]
      /\ Playlist' /\ Manifest' /\ Inits' /\ Eviction'
  <2>1. Begins(TRUE, initVersion + 1)
    BY <1>1, <1>2, <1>4 DEF Begins
  <2> QED
    BY <1>1, <1>2, <1>3, <2>1, SegmentBegun
<1>6. /\ Content(t) = 0 /\ t.dur = 0 /\ CurFrag(t).done = FALSE /\ t.held = 0 /\ t.keyed = TRUE
      /\ t.ended = FALSE
  <2>1. Content(t) = 0 /\ t.dur = 0 /\ t.held = 0 /\ Fresh(t)
    BY <1>3, NewSegmentIs
  <2> QED
    BY <2>1 DEF Fresh
<1>7. PICK n \in Nat : n = Len(segs) /\ n >= 1
  BY <1>5 DEF Shape
<1>8. segs'[n + 1] = t
  BY <1>5, <1>7 DEF Current
<1>9. Shape'
  <2>1. initVersion' \in Nat /\ gateOpen' \in BOOLEAN /\ wpc' \in Labels
    BY <1>1, <1>2 DEF Labels
  <2> QED
    BY <1>1, <1>5, <2>1 DEF Shape
<1>10. /\ Content(Current)' = 0 /\ CurFrag(Current)'.done = FALSE /\ Current'.held = 0
       /\ Current'.ended = FALSE
  BY <1>5, <1>6 DEF Content, CurFrag
<1>11. Control'
  BY <1>1, <1>10, NoJobIs DEF Control
<1>12. Keyframes'
  <2>1. Keyed'
    <3>1. \A i \in 1 .. n : segs'[i].keyed = segs[i].keyed
      BY <1>5, <1>7
    <3>2. \A i \in 1 .. Len(segs') : i > n => segs'[i].keyed
      BY <1>5, <1>6, <1>7, <1>8
    <3> QED
      BY <1>1, <1>5, <1>7, <3>1, <3>2, KeyedKept DEF Keyframes
  <2>2. KeyframeNext'
    BY <1>1 DEF KeyframeNext
  <2> QED
    BY <1>1, <2>1, <2>2 DEF Keyframes, Independent
<1>13. Lengths'
  <2>1. Limit \in Nat
    BY OptionsAre
  <2>2. \A i \in 1 .. Len(segs') : \/ i <= Len(segs) /\ segs'[i].dur = segs[i].dur
                                   \/ Limited => segs'[i].dur <= Limit
    BY <1>5, <1>6, <1>7, <1>8, <2>1
  <2>3. job'.dur <= SegDuration
    BY <1>1 DEF Lengths
  <2> QED
    BY <1>1, <1>5, <1>7, <1>10, <2>1, <2>2, <2>3, LengthsKept
<1> QED
  BY <1>5, <1>9, <1>11, <1>12, <1>13

\* A packet that opens a segment is a keyframe, or the tag is gone before the
\* segment is published.
LEMMA AppendPacketStep ==
    ASSUME IInv, AppendPacket
    PROVE  IInv'
<1> USE DEF IInv
<1>1. PICK dur, full :
         /\ full \in BOOLEAN
         /\ dur = CurFrag(Seg(Cur)).dur + job.dur
         /\ segs' = Set(Cur, Appended(Seg(Cur), dur, full, job.key))
         /\ wpc' = IF full THEN "fragment" ELSE Publishes
  <2>1. PICK dur, full : /\ dur = CurFrag(Seg(Cur)).dur + job.dur
                         /\ full = (job.video /\ dur >= FragDuration)
    OBVIOUS
  <2>2. full \in BOOLEAN
    BY <2>1
  <2>3. segs' = Set(Cur, Appended(Seg(Cur), dur, full, job.key))
    BY <2>1 DEF AppendPacket, Appended
  <2>4. wpc' = IF full THEN "fragment" ELSE Publishes
    BY <2>1 DEF AppendPacket
  <2> QED
    BY <2>1, <2>2, <2>3, <2>4
<1>2. /\ wpc = "append" /\ ~ closed /\ job' = IF wpc' = "idle" THEN NoJob ELSE job
      /\ UNCHANGED <<opt, closed, segIDs, mediaSequence, discontinuitySequence, initVersion,
                     initCache, manifest, capSplitSeen, gateOpen>>
  BY DEF AppendPacket, others, counts, config, Control
<1>3. wpc' \in {"fragment", "store", "idle"} /\ (wpc' = "fragment" => full) /\ (full => wpc' = "fragment")
  BY <1>1 DEF Publishes
<1>4. /\ Seg(Cur) = Current /\ Current \in SegmentOf /\ Len(Current.frags) >= 1
      /\ CurFrag(Current) \in FragmentOf
  BY <1>2, Where, LastFragment
<1>5. /\ job \in JobOf /\ job.dur \in Nat /\ job.key \in BOOLEAN /\ CurFrag(Current).dur \in Nat
      /\ Current.dur \in Nat /\ Current.held \in Nat
  BY <1>4, SegmentFields DEF Shape, JobOf, FragmentOf
<1>6. dur \in Nat /\ Content(Current) + job.dur = Current.dur + dur
  BY <1>1, <1>4, <1>5 DEF Content
<1>7. PICK t : t = Appended(Current, dur, full, job.key)
  OBVIOUS
<1>8. /\ SameRest(t, Current) /\ t.dur = Current.dur /\ t.held = Current.held + 1
      /\ t.ended = Current.ended
      /\ t.keyed = IF Current.held = 0 THEN job.key ELSE Current.keyed
      /\ CurFrag(t).dur = dur /\ CurFrag(t).done = full
  <2>1. full \in BOOLEAN /\ job.key \in BOOLEAN /\ dur \in Nat
    BY <1>1, <1>5, <1>6
  <2>2. WrittenTo(Appended(Current, dur, full, job.key), Current, dur, full, job.key)
    BY <1>4, <2>1, AppendedIs
  <2> QED
    BY <1>7, <2>2 DEF WrittenTo
<1>9. segs' = Set(Cur, t)
  BY <1>1, <1>4, <1>7
<1>10. /\ segs' \in Seq(SegmentOf) /\ Len(segs') = Len(segs) /\ Len(segs) >= 1
       /\ \A i \in 1 .. Len(segs) : Len(segs'[i].frags) >= 1
       /\ Current' = t /\ \A i \in 1 .. Len(segs) - 1 : segs'[i] = segs[i]
       /\ Playlist' /\ Manifest' /\ Inits' /\ Eviction'
  BY <1>2, <1>3, <1>8, <1>9, CurrentChanges
<1>11. PICK n \in Nat : n = Len(segs) /\ n >= 1
  BY <1>10 DEF Shape
<1>12. segs[n] = Current /\ segs'[n] = t
  BY <1>10, <1>11 DEF Current
<1>13. job' \in JobOf /\ (wpc' = "idle" => job' = NoJob) /\ (job'.key => job'.video)
       /\ job'.dur <= SegDuration
  BY <1>2, <1>5, NoJobIs, OptionsAre DEF Control, Lengths
<1>14. Shape'
  BY <1>2, <1>3, <1>10, <1>13 DEF Shape, Labels
<1>15. Control'
  <2>1. ~ Current'.ended /\ (wpc' # "fragment" => ~ CurFrag(Current').done)
    BY <1>2, <1>3, <1>8, <1>10 DEF Control
  <2>2. CurFrag(Current)' = CurFrag(Current')
    BY DEF CurFrag
  <2> QED
    BY <1>2, <1>3, <1>13, <2>1, <2>2 DEF Control
<1>16. Keyframes'
  <2>1. opt.keyframeSplit /\ Current.held = 0 => (job.key \/ capSplitSeen) /\ (job.key \/ Published < n)
    BY <1>2, <1>11 DEF Keyframes, KeyframeNext, Opens
  <2>2. ASSUME opt'.keyframeSplit, ~ capSplitSeen', NEW i \in Ids'
        PROVE  Seg(i)'.keyed
    <3>1. i + 1 \in 1 .. n /\ i \in Ids
      BY <1>10, <1>11 DEF Ids
    <3>2. segs[i + 1].keyed
      BY <1>2, <2>2, <3>1 DEF Keyframes, Keyed, Seg
    <3>3. CASE i + 1 = n
      BY <1>2, <1>8, <1>12, <2>1, <2>2, <3>2, <3>3 DEF Seg
    <3>4. CASE i + 1 # n
      BY <1>10, <1>11, <3>1, <3>2, <3>4 DEF Seg
    <3> QED
      BY <3>3, <3>4
  <2>3. ASSUME manifest.independent, NEW k \in 1 .. Len(manifest.list)
        PROVE  Seg(manifest.list[k].id)'.keyed
    <3>1. /\ manifest.seq \in Nat /\ Len(manifest.list) \in Nat /\ k \in Nat /\ 1 <= k
          /\ k <= Len(manifest.list)
      BY DEF Shape, ManifestOf
    <3>2. /\ manifest.seq + Len(manifest.list) = Published /\ Published <= n
          /\ manifest.list[k].id = manifest.seq + k - 1
      BY <1>11 DEF Manifest, Published
    <3>3. manifest.list[k].id + 1 \in 1 .. n /\ manifest.list[k].id + 1 <= Published
      BY <1>11, <3>1, <3>2
    <3>4. segs[manifest.list[k].id + 1].keyed /\ opt.keyframeSplit
      BY <2>3 DEF Keyframes, Keyed, Independent, Seg
    <3>5. CASE manifest.list[k].id + 1 = n
      BY <1>2, <1>8, <1>12, <2>1, <3>1, <3>2, <3>3, <3>4, <3>5 DEF Seg
    <3>6. CASE manifest.list[k].id + 1 # n
      BY <1>2, <1>10, <1>11, <3>3, <3>4, <3>6 DEF Seg
    <3> QED
      BY <3>5, <3>6
  <2>4. Keyed'
    BY <1>2, <2>2, <2>3 DEF Keyed
  <2>5. Current'.held # 0
    BY <1>5, <1>8, <1>10
  <2>6. KeyframeNext'
    BY <1>3, <2>5 DEF KeyframeNext
  <2> QED
    BY <1>2, <2>4, <2>6 DEF Keyframes, Independent
<1>17. Lengths'
  <2>1. Content(Current)' = Content(Current) + job.dur
    BY <1>6, <1>8, <1>10 DEF Content, CurFrag
  <2>2. Limited => Content(Current)' <= Limit
    BY <1>2, <2>1 DEF Lengths
  <2>3. \A i \in 1 .. n : segs'[i].dur = segs[i].dur
    BY <1>8, <1>10, <1>11, <1>12
  <2> QED
    BY <1>2, <1>3, <1>10, <1>11, <1>13, <2>2, <2>3, LengthsKept
<1> QED
  BY <1>10, <1>14, <1>15, <1>16, <1>17

\* A full fragment is counted, and the next one begun.
LEMMA NextFragmentStep ==
    ASSUME IInv, NextFragment
    PROVE  IInv'
<1> USE DEF IInv
<1>1. /\ wpc = "fragment" /\ wpc' = "store" /\ ~ closed
      /\ segs' = Set(Cur, Begun(Seg(Cur)))
      /\ UNCHANGED <<opt, closed, segIDs, mediaSequence, discontinuitySequence, initVersion,
                     initCache, manifest, job, capSplitSeen, gateOpen>>
  BY DEF NextFragment, Begun, others, counts, config, Control
<1>2. PICK t : t = Begun(Current)
  OBVIOUS
<1>3. Seg(Cur) = Current /\ Current \in SegmentOf /\ Len(Current.frags) >= 1
  BY <1>1, Where
<1>4. /\ SameRest(t, Current) /\ t.dur = Content(Current) /\ t.held = Current.held
      /\ t.ended = Current.ended /\ t.keyed = Current.keyed
      /\ CurFrag(t).dur = 0 /\ CurFrag(t).done = FALSE
  BY <1>2, <1>3, BegunIs
<1>5. segs' = Set(Cur, t)
  BY <1>1, <1>2, <1>3
<1>6. /\ segs' \in Seq(SegmentOf) /\ Len(segs') = Len(segs) /\ Len(segs) >= 1
      /\ \A i \in 1 .. Len(segs) : Len(segs'[i].frags) >= 1
      /\ Current' = t /\ \A i \in 1 .. Len(segs) - 1 : segs'[i] = segs[i]
      /\ Playlist' /\ Manifest' /\ Inits' /\ Eviction'
  BY <1>1, <1>4, <1>5, CurrentChanges
<1>7. PICK n \in Nat : n = Len(segs) /\ n >= 1
  BY <1>6 DEF Shape
<1>8. segs[n] = Current /\ segs'[n] = t
  BY <1>6, <1>7 DEF Current
<1>9. Shape'
  BY <1>1, <1>6 DEF Shape, Labels
<1>10. Control'
  <2>1. ~ Current'.ended /\ ~ CurFrag(Current').done
    BY <1>1, <1>4, <1>6 DEF Control
  <2>2. CurFrag(Current)' = CurFrag(Current')
    BY DEF CurFrag
  <2> QED
    BY <1>1, <2>1, <2>2 DEF Control
<1>11. Keyframes'
  <2>1. Keyed'
    <3>1. \A i \in 1 .. n : segs'[i].keyed = segs[i].keyed
      BY <1>4, <1>6, <1>7, <1>8
    <3> QED
      BY <1>1, <1>6, <1>7, <3>1, KeyedKept DEF Keyframes
  <2>2. Current'.held = Current.held
    BY <1>4, <1>6
  <2>3. KeyframeNext'
    BY <1>1, <2>2 DEF Keyframes, KeyframeNext
  <2> QED
    BY <1>1, <2>1, <2>3 DEF Keyframes, Independent
<1>12. Lengths'
  <2>1. Content(Current) \in Nat
    BY <1>3, LastFragment
  <2>2. Content(Current)' = Content(Current)
    BY <1>4, <1>6, <2>1 DEF Content, CurFrag
  <2>3. Limited => Content(Current) <= Limit
    BY <1>1 DEF Lengths
  <2>4. \A i \in 1 .. n : i # n => segs'[i].dur = segs[i].dur
    BY <1>6, <1>7
  <2>5. \A i \in 1 .. Len(segs') : \/ i <= Len(segs) /\ segs'[i].dur = segs[i].dur
                                   \/ Limited => segs'[i].dur <= Limit
    BY <1>4, <1>6, <1>7, <1>8, <2>3, <2>4
  <2>6. job'.dur <= SegDuration
    BY <1>1 DEF Lengths
  <2> QED
    BY <1>1, <1>6, <1>7, <2>2, <2>3, <2>5, <2>6, LengthsKept
<1> QED
  BY <1>6, <1>9, <1>10, <1>11, <1>12

\* Slots are released, the segment is otherwise what it was.
EmptyOf(s) == [s EXCEPT !.held = 0]
SameButHeld(t, s) ==
    /\ t \in SegmentOf /\ t.frags = s.frags /\ t.dur = s.dur /\ t.parts = s.parts
    /\ t.ended = s.ended /\ t.keyed = s.keyed /\ t.disc = s.disc /\ t.init = s.init
\* That is what releasing does.
LEMMA EmptyOfIs ==
    ASSUME NEW s \in SegmentOf
    PROVE  SameButHeld(EmptyOf(s), s) /\ EmptyOf(s).held = 0
BY DEF SegmentOf, EmptyOf, SameButHeld

\* A segment is the same as itself.
LEMMA SameAsItself ==
    ASSUME NEW s \in SegmentOf
    PROVE  SameButHeld(s, s)
BY DEF SameButHeld

\* Where only slots are released nothing else is disturbed.
OnlySlots == /\ segs' \in Seq(SegmentOf) /\ Len(segs') = Len(segs)
             /\ \A i \in 1 .. Len(segs) : SameButHeld(segs'[i], segs[i])
\* The manifest stays true then, when the playlist does not grow at its front.
LEMMA SlotsReleased ==
    ASSUME Shape, Manifest, Keyed, Lengths, OnlySlots, UNCHANGED <<opt, manifest, job, wpc, capSplitSeen>>
    PROVE  /\ \A i \in 1 .. Len(segs) : Len(segs'[i].frags) >= 1
           /\ CurFrag(Current)' = CurFrag(Current) /\ Current'.ended = Current.ended
           /\ Content(Current)' = Content(Current)
           /\ \A k \in Nat : k <= Len(segs) => DiscOf(segs', k) = DiscOf(segs, k)
           /\ Keyed' /\ Lengths'
           /\ mediaSequence' \in Nat /\ mediaSequence' >= mediaSequence => Manifest'
<1>1. PICK n \in Nat : n = Len(segs) /\ n >= 1 /\ n \in 1 .. n
  BY DEF Shape
<1>2. \A i \in 1 .. n : SameButHeld(segs'[i], segs[i])
  BY <1>1 DEF OnlySlots
<1>3. \A i \in 1 .. n : /\ segs'[i].frags = segs[i].frags /\ segs'[i].dur = segs[i].dur
                        /\ segs'[i].parts = segs[i].parts /\ segs'[i].ended = segs[i].ended
                        /\ segs'[i].keyed = segs[i].keyed /\ segs'[i].disc = segs[i].disc
                        /\ segs'[i].init = segs[i].init
  BY <1>2 DEF SameButHeld
<1>4. Current = segs[n] /\ Current' = segs'[n] /\ Len(segs') = n
  BY <1>1 DEF Current, OnlySlots
<1>5. \A i \in 1 .. Len(segs) : Len(segs'[i].frags) >= 1
  BY <1>1, <1>3 DEF Shape
<1>6. CurFrag(Current)' = CurFrag(Current) /\ Current'.ended = Current.ended
      /\ Current'.dur = Current.dur
  BY <1>1, <1>3, <1>4 DEF CurFrag
<1>7. Content(Current)' = Content(Current)
  BY <1>6 DEF Content
<1>8. \A k \in Nat : k <= n => DiscOf(segs', k) = DiscOf(segs, k)
  <2>1. \A k \in Nat : k <= n => \A i \in 1 .. k : segs'[i].disc = segs[i].disc
    BY <1>3
  <2> QED
    BY <2>1, DiscOfSame
<1>9. Keyed'
  BY <1>1, <1>3, <1>4, KeyedKept
<1>10. Lengths'
  <2>1. \A i \in 1 .. Len(segs') : i <= Len(segs) /\ segs'[i].dur = segs[i].dur
    BY <1>1, <1>3, <1>4
  <2>2. job'.dur <= SegDuration
    BY DEF Lengths
  <2>3. Limited => /\ wpc' \notin {"add", "update"} => Content(Current)' <= Limit
                   /\ wpc' = "append" => Content(Current)' + job'.dur <= Limit
    BY <1>7 DEF Lengths
  <2> QED
    BY <1>1, <1>4, <2>1, <2>2, <2>3, LengthsKept
<1>11. ASSUME mediaSequence' \in Nat, mediaSequence' >= mediaSequence
       PROVE  Manifest'
  <2>1. /\ manifest.seq \in Nat /\ Len(manifest.list) \in Nat /\ mediaSequence \in Nat
    BY DEF Shape, ManifestOf
  <2>2. /\ manifest.seq <= mediaSequence /\ Published <= n
        /\ Published = manifest.seq + Len(manifest.list)
        /\ manifest.disc = Cardinality(DiscOf(segs, manifest.seq))
        /\ wpc = "evict" => Published < n
    BY <1>1 DEF Manifest, Published, Discontinuities, DiscOf, Seg
  <2>3. ASSUME NEW k \in 1 .. Len(manifest.list)
        PROVE  /\ manifest.list[k].id = manifest.seq + k - 1
               /\ manifest.list[k].init = Seg(manifest.list[k].id)'.init
               /\ manifest.list[k].ended => manifest.list[k] = Entry(manifest.list[k].id)'
    <3>1. /\ manifest.list[k].id = manifest.seq + k - 1
          /\ manifest.list[k].init = Seg(manifest.list[k].id).init
          /\ manifest.list[k].ended => manifest.list[k] = Entry(manifest.list[k].id)
      BY DEF Manifest
    <3>2. manifest.list[k].id + 1 \in 1 .. n
      BY <2>1, <2>2, <3>1
    <3>3. /\ Entry(manifest.list[k].id)' = Entry(manifest.list[k].id)
          /\ Seg(manifest.list[k].id)'.init = Seg(manifest.list[k].id).init
      BY <1>3, <3>2 DEF Entry, Seg
    <3> QED
      BY <3>1, <3>3
  <2>4. DiscOf(segs', manifest.seq) = DiscOf(segs, manifest.seq)
    BY <1>8, <2>1, <2>2
  <2>5. manifest.seq <= mediaSequence'
    BY <1>11, <2>1, <2>2
  <2>6. Published' = Published
    BY DEF Published
  <2> QED
    BY <1>4, <2>2, <2>3, <2>4, <2>5, <2>6 DEF Manifest, Discontinuities, DiscOf, Seg
<1> QED
  BY <1>1, <1>5, <1>6, <1>7, <1>8, <1>9, <1>10, <1>11

\* The oldest segment is never the only one: with a count of zero the target
\* duration keeps it, as it is empty.
LEMMA MustEvictMeans ==
    ASSUME IInv, wpc = "evict", MustEvict
    PROVE  /\ mediaSequence + 1 < Len(segs)
           /\ opt.keep > 0 =>
                 /\ Len(segs) - mediaSequence > 2
                 /\ Kept(segs, mediaSequence + 1, Len(segs) - 2) >= opt.keep
           /\ ~ (opt.keep > 0) =>
                 /\ Len(segs) - mediaSequence > opt.count
                 /\ Kept(segs, mediaSequence + 1, Len(segs) - 2) + segs[mediaSequence + 1].dur
                       > MaxPlaylist
<1> USE DEF IInv
<1>1. PICK n \in Nat, m \in Nat : n = Len(segs) /\ m = mediaSequence
  BY DEF Shape
<1>2. ~ closed
  BY DEF Control
<1>3. /\ Listed = m .. n - 1 /\ Head(segIDs) = m /\ ClosedIds = m .. n - 2 /\ m < n
      /\ Len(segIDs) = n - m /\ segs \in Seq(SegmentOf) /\ Current \in SegmentOf
      /\ Len(Current.frags) >= 1 /\ segs[n] = Current
  BY <1>1, <1>2, Where DEF Playlist, Shape, Current
<1>4. PICK dur : dur = segs[m + 1].dur
  OBVIOUS
<1>5. dur \in Nat
  <2>1. m + 1 \in 1 .. Len(segs)
    BY <1>1, <1>3
  <2>2. segs[m + 1] \in SegmentOf
    BY <1>3, <2>1
  <2> QED
    BY <1>4, <2>2, SegmentFields
<1>6. opt.keep \in Int /\ opt.count \in Nat /\ SegDuration \in Nat /\ SegDuration >= 1
  BY OptionsAre
<1>7. CASE opt.keep > 0
  <2>1. EvictByDuration
    BY <1>7 DEF MustEvict
  <2>2. n - m > 2 /\ Durations(m .. n - 2) - dur >= opt.keep
    BY <1>3, <1>4, <2>1 DEF EvictByDuration, Seg
  <2>3. Durations(m .. n - 2) = Kept(segs, m, n - 2)
    <3>1. n - 2 \in Int /\ n - 2 < Len(segs)
      BY <1>1
    <3> QED
      BY <1>3, <3>1, DurationsNow, TimeIs
  <2>4. Kept(segs, m, n - 2) = dur + Kept(segs, m + 1, n - 2) /\ Kept(segs, m + 1, n - 2) \in Int
    <3>1. n - 2 \in Int /\ n - 2 < Len(segs) /\ m <= n - 2 /\ m + 1 \in Nat
      BY <1>1, <2>2
    <3> QED
      BY <1>3, <1>4, <3>1, KeptIs
  <2>5. PICK k \in Int : k = Kept(segs, m + 1, n - 2)
    BY <2>4
  <2>6. dur + k - dur >= opt.keep
    <3>1. PICK d : d = Durations(m .. n - 2)
      OBVIOUS
    <3>2. d = dur + k
      BY <2>3, <2>4, <2>5, <3>1
    <3>3. d - dur >= opt.keep
      BY <2>2, <3>1
    <3> QED
      BY <1>5, <2>5, <3>2, <3>3
  <2> QED
    BY <1>1, <1>5, <1>6, <1>7, <2>2, <2>5, <2>6
<1>8. CASE ~ (opt.keep > 0)
  <2>1. EvictByCount
    BY <1>8 DEF MustEvict
  <2>2. n - m > opt.count /\ Durations(m .. n - 1) > MaxPlaylist
    BY <1>3, <2>1 DEF EvictByCount
  <2>3. ASSUME n = m + 1
        PROVE  FALSE
    <3>1. Durations(m .. n - 1) = Kept(segs, m, n - 1)
      <4>1. n - 1 \in Int /\ n - 1 < Len(segs)
        BY <1>1
      <4> QED
        BY <1>3, <4>1, DurationsNow, TimeIs
    <3>2. Kept(segs, m, n - 1) = dur + Kept(segs, m + 1, n - 1) /\ Kept(segs, m + 1, n - 1) = 0
      <4>1. n - 1 \in Int /\ n - 1 < Len(segs) /\ m <= n - 1 /\ m + 1 \in Nat /\ m + 1 > n - 1
        BY <1>1, <2>3
      <4> QED
        BY <1>3, <1>4, <4>1, KeptIs
    <3>3. dur = 0
      <4>1. Content(Current) = 0 /\ Content(Current) >= Current.dur
        BY <1>3, LastFragment DEF Control
      <4>2. dur = Current.dur
        BY <1>3, <1>4, <2>3
      <4> QED
        BY <1>5, <4>1, <4>2
    <3>4. Durations(m .. n - 1) = 0 /\ MaxPlaylist \in Nat
      BY <3>1, <3>2, <3>3, MaxPlaylistIs
    <3> QED
      BY <2>2, <3>4
  <2>4. Durations(m .. n - 1) = Kept(segs, m + 1, n - 2) + dur
    <3>1. /\ n - 1 \in Int /\ n - 1 < Len(segs) /\ m <= n - 1 /\ m + 1 <= n - 1
          /\ m + 1 \in Nat /\ n - 1 + 1 = n /\ n - 1 - 1 = n - 2 /\ n \in 1 .. Len(segs)
      BY <1>1, <1>3, <2>3
    <3>2. Durations(m .. n - 1) = Kept(segs, m, n - 1)
      BY <1>3, <3>1, DurationsNow, TimeIs
    <3>3. Kept(segs, m, n - 1) = dur + Kept(segs, m + 1, n - 1)
      BY <1>3, <1>4, <3>1, KeptIs
    <3>4. \A a \in Nat, b \in Int : b < Len(segs) /\ a <= b =>
             Kept(segs, a, b) = segs[b + 1].dur + Kept(segs, a, b - 1)
      BY <1>3, KeptIs
    <3>5. Kept(segs, m + 1, n - 1) = segs[n].dur + Kept(segs, m + 1, n - 2)
      BY <3>1, <3>4
    <3>6. segs[n].dur = 0
      <4>1. Content(Current) = 0 /\ Content(Current) >= Current.dur /\ Current.dur \in Nat
        BY <1>3, LastFragment, SegmentFields DEF Control
      <4> QED
        BY <1>3, <4>1
    <3>7. Kept(segs, m + 1, n - 2) \in Int
      <4>1. n - 2 \in Int /\ n - 2 < Len(segs)
        BY <1>1
      <4> QED
        BY <1>3, <3>1, <4>1, KeptIs
    <3>8. PICK k \in Int : k = Kept(segs, m + 1, n - 2)
      BY <3>7
    <3>9. Durations(m .. n - 1) = dur + (0 + k)
      BY <3>2, <3>3, <3>5, <3>6, <3>8
    <3> QED
      BY <1>5, <3>8, <3>9
  <2>5. Kept(segs, m + 1, n - 2) + dur > MaxPlaylist
    BY <2>2, <2>4
  <2> QED
    BY <1>1, <1>3, <1>4, <1>8, <2>2, <2>3, <2>5
<1> QED
  BY <1>7, <1>8

\* The oldest segment leaves the playlist, with its slots.
LEMMA EvictOldestStep ==
    ASSUME IInv, EvictOldest
    PROVE  IInv'
<1> USE DEF IInv
<1>1. /\ wpc = "evict" /\ MustEvict /\ ~ closed
      /\ segs' = Set(Head(segIDs), EmptyOf(Seg(Head(segIDs)))) /\ segIDs' = Tail(segIDs)
      /\ discontinuitySequence' = discontinuitySequence + (IF Seg(Head(segIDs)).disc THEN 1 ELSE 0)
      /\ mediaSequence' = mediaSequence + 1
      /\ UNCHANGED <<opt, closed, initVersion, initCache, manifest, job, wpc, capSplitSeen, gateOpen>>
  BY DEF EvictOldest, EmptyOf, others, config, Control
<1>2. PICK n \in Nat, m \in Nat : n = Len(segs) /\ m = mediaSequence
  BY DEF Shape
<1>3. /\ Listed = m .. n - 1 /\ Head(segIDs) = m /\ ClosedIds = m .. n - 2 /\ segIDs # <<>>
      /\ m < n /\ Len(segIDs) = n - m
      /\ segs \in Seq(SegmentOf) /\ segs[n] = Current /\ segIDs \in Seq(Nat)
      /\ \A k \in 1 .. Len(segIDs) : segIDs[k] = m + k - 1
      /\ discontinuitySequence = Cardinality(DiscOf(segs, m))
  BY <1>1, <1>2, Where DEF Playlist, Shape, Current, Discontinuities, DiscOf, Seg
<1>4. /\ m + 1 < n
      /\ opt.keep > 0 => n - m > 2 /\ Kept(segs, m + 1, n - 2) >= opt.keep
      /\ ~ (opt.keep > 0) => /\ n - m > opt.count
                             /\ Kept(segs, m + 1, n - 2) + segs[m + 1].dur > MaxPlaylist
  BY <1>1, <1>2, MustEvictMeans
<1>5. PICK s : s = segs[m + 1]
  OBVIOUS
<1>6. m + 1 \in 1 .. Len(segs) /\ s \in SegmentOf /\ Seg(m) = s
  <2>1. m + 1 \in 1 .. Len(segs)
    BY <1>2, <1>3
  <2> QED
    BY <1>3, <1>5, <2>1 DEF Seg
<1>7. SameButHeld(EmptyOf(s), s) /\ EmptyOf(s).held = 0 /\ EmptyOf(s) \in SegmentOf
  BY <1>6, EmptyOfIs DEF SameButHeld
<1>8. /\ segs' \in Seq(SegmentOf) /\ Len(segs') = n /\ segs'[m + 1] = EmptyOf(s)
      /\ \A i \in 1 .. n : i # m + 1 => segs'[i] = segs[i]
  <2>1. segs' = [segs EXCEPT ![m + 1] = EmptyOf(s)]
    BY <1>1, <1>3, <1>6 DEF Set
  <2> QED
    BY <1>2, <1>3, <1>6, <1>7, <2>1, Replaced
<1>9. OnlySlots
  <2>1. \A i \in 1 .. n : segs[i] \in SegmentOf
    BY <1>2, <1>3
  <2>2. ASSUME NEW i \in 1 .. n
        PROVE  SameButHeld(segs'[i], segs[i])
    <3>1. CASE i = m + 1
      BY <1>5, <1>7, <1>8, <3>1
    <3>2. CASE i # m + 1
      BY <1>8, <2>1, <3>2, SameAsItself
    <3> QED
      BY <3>1, <3>2
  <2> QED
    BY <1>2, <1>8, <2>2 DEF OnlySlots
<1>10. /\ \A i \in 1 .. n : Len(segs'[i].frags) >= 1
       /\ CurFrag(Current)' = CurFrag(Current) /\ Current'.ended = Current.ended
       /\ Content(Current)' = Content(Current)
       /\ \A k \in Nat : k <= n => DiscOf(segs', k) = DiscOf(segs, k)
       /\ Keyed' /\ Lengths' /\ Manifest'
  <2>1. mediaSequence' \in Nat /\ mediaSequence' >= mediaSequence
    BY <1>1, <1>2
  <2> QED
    BY <1>1, <1>2, <1>9, <2>1, SlotsReleased DEF Keyframes
<1>11. Current' = Current
  BY <1>2, <1>4, <1>8 DEF Current
<1>12. /\ segIDs' \in Seq(Nat) /\ Len(segIDs') = n - (m + 1)
       /\ \A k \in 1 .. Len(segIDs') : segIDs'[k] = (m + 1) + k - 1
  <2>1. segIDs' \in Seq(Nat) /\ Len(segIDs') = Len(segIDs) - 1
        /\ \A k \in 1 .. Len(segIDs') : segIDs'[k] = segIDs[k + 1] /\ k + 1 \in 1 .. Len(segIDs)
    BY <1>1, <1>3
  <2> QED
    BY <1>2, <1>3, <2>1
<1>13. Listed' = (m + 1) .. n - 1 /\ Head(segIDs') = m + 1 /\ ClosedIds' = (m + 1) .. n - 2
  <2>1. m + 1 \in Nat /\ n \in Nat /\ m + 1 < n
    BY <1>2, <1>4
  <2>2. /\ Range(segIDs') = m + 1 .. n - 1 /\ Head(segIDs') = m + 1
        /\ Range(Front(segIDs')) = m + 1 .. n - 2
    BY <1>12, <2>1, IdsAre
  <2> QED
    BY <2>2 DEF Listed, ClosedIds
<1>14. Shape'
  <2>1. discontinuitySequence' \in Nat /\ mediaSequence' \in Nat
    BY <1>1, <1>2 DEF Shape
  <2> QED
    BY <1>1, <1>2, <1>8, <1>10, <1>12, <2>1 DEF Shape
<1>15. Control'
  BY <1>1, <1>10, <1>11 DEF Control
<1>16. Playlist'
  <2>1. Cardinality(DiscOf(segs', m + 1)) = discontinuitySequence'
    <3>1. Cardinality(DiscOf(segs, m + 1)) =
             Cardinality(DiscOf(segs, m)) + (IF segs[m + 1].disc THEN 1 ELSE 0)
      BY <1>2, DiscOfIs
    <3>2. DiscOf(segs', m + 1) = DiscOf(segs, m + 1)
      BY <1>4, <1>10
    <3> QED
      BY <1>1, <1>3, <1>5, <1>6, <3>1, <3>2
  <2>2. \A i \in Ids' \ Listed' : Seg(i)'.held = 0
    <3>1. \A i \in Ids \ Listed : Seg(i).held = 0
      BY DEF Playlist
    <3>2. ASSUME NEW i \in Ids' \ Listed'
          PROVE  Seg(i)'.held = 0
      <4>1. i \in 0 .. m
        BY <1>8, <1>13 DEF Ids
      <4>2. CASE i = m
        BY <1>7, <1>8, <4>2 DEF Seg
      <4>3. CASE i # m
        <5>1. i \in Ids \ Listed /\ i + 1 \in 1 .. n /\ i + 1 # m + 1
          BY <1>2, <1>3, <4>1, <4>3 DEF Ids
        <5> QED
          BY <1>8, <3>1, <5>1 DEF Seg
      <4> QED
        BY <4>2, <4>3
    <3> QED
      BY <3>2
  <2>3. mediaSequence' = m + 1 /\ Len(segs') = n
    BY <1>1, <1>2, <1>8
  <2> QED
    BY <1>1, <1>4, <1>12, <2>1, <2>2, <2>3 DEF Playlist, Discontinuities, DiscOf, Seg
<1>17. Inits'
  <2>1. \A i \in Listed' : i \in Listed /\ Seg(i)'.init = Seg(i).init
    <3>1. \A i \in Listed' : i \in Listed /\ i + 1 \in 1 .. n /\ i + 1 # m + 1
      BY <1>2, <1>3, <1>13
    <3> QED
      BY <1>8, <3>1 DEF Seg
  <2> QED
    BY <1>1, <1>11, <2>1 DEF Inits
<1>18. Keyframes'
  BY <1>1, <1>10 DEF Keyframes, KeyframeNext, Independent, Opens
<1>19. Eviction'
  <2>1. Durations(ClosedIds)' = Kept(segs, m + 1, n - 2)
    <3>1. Durations(ClosedIds)' = TimeOf(segs', (m + 1) .. n - 2)
      BY <1>13, ClosedDurationsNext
    <3>2. /\ n - 2 \in Int /\ n - 2 < Len(segs) /\ n - 2 < Len(segs') /\ m + 1 \in Nat
      BY <1>2, <1>8
    <3>3. TimeOf(segs', (m + 1) .. n - 2) = Kept(segs', m + 1, n - 2)
      BY <1>8, <3>2, TimeIs
    <3>4. Kept(segs', m + 1, n - 2) = Kept(segs, m + 1, n - 2)
      <4>1. \A k \in (m + 1) + 1 .. (n - 2) + 1 : k \in 1 .. n /\ k # m + 1
        BY <1>2
      <4>2. \A k \in (m + 1) + 1 .. (n - 2) + 1 : segs'[k].dur = segs[k].dur
        BY <1>8, <4>1
      <4> QED
        BY <1>3, <1>8, <3>2, <4>2, KeptSame
    <3> QED
      BY <3>1, <3>3, <3>4
  <2>2. ~ (opt.keep > 0) => Len(segIDs') >= opt.count
    BY <1>2, <1>4, <1>12, OptionsAre
  <2>3. EvictedLast' = segs[m + 1].dur /\ MaxPlaylist' = MaxPlaylist
    <3>1. mediaSequence' - 1 + 1 = m + 1
      BY <1>1, <1>2
    <3>2. segs'[m + 1].dur = segs[m + 1].dur
      BY <1>5, <1>7, <1>8 DEF SameButHeld
    <3> QED
      BY <1>1, <3>1, <3>2 DEF EvictedLast, Seg, MaxPlaylist
  <2> QED
    BY <1>1, <1>4, <2>1, <2>2, <2>3 DEF Eviction
<1> QED
  BY <1>10, <1>14, <1>15, <1>16, <1>17, <1>18, <1>19

\* Nothing more to evict; inits nobody lists are dropped.
LEMMA EvictionOverStep ==
    ASSUME IInv, EvictionOver
    PROVE  IInv'
<1> USE DEF IInv
<1>1. /\ wpc = "evict" /\ ~ MustEvict /\ ~ closed
      /\ wpc' = IF job = NoJob THEN "store" ELSE "append"
      /\ initCache' = initCache \cap {Seg(i).init : i \in Listed}
      /\ UNCHANGED <<opt, closed, segs, segIDs, mediaSequence, discontinuitySequence, initVersion,
                     manifest, job, capSplitSeen, gateOpen>>
  BY DEF EvictionOver, others, counts, Control
<1>2. wpc' \in {"store", "append"} /\ (wpc' = "append" <=> job # NoJob)
  BY <1>1
<1>3. Current' = Current
  BY <1>1 DEF Current
<1>4. Shape'
  BY <1>1, <1>2 DEF Shape, Labels
<1>5. Control'
  BY <1>1, <1>2, <1>3 DEF Control
<1>6. Playlist'
  BY <1>1 DEF Playlist, Discontinuities, Seg, Ids, Listed
<1>7. Manifest' /\ Published' = Published /\ Published < Len(segs)
  BY <1>1, <1>2 DEF Manifest, Discontinuities, Seg, Entry, Published
<1>8. Inits'
  BY <1>1, <1>3 DEF Inits, Seg, Listed
<1>9. Keyframes'
  <2>1. Keyed'
    BY <1>1, KeyedKept DEF Keyframes, Shape
  <2>2. KeyframeNext'
    BY <1>1, <1>2, <1>3, <1>7 DEF Keyframes, KeyframeNext, Opens
  <2> QED
    BY <1>1, <2>1, <2>2 DEF Keyframes, Independent
<1>10. Lengths'
  <2>1. Content(Current)' = Content(Current) /\ Content(Current) = 0
    BY <1>1, <1>3 DEF Content, CurFrag, Control
  <2>2. job'.dur <= SegDuration /\ job'.dur \in Nat
    BY <1>1 DEF Lengths, Shape, JobOf
  <2>3. Limited => /\ wpc' \notin {"add", "update"} => Content(Current)' <= Limit
                   /\ wpc' = "append" => Content(Current)' + job'.dur <= Limit
    BY <2>1, <2>2, OptionsAre
  <2>4. Len(segs') \in Nat /\ \A i \in 1 .. Len(segs') : i <= Len(segs) /\ segs'[i].dur = segs[i].dur
    BY <1>1 DEF Shape
  <2> QED
    BY <1>1, <2>2, <2>3, <2>4, LengthsKept
<1>11. Eviction'
  <2>1. PICK d, h : d = Durations(ClosedIds) /\ h = Seg(Head(segIDs)).dur
    OBVIOUS
  <2>2. Durations(ClosedIds)' = d /\ Seg(Head(segIDs))'.dur = h
    BY <1>1, <2>1 DEF Durations, ClosedIds, Seg, MapThenSumSet, MapThenFoldSet
  <2>3. d \in Int /\ h \in Int
    <3>1. PICK n \in Nat, m \in Nat : n = Len(segs) /\ m = mediaSequence /\ m < n
      BY DEF Shape, Playlist
    <3>2. ClosedIds = m .. n - 2 /\ Head(segIDs) = m /\ segs \in Seq(SegmentOf)
      BY <1>1, <3>1, Where DEF Shape
    <3>3. n - 2 \in Int /\ n - 2 < Len(segs)
      BY <3>1
    <3>4. Durations(m .. n - 2) = Kept(segs, m, n - 2) /\ Kept(segs, m, n - 2) \in Int
      BY <3>1, <3>2, <3>3, DurationsNow, TimeIs, KeptIs
    <3>5. segs[m + 1] \in SegmentOf
      BY <3>1, <3>2
    <3>6. h \in Nat
      BY <2>1, <3>2, <3>5, SegmentFields DEF Seg
    <3> QED
      BY <2>1, <3>2, <3>4, <3>6
  <2>4. opt.keep > 0 /\ Len(segIDs) > 2 => d - h < opt.keep
    BY <1>1, <2>1, <2>3, OptionsAre DEF MustEvict, EvictByDuration
  <2>5. MaxPlaylist' = MaxPlaylist /\ EvictedLast' = EvictedLast
    BY <1>1 DEF MaxPlaylist, EvictedLast, Seg
  <2>6. ~ (opt.keep > 0) /\ Len(segIDs) > opt.count => d <= MaxPlaylist
    <3>1. PICK n \in Nat, m \in Nat : n = Len(segs) /\ m = mediaSequence /\ m < n
      BY DEF Shape, Playlist
    <3>2. /\ ClosedIds = m .. n - 2 /\ Listed = m .. n - 1 /\ segs \in Seq(SegmentOf)
          /\ segs[n] = Current /\ Current \in SegmentOf /\ Len(Current.frags) >= 1
      BY <1>1, <3>1, Where DEF Shape, Current
    <3>3. n - 1 \in Int /\ n - 1 < Len(segs) /\ m <= n - 1 /\ n - 1 + 1 = n /\ n - 1 - 1 = n - 2
      BY <3>1
    <3>4. \A b \in Int : b < Len(segs) /\ m <= b =>
             Kept(segs, m, b) = segs[b + 1].dur + Kept(segs, m, b - 1)
      BY <3>2, KeptIs
    <3>5. Kept(segs, m, n - 1) = segs[n].dur + Kept(segs, m, n - 2)
      BY <3>3, <3>4
    <3>6. Durations(Listed) = Kept(segs, m, n - 1)
      BY <3>2, <3>3, DurationsNow, TimeIs
    <3>7. segs[n].dur = 0
      <4>1. Content(Current) = 0 /\ Content(Current) >= Current.dur /\ Current.dur \in Nat
        BY <1>1, <3>2, LastFragment, SegmentFields DEF Control
      <4> QED
        BY <3>2, <4>1
    <3>8. d = Kept(segs, m, n - 2)
      BY <1>1, <2>1, <3>1, ClosedTime
    <3>9. Durations(Listed) = d
      BY <2>3, <3>5, <3>6, <3>7, <3>8
    <3>10. ~ (opt.keep > 0) /\ Len(segIDs) > opt.count => ~ (d > MaxPlaylist)
      BY <1>1, <3>9 DEF MustEvict, EvictByCount
    <3> QED
      BY <2>3, <3>10, MaxPlaylistIs
  <2> QED
    BY <1>1, <2>1, <2>2, <2>4, <2>5, <2>6 DEF Eviction
<1> QED
  BY <1>4, <1>5, <1>6, <1>7, <1>8, <1>9, <1>10, <1>11

\* An entry of a segment.
LEMMA EntryIs ==
    ASSUME NEW i \in Nat, Seg(i) \in SegmentOf
    PROVE  /\ Entry(i) \in EntryOf /\ Entry(i).id = i /\ Entry(i).init = Seg(i).init
           /\ Entry(i).ended = Seg(i).ended
BY DEF Entry, EntryOf, SegmentOf

\* The playlist is published as it is.
LEMMA StoreManifestStep ==
    ASSUME IInv, StoreManifest
    PROVE  IInv'
<1> USE DEF IInv
<1>1. /\ wpc = "store" /\ wpc' = "broadcast" /\ ~ closed
      /\ manifest' = [seq |-> mediaSequence, disc |-> discontinuitySequence,
                      independent |-> opt.keyframeSplit /\ ~ capSplitSeen,
                      list |-> [k \in 1 .. Len(segIDs) |-> Entry(segIDs[k])]]
      /\ UNCHANGED <<opt, closed, segs, segIDs, mediaSequence, discontinuitySequence, initVersion,
                     initCache, job, capSplitSeen, gateOpen>>
  BY DEF StoreManifest, others, counts, config, Control
<1>2. PICK n \in Nat, m \in Nat : n = Len(segs) /\ m = mediaSequence
  BY DEF Shape
<1>3. /\ m < n /\ Len(segIDs) = n - m /\ segIDs \in Seq(Nat) /\ segs \in Seq(SegmentOf)
      /\ \A k \in 1 .. Len(segIDs) : segIDs[k] = m + k - 1
      /\ discontinuitySequence = Cardinality(DiscOf(segs, m))
  BY <1>1, <1>2 DEF Playlist, Shape, Discontinuities, DiscOf, Seg
<1>4. PICK l : l = [k \in 1 .. Len(segIDs) |-> Entry(segIDs[k])]
  OBVIOUS
<1>5. \A k \in 1 .. n - m : /\ m + k - 1 \in Nat /\ (m + k - 1) + 1 \in 1 .. n
                            /\ Seg(m + k - 1) \in SegmentOf
  <2>1. \A k \in 1 .. n - m : /\ m + k - 1 \in Nat /\ (m + k - 1) + 1 \in 1 .. n
    BY <1>3
  <2> QED
    BY <1>2, <1>3, <2>1 DEF Seg
<1>6. \A k \in 1 .. n - m : l[k] = Entry(m + k - 1)
  BY <1>3, <1>4
<1>7. \A k \in 1 .. n - m : /\ l[k] \in EntryOf /\ l[k].id = m + k - 1 /\ l[k].init = Seg(m + k - 1).init
  BY <1>5, <1>6, EntryIs
<1>8. l \in Seq(EntryOf) /\ Len(l) = n - m
  <2>1. n - m \in Nat
    BY <1>3
  <2>2. l \in [1 .. n - m -> EntryOf]
    BY <1>3, <1>4, <1>7
  <2> QED
    BY <2>1, <2>2
<1>9. PICK b \in BOOLEAN : b = (opt.keyframeSplit /\ ~ capSplitSeen)
  OBVIOUS
<1>10. manifest' = [seq |-> m, disc |-> discontinuitySequence, independent |-> b, list |-> l]
  BY <1>1, <1>2, <1>4, <1>9
<1>11. /\ manifest'.seq = m /\ manifest'.disc = discontinuitySequence /\ manifest'.list = l
       /\ manifest'.independent = b /\ manifest' \in ManifestOf
  BY <1>2, <1>3, <1>8, <1>10 DEF ManifestOf, Shape
<1>12. Shape'
  BY <1>1, <1>11 DEF Shape, Labels
<1>13. Control'
  BY <1>1 DEF Control, Current
<1>14. Playlist'
  BY <1>1 DEF Playlist, Discontinuities, Seg, Ids, Listed
<1>15. Published' = n
  <2>1. Published' = m + Len(l)
    BY <1>11 DEF Published
  <2> QED
    BY <1>8, <2>1
<1>16. Manifest'
  <2>1. Cardinality(Discontinuities(manifest.seq))' = Cardinality(DiscOf(segs, m))
    BY <1>1, <1>11 DEF Discontinuities, DiscOf, Seg
  <2>2. ASSUME NEW k \in 1 .. Len(l)
        PROVE  /\ l[k].id = m + k - 1 /\ l[k].init = Seg(l[k].id)'.init
               /\ l[k] = Entry(l[k].id)'
    <3>1. l[k].id = m + k - 1 /\ l[k].init = Seg(m + k - 1).init /\ l[k] = Entry(m + k - 1)
      BY <1>6, <1>7, <1>8
    <3>2. Seg(l[k].id)' = Seg(m + k - 1) /\ Entry(l[k].id)' = Entry(m + k - 1)
      BY <1>1, <3>1 DEF Seg, Entry
    <3> QED
      BY <3>1, <3>2
  <2>3. /\ manifest'.seq <= mediaSequence' /\ Published' <= Len(segs')
        /\ manifest'.disc = Cardinality(Discontinuities(manifest.seq))'
        /\ wpc' # "evict"
    BY <1>1, <1>2, <1>3, <1>11, <1>15, <2>1
  <2>4. \A k \in 1 .. Len(manifest'.list) :
           /\ manifest'.list[k].id = manifest'.seq + k - 1
           /\ manifest'.list[k].init = Seg(manifest.list[k].id)'.init
           /\ manifest'.list[k].ended => manifest'.list[k] = Entry(manifest.list[k].id)'
    <3>1. \A k \in 1 .. Len(l) : /\ Seg(manifest.list[k].id)' = Seg(l[k].id)'
                                 /\ Entry(manifest.list[k].id)' = Entry(l[k].id)'
      BY <1>11 DEF Seg, Entry
    <3> QED
      BY <1>11, <2>2, <3>1
  <2> QED
    BY <2>3, <2>4 DEF Manifest
<1>17. Inits'
  BY <1>1 DEF Inits, Seg, Listed, Current
<1>18. Keyframes'
  <2>1. ASSUME b, NEW k \in 1 .. Len(l)
        PROVE  Seg(l[k].id)'.keyed
    <3>0. opt.keyframeSplit /\ ~ capSplitSeen
      BY <1>9, <2>1
    <3>1. opt.keyframeSplit /\ ~ capSplitSeen /\ l[k].id = m + k - 1 /\ m + k - 1 \in 0 .. n - 1
      <4>1. k \in 1 .. n - m
        BY <1>8
      <4>2. m + k - 1 \in 0 .. n - 1
        BY <1>3, <4>1
      <4>3. l[k].id = m + k - 1
        BY <1>7, <4>1
      <4> QED
        BY <3>0, <4>2, <4>3
    <3>2. l[k].id \in Ids
      BY <1>2, <3>1 DEF Ids
    <3>3. Seg(l[k].id)' = Seg(l[k].id)
      BY <1>1, <3>2 DEF Seg
    <3> QED
      BY <3>1, <3>2, <3>3 DEF Keyframes, Keyed
  <2>2. Keyed'
    BY <1>1, <1>11, <2>1 DEF Keyframes, Keyed, Ids, Seg
  <2>3. KeyframeNext'
    BY <1>1 DEF Keyframes, KeyframeNext, Current
  <2>4. Independent'
    BY <1>1, <1>9, <1>11 DEF Independent
  <2> QED
    BY <2>2, <2>3, <2>4 DEF Keyframes
<1>19. Lengths'
  BY <1>1 DEF Lengths, Limited, Limit, Ids, Seg, Content, Current, CurFrag
<1>20. Eviction'
  BY <1>1 DEF Eviction, EvictedLast, MaxPlaylist, Durations, ClosedIds, Seg, MapThenSumSet, MapThenFoldSet
<1> QED
  BY <1>12, <1>13, <1>14, <1>16, <1>17, <1>18, <1>19, <1>20

\* The readers are told; the writer waits for the next packet.
LEMMA BroadcastStep ==
    ASSUME IInv, broadcastIndex
    PROVE  IInv'
<1> USE DEF IInv
<1>1. /\ wpc = "broadcast" /\ wpc' = "idle" /\ job' = NoJob /\ ~ closed
      /\ UNCHANGED <<opt, closed, segs, segIDs, mediaSequence, discontinuitySequence, initVersion,
                     initCache, manifest, capSplitSeen, gateOpen>>
  BY DEF broadcastIndex, others, counts, config, Control
<1>2. Current' = Current
  BY <1>1 DEF Current
<1>3. Shape'
  BY <1>1, NoJobIs DEF Shape, Labels
<1>4. Control'
  BY <1>1, <1>2, NoJobIs DEF Control
<1>5. Playlist'
  BY <1>1 DEF Playlist, Discontinuities, Seg, Ids, Listed
<1>6. Manifest'
  BY <1>1 DEF Manifest, Discontinuities, Seg, Entry, Published
<1>7. Inits'
  BY <1>1, <1>2 DEF Inits, Seg, Listed
<1>8. Keyframes'
  <2>1. Keyed'
    BY <1>1, KeyedKept DEF Keyframes, Shape
  <2>2. KeyframeNext'
    BY <1>1, <1>2 DEF Keyframes, KeyframeNext
  <2> QED
    BY <1>1, <2>1, <2>2 DEF Keyframes, Independent
<1>9. Lengths'
  <2>1. Limit' = Limit /\ Limited' = Limited /\ Content(Current)' = Content(Current)
        /\ Ids' = Ids /\ \A i \in Ids : Seg(i)' = Seg(i)
    BY <1>1, <1>2 DEF Limit, Limited, Content, CurFrag, Ids, Seg
  <2>2. job'.dur <= SegDuration
    BY <1>1, NoJobIs, OptionsAre
  <2> QED
    BY <1>1, <2>1, <2>2 DEF Lengths
<1>10. Eviction'
  BY <1>1 DEF Eviction, EvictedLast, MaxPlaylist, Durations, ClosedIds, Seg, MapThenSumSet, MapThenFoldSet
<1> QED
  BY <1>3, <1>4, <1>5, <1>6, <1>7, <1>8, <1>9, <1>10

\* All slots are released and the playlist is forgotten.
LEMMA ReleaseStep ==
    ASSUME IInv, Release
    PROVE  IInv'
<1> USE DEF IInv
<1>1. /\ wpc = "idle" /\ ~ closed /\ closed' = TRUE /\ segIDs' = <<>>
      /\ segs' = [k \in 1 .. Len(segs) |->
                     IF k - 1 \in Listed THEN EmptyOf(segs[k]) ELSE segs[k]]
      /\ UNCHANGED <<opt, mediaSequence, discontinuitySequence, initVersion, initCache, manifest,
                     job, wpc, capSplitSeen, gateOpen>>
  BY DEF Release, EmptyOf, counts, config
<1>2. PICK n \in Nat : n = Len(segs) /\ n >= 1 /\ segs \in Seq(SegmentOf)
  BY DEF Shape
<1>3. \A i \in 1 .. n : /\ segs[i] \in SegmentOf
                        /\ segs'[i] = IF i - 1 \in Listed THEN EmptyOf(segs[i]) ELSE segs[i]
  BY <1>1, <1>2
<1>4. ASSUME NEW i \in 1 .. n
      PROVE  /\ SameButHeld(segs'[i], segs[i]) /\ segs'[i] \in SegmentOf
             /\ (i - 1 \in Listed => segs'[i].held = 0)
  <2>1. CASE i - 1 \in Listed
    BY <1>3, <2>1, EmptyOfIs DEF SameButHeld
  <2>2. CASE i - 1 \notin Listed
    BY <1>3, <2>2, SameAsItself
  <2> QED
    BY <2>1, <2>2
<1>5. segs' \in Seq(SegmentOf) /\ Len(segs') = n
  <2>1. segs' = [k \in 1 .. n |-> segs'[k]]
    BY <1>1, <1>2
  <2> QED
    BY <1>4, <2>1
<1>6. OnlySlots
  BY <1>2, <1>4, <1>5 DEF OnlySlots
<1>7. /\ \A i \in 1 .. n : Len(segs'[i].frags) >= 1
      /\ CurFrag(Current)' = CurFrag(Current) /\ Current'.ended = Current.ended
      /\ \A k \in Nat : k <= n => DiscOf(segs', k) = DiscOf(segs, k)
      /\ Keyed' /\ Lengths' /\ Manifest'
  <2>1. mediaSequence' \in Nat /\ mediaSequence' >= mediaSequence
    BY <1>1 DEF Shape
  <2> QED
    BY <1>1, <1>2, <1>6, <2>1, SlotsReleased DEF Keyframes
<1>8. Shape'
  BY <1>1, <1>2, <1>5, <1>7 DEF Shape
<1>9. Control'
  BY <1>1, <1>7 DEF Control
<1>10. Playlist'
  <2>1. mediaSequence \in Nat /\ mediaSequence < n
        /\ discontinuitySequence = Cardinality(DiscOf(segs, mediaSequence))
    BY <1>2 DEF Shape, Playlist, Discontinuities, DiscOf, Seg
  <2>2. DiscOf(segs', mediaSequence) = DiscOf(segs, mediaSequence)
    BY <1>7, <2>1
  <2>3. ASSUME NEW i \in Ids'
        PROVE  Seg(i)'.held = 0
    <3>1. i + 1 \in 1 .. n /\ (i + 1) - 1 = i /\ i \in Ids
      BY <1>2, <1>5 DEF Ids
    <3>2. CASE i \in Listed
      BY <1>4, <3>1, <3>2 DEF Seg
    <3>3. CASE i \notin Listed
      BY <1>3, <3>1, <3>3 DEF Seg, Playlist
    <3> QED
      BY <3>2, <3>3
  <2>4. Len(segIDs') = 0
    BY <1>1
  <2>5. closed' /\ segIDs' = <<>> /\ mediaSequence' = mediaSequence
    BY <1>1
  <2>6. discontinuitySequence' = Cardinality(Discontinuities(mediaSequence))'
    BY <1>1, <2>1, <2>2 DEF Discontinuities, DiscOf, Seg
  <2> QED
    BY <1>5, <2>1, <2>3, <2>4, <2>5, <2>6 DEF Playlist
<1>11. Inits'
  <2>1. Listed' = {}
    BY <1>1 DEF Listed, Range
  <2> QED
    BY <1>1, <2>1 DEF Inits
<1>12. Keyframes'
  BY <1>1, <1>7 DEF Keyframes, KeyframeNext, Independent
<1>13. Eviction'
  BY <1>1 DEF Eviction
<1> QED
  BY <1>7, <1>8, <1>9, <1>10, <1>11, <1>12, <1>13

\* A reader changes nothing the invariant is about.
LEMMA ReaderStep ==
    ASSUME IInv, UNCHANGED writer
    PROVE  IInv'
<1>1. UNCHANGED <<opt, closed, segs, segIDs, mediaSequence, discontinuitySequence, initVersion,
                  initCache, manifest, job, wpc, capSplitSeen, gateOpen>>
  BY DEF writer, counts, config
<1>2. Shape' /\ Control' /\ Inits'
  BY <1>1 DEF IInv, Shape, Control, Inits, Content, CurFrag, Current, Seg, Listed
<1>3. Playlist' /\ Manifest'
  BY <1>1 DEF IInv, Playlist, Manifest, Discontinuities, Seg, Ids, Listed, Entry, Published
<1>4. Keyframes'
  BY <1>1 DEF IInv, Keyframes, Keyed, KeyframeNext, Independent, Opens, Seg, Ids, Published, Current
<1>5. Lengths'
  BY <1>1 DEF IInv, Lengths, Limited, Limit, Ids, Seg, Content, CurFrag, Current
<1>6. Eviction'
  BY <1>1 DEF IInv, Eviction, EvictedLast, MaxPlaylist, Durations, ClosedIds, Seg,
              MapThenSumSet, MapThenFoldSet
<1> QED
  BY <1>2, <1>3, <1>4, <1>5, <1>6 DEF IInv

\* At the start there is one empty segment and no manifest.
LEMMA InitIInv == Init => IInv
<1> SUFFICES ASSUME Init PROVE IInv
  OBVIOUS
<1>1. PICK t : t = NewSegment(FALSE, 0)
  OBVIOUS
<1>2. /\ t \in SegmentOf /\ Len(t.frags) >= 1 /\ Content(t) = 0 /\ t.dur = 0
      /\ CurFrag(t).done = FALSE /\ t.held = 0 /\ t.keyed = TRUE /\ t.ended = FALSE /\ t.init = 0
  <2>1. /\ t \in SegmentOf /\ Len(t.frags) >= 1 /\ Content(t) = 0 /\ t.dur = 0 /\ t.held = 0
        /\ t.init = 0 /\ Fresh(t)
    BY <1>1, NewSegmentIs, NewSegmentTyped
  <2> QED
    BY <2>1 DEF Fresh
<1>3. /\ opt \in Options /\ segs = <<t>> /\ segIDs = <<0>>
      /\ mediaSequence = 0 /\ discontinuitySequence = 0 /\ initVersion = 0 /\ initCache = {0}
      /\ gateOpen = FALSE /\ capSplitSeen = FALSE /\ manifest = NoManifest /\ closed = FALSE
      /\ wpc = "idle" /\ job = NoJob
  BY <1>1 DEF Init
<1>4. segs \in Seq(SegmentOf) /\ Len(segs) = 1 /\ segs[1] = t
  BY <1>2, <1>3
<1>5. Current = t
  BY <1>4 DEF Current
<1>6. /\ manifest.seq = 0 /\ manifest.disc = 0 /\ manifest.independent = FALSE
      /\ manifest.list = <<>> /\ manifest \in ManifestOf
  BY <1>3 DEF NoManifest, ManifestOf
<1>7. Shape
  <2>1. segIDs \in Seq(Nat)
    BY <1>3
  <2>2. \A i \in 1 .. Len(segs) : Len(segs[i].frags) >= 1
    BY <1>2, <1>4
  <2> QED
    <3>1. /\ opt \in Options /\ closed \in BOOLEAN /\ wpc \in Labels /\ job \in JobOf
          /\ mediaSequence \in Nat /\ discontinuitySequence \in Nat /\ initVersion \in Nat
          /\ gateOpen \in BOOLEAN /\ capSplitSeen \in BOOLEAN
      BY <1>3, NoJobIs DEF Labels
    <3> QED
      BY <1>4, <1>6, <2>1, <2>2, <3>1 DEF Shape
<1>8. Control
  BY <1>2, <1>3, <1>5, NoJobIs DEF Control
<1>9. Ids = {0} /\ Listed = {0} /\ Seg(0) = t
  <2>1. Range(<<0>>) = {0}
    BY DEF Range
  <2> QED
    BY <1>3, <1>4, <2>1 DEF Ids, Listed, Seg
<1>10. Cardinality(Discontinuities(0)) = 0
  BY DiscOfIs DEF Discontinuities, DiscOf, Seg
<1>11. Playlist
  <2>1. Len(segIDs) = 1 /\ segIDs[1] = 0
    BY <1>3
  <2> QED
    BY <1>3, <1>4, <1>9, <1>10, <2>1 DEF Playlist
<1>12. Manifest
  <2>1. Len(manifest.list) = 0 /\ Published = 0
    BY <1>6 DEF Published
  <2> QED
    BY <1>3, <1>4, <1>6, <1>10, <2>1 DEF Manifest
<1>13. Inits
  BY <1>2, <1>3, <1>5, <1>9 DEF Inits
<1>14. Keyframes
  BY <1>2, <1>3, <1>6, <1>9 DEF Keyframes, Keyed, KeyframeNext, Independent
<1>15. Lengths
  BY <1>2, <1>3, <1>5, <1>7, <1>9, NoJobIs, OptionsAre DEF Lengths
<1>16. Eviction
  <2>1. Durations(ClosedIds) = Kept(segs, 0, -1)
    BY <1>3, <1>4, <1>7, <1>11, ClosedTime
  <2>2. Kept(segs, 0, -1) = 0
    <3>1. -1 \in Int /\ -1 < Len(segs) /\ 0 > -1
      BY <1>4
    <3> QED
      BY <1>4, <3>1, KeptIs
  <2>3. Durations(ClosedIds) <= MaxPlaylist
    BY <1>7, <2>1, <2>2, MaxPlaylistIs
  <2> QED
    BY <1>3, <1>4, <2>3 DEF Eviction
<1> QED
  BY <1>7, <1>8, <1>11, <1>12, <1>13, <1>14, <1>15, <1>16 DEF IInv

\* Each step preserves the invariant.
LEMMA StepIInv == IInv /\ [Next]_vars => IInv'
<1> SUFFICES ASSUME IInv, [Next]_vars PROVE IInv'
  OBVIOUS
<1>1. ASSUME NEW r \in Readers, Ask(r) \/ Read(r) \/ IndexTimeout(r) \/ BytesTimeout(r)
      PROVE  UNCHANGED writer
  BY <1>1 DEF Ask, Read, GetIndexM3u8, GetSegment, GetFragment, LookAtCurrent, AwaitSegment,
              AwaitPart, AwaitBroadcast, AwaitFragment, IndexTimeout, BytesTimeout
<1>2. CASE Write
  BY <1>2, WritePacketStep, CloseSegmentStep, AddSegmentStep, AppendPacketStep, NextFragmentStep,
     StoreManifestStep, BroadcastStep DEF Write
<1>3. CASE Evict
  BY <1>3, EvictOldestStep, EvictionOverStep DEF Evict
<1>4. CASE Update
  BY <1>4, UpdateCodecParametersStep, UpdateSegmentStep DEF Update
<1>5. CASE Release
  BY <1>5, ReleaseStep
<1>6. CASE \E r \in Readers : Ask(r) \/ Read(r) \/ IndexTimeout(r) \/ BytesTimeout(r)
  BY <1>1, <1>6, ReaderStep
<1>7. CASE UNCHANGED vars
  <2>1. UNCHANGED writer
    BY <1>7 DEF vars, writer, bounds
  <2> QED
    BY <2>1, ReaderStep
<1> QED
  BY <1>2, <1>3, <1>4, <1>5, <1>6, <1>7 DEF Next

\* The invariant: what is in the playlist, what the published manifest knows
\* of it, and what the writer finds in the segment it is writing.
THEOREM InductiveInvariant == Spec => []IInv
<1> QED
  BY InitIInv, StepIInv, PTL DEF Spec

-----------------------------------------------------------------------------
(* What follows from it *)

\* The listed segments are segments.
LEMMA ListedAreSegments ==
    ASSUME Shape, Playlist
    PROVE  Listed \subseteq Ids
<1>1. CASE closed
  BY <1>1 DEF Playlist, Listed, Range
<1>2. CASE ~ closed
  BY <1>2, Where DEF Ids
<1> QED
  BY <1>1, <1>2

\* EXT-X-INDEPENDENT-SEGMENTS is in the playlist only if every listed segment
\* begins with a keyframe (updateIndexM3u8 sets it, WritePacket decides).
THEOREM IndependentSegments == Spec => []IndependentTagHonest
<1>1. IInv => IndependentTagHonest
  BY DEF IInv, Keyframes, Keyed, IndependentTagHonest
<1> QED
  BY <1>1, InductiveInvariant, PTL

\* No finished segment is longer than the target duration, or the cap, where
\* the playlist promises one.
THEOREM TargetDuration == Spec => []SegmentsWithinTarget
<1>1. IInv => SegmentsWithinTarget
  BY ListedAreSegments DEF IInv, Lengths, Limited, Limit, SegmentsWithinTarget
<1> QED
  BY <1>1, InductiveInvariant, PTL

\* Eviction keeps the duration, or the count, that the options ask for, and not a
\* segment more than needed; where segments are counted the playlist is at most one
\* segment short of the limit, and over it only if it has no more than the count.
THEOREM EvictionKeepsEnough == Spec => []EvictionKeepsPlaylist
<1>1. IInv => EvictionKeepsPlaylist
  <2> SUFFICES ASSUME IInv, wpc # "evict", ~ closed
               PROVE  EvictionKeepsPlaylist
    BY DEF EvictionKeepsPlaylist
  <2>1. CASE opt.keep > 0
    BY <2>1 DEF IInv, Eviction, EvictionKeepsPlaylist
  <2>2. CASE ~ (opt.keep > 0)
    <3>1. Len(segIDs) >= opt.count \/ Len(segIDs) >= Len(segs)
      BY <2>2 DEF IInv, Eviction
    <3>2. opt.count \in Nat /\ Len(segs) \in Nat /\ Len(segIDs) \in Nat
      BY OptionsAre DEF IInv, Shape
    <3>3. Len(segIDs) >= IF opt.count < Len(segs) THEN opt.count ELSE Len(segs)
      BY <3>1, <3>2
    <3>4. /\ Len(segIDs) > opt.count => Durations(ClosedIds) <= MaxPlaylist
          /\ mediaSequence > 0 => Durations(ClosedIds) + Seg(mediaSequence - 1).dur > MaxPlaylist
      BY <2>2 DEF IInv, Eviction, EvictedLast
    <3> QED
      BY <2>2, <3>3, <3>4 DEF EvictionKeepsPlaylist
  <2> QED
    BY <2>1, <2>2
<1> QED
  BY <1>1, InductiveInvariant, PTL

\* The init of a published segment can be fetched as long as the segment can:
\* cleanupInitCache drops no version that is in use.
THEOREM InitsAreKept == Spec => []ListedInitKnown
<1>1. IInv => ListedInitKnown
  BY DEF IInv, Manifest, Inits, ListedInitKnown
<1> QED
  BY <1>1, InductiveInvariant, PTL

\* The slots of an evicted segment, and all slots of a released muxer, are
\* given back.
THEOREM EvictionReleases == Spec => []EvictedSlotsReleased
<1>1. IInv => EvictedSlotsReleased
  BY DEF IInv, Playlist, EvictedSlotsReleased
<1> QED
  BY <1>1, InductiveInvariant, PTL

\* The discontinuities before b are those before a and those from a on.
LEMMA DiscontinuitiesSplit ==
    ASSUME NEW ss, NEW a \in Nat, NEW b \in Nat, a <= b
    PROVE  Cardinality({i \in a .. b - 1 : ss[i + 1].disc}) =
               Cardinality(DiscOf(ss, b)) - Cardinality(DiscOf(ss, a))
<1>1. PICK S : S = {i \in a .. b - 1 : ss[i + 1].disc}
  OBVIOUS
<1>2. DiscOf(ss, b) = DiscOf(ss, a) \cup S /\ DiscOf(ss, a) \cap S = {}
  <2>1. 0 .. b - 1 = (0 .. a - 1) \cup (a .. b - 1) /\ (0 .. a - 1) \cap (a .. b - 1) = {}
    OBVIOUS
  <2> QED
    BY <1>1, <2>1 DEF DiscOf
<1>3. IsFiniteSet(DiscOf(ss, a)) /\ IsFiniteSet(S)
  <2>1. IsFiniteSet(a .. b - 1)
    BY FS_Interval
  <2> QED
    BY <1>1, <2>1, DiscOfIs, FS_Subset
<1>4. Cardinality(DiscOf(ss, b)) = Cardinality(DiscOf(ss, a)) + Cardinality(S) - Cardinality({})
  BY <1>2, <1>3, FS_Union
<1>5. Cardinality({}) = 0 /\ Cardinality(DiscOf(ss, a)) \in Nat /\ Cardinality(S) \in Nat
  BY <1>3, FS_EmptySet, FS_CardinalityType
<1> QED
  BY <1>1, <1>4, <1>5

\* Segments leave the published playlist at its front only, counted by the
\* media sequence and the discontinuity sequence; a finished segment that
\* stays keeps its entry.
THEOREM PlaylistShrinksAtFront == Spec => PlaylistOnlyShrinksAtFront
<1> DEFINE gone == manifest'.seq - manifest.seq
           old == manifest.list
           new == manifest'.list
           entered == {i \in manifest.seq .. manifest'.seq - 1 : Seg(i).disc}
           Shrinks == /\ gone >= 0
                      /\ \A k \in 1 .. Len(new) : new[k].id = manifest'.seq + k - 1
                      /\ manifest'.disc - manifest.disc = Cardinality(entered)
                      /\ \A k \in 1 .. Len(old) : k > gone =>
                            /\ new[k - gone].id = old[k].id
                            /\ old[k].ended => new[k - gone] = old[k]
<1>1. ASSUME IInv, StoreManifest
      PROVE  Shrinks
  <2>1. IInv'
    BY <1>1, StoreManifestStep
  <2>2. /\ wpc = "store" /\ ~ closed /\ UNCHANGED <<segs, segIDs>>
        /\ manifest'.seq = mediaSequence /\ manifest'.disc = discontinuitySequence
        /\ new = [k \in 1 .. Len(segIDs) |-> Entry(segIDs[k])]
    BY <1>1 DEF StoreManifest, IInv, Control
  <2>3. PICK n \in Nat, m \in Nat, s \in Nat, l \in Nat :
           /\ n = Len(segs) /\ m = mediaSequence /\ s = manifest.seq /\ l = Len(old)
    <3>1. /\ Len(segs) \in Nat /\ mediaSequence \in Nat /\ manifest.seq \in Nat
          /\ Len(manifest.list) \in Nat
      BY <1>1 DEF IInv, Shape, ManifestOf
    <3> QED
      BY <3>1
  <2>4. /\ m < n /\ Len(segIDs) = n - m /\ \A k \in 1 .. Len(segIDs) : segIDs[k] = m + k - 1
        /\ discontinuitySequence = Cardinality(DiscOf(segs, m))
    BY <1>1, <2>2, <2>3 DEF IInv, Playlist, Discontinuities, DiscOf, Seg
  <2>5. /\ s <= m /\ s + l <= n /\ manifest.disc = Cardinality(DiscOf(segs, s))
        /\ \A k \in 1 .. l : old[k].id = s + k - 1 /\ (old[k].ended => old[k] = Entry(s + k - 1))
    BY <1>1, <2>3 DEF IInv, Manifest, Published, Discontinuities, DiscOf, Seg
  <2>6. /\ Len(new) = n - m
        /\ \A k \in 1 .. n - m : new[k] = Entry(m + k - 1) /\ new[k].id = m + k - 1
    BY <2>2, <2>4 DEF Entry
  <2>7. gone = m - s /\ gone >= 0
    BY <2>2, <2>3, <2>5
  <2>8. manifest'.disc - manifest.disc = Cardinality(entered)
    <3>1. entered = {i \in s .. m - 1 : segs[i + 1].disc}
      BY <2>2, <2>3 DEF Seg
    <3>2. Cardinality(entered) = Cardinality(DiscOf(segs, m)) - Cardinality(DiscOf(segs, s))
      BY <2>5, <3>1, DiscontinuitiesSplit
    <3> QED
      BY <2>2, <2>4, <2>5, <3>2
  <2>9. ASSUME NEW k \in 1 .. l, k > m - s
        PROVE  /\ new[k - (m - s)].id = old[k].id
               /\ old[k].ended => new[k - (m - s)] = old[k]
    <3>1. PICK j \in 1 .. n - m : j = k - (m - s) /\ m + j - 1 = s + k - 1
      BY <2>5, <2>9
    <3> QED
      BY <2>5, <2>6, <3>1
  <2> QED
    BY <2>2, <2>3, <2>6, <2>7, <2>8, <2>9
<1>2. ASSUME [Next]_vars, manifest' # manifest
      PROVE  StoreManifest
  BY <1>2 DEF Next, Write, Evict, Update, WritePacket, CloseSegment, AddSegment, AppendPacket,
              NextFragment, broadcastIndex, EvictOldest, EvictionOver, UpdateCodecParameters,
              UpdateSegment, Release, Ask, Read, GetIndexM3u8, GetSegment, GetFragment,
              LookAtCurrent, AwaitSegment, AwaitPart, AwaitBroadcast, AwaitFragment,
              IndexTimeout, BytesTimeout, writer, vars
<1>3. IInv /\ [Next]_vars => (manifest' # manifest => ShrinksAtFront)
  BY <1>1, <1>2 DEF ShrinksAtFront
<1> QED
  BY <1>3, InductiveInvariant, PTL DEF Spec, PlaylistOnlyShrinksAtFront
=============================================================================
