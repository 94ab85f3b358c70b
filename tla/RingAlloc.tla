------------------------------ MODULE RingAlloc ------------------------------
(***************************************************************************)
(* The fixed-size ring allocator of utils/buffer/ring_alloc.go: a byte     *)
(* slab carved into contiguous slots by ONE producer goroutine (Alloc,     *)
(* Extend) and handed to any number of owners, each of which calls Release *)
(* exactly once on every handle it owns (Retain makes one more owner).     *)
(*                                                                         *)
(* Slots are numbered by an ever growing index and stored at index modulo  *)
(* SlotCount.  The live window is head .. tail-1.  The producer is the     *)
(* only writer of tail and of the slot fields; any goroutine may advance   *)
(* head with a compare-and-swap.  One action is one atomic memory access   *)
(* of the code together with the thread-local computation that follows it. *)
(***************************************************************************)
EXTENDS Integers, FiniteSets

CONSTANTS
    Producer,    \* the goroutine that calls Alloc and Extend
    Consumers,   \* the goroutines that only Retain and Release
    SlotCount,   \* ringSlotCount, 4096 in the code
    Cap,         \* bcap, the size of the slab in bytes
    Sizes,       \* the values of n that Alloc and Extend are called with
    MaxTail      \* bound: the producer stops when tail gets here

ASSUME ThreadsAssumption == Producer \notin Consumers /\ IsFiniteSet(Consumers)
ASSUME SlotCountAssumption == SlotCount \in Nat /\ SlotCount > 1
ASSUME CapAssumption == Cap \in Nat
ASSUME SizesAssumption == Sizes \subseteq Nat
ASSUME MaxTailAssumption == MaxTail \in Nat

Threads == Consumers \cup {Producer}

VARIABLES
    slots,     \* slot table: start, end and the atomic reference count
    head,      \* atomic: index of the oldest slot not yet recycled
    tail,      \* atomic: index of the next slot
    write,     \* producer-only: next byte to write
    pc,        \* where each goroutine is inside Alloc, Extend or Release
    seenHead,  \* the local variable `head' of Alloc (producer) and Release
    req,       \* the producer's call in progress: n, read cursor, extended slot
    owns,      \* the handles each goroutine still has to release
    newLap,    \* history: first slot index allotted after the last wrap
    lapped,    \* history: write has wrapped while slots of the lap before remained
    waste      \* history: the indices of the waste slots

ring   == <<slots, head, tail, write>>
ghosts == <<newLap, lapped, waste>>
vars   == <<slots, head, tail, write, pc, seenHead, req, owns, newLap, lapped, waste>>

NoReq == [n |-> 0, read |-> 0, idx |-> 0]

AllocSteps   == {"cursor", "waste", "rehead", "recursor", "publish"}
ReleaseSteps == {"load", "tail", "refs", "cas"}

-----------------------------------------------------------------------------
(* Helpers *)

SlotOf(i) == slots[i % SlotCount]

\* The read cursor: the first byte still in use, or write when nothing is.
readCursor == IF head = tail THEN write ELSE SlotOf(head).start

\* Whether [lo, hi) lies in the free zone of a ring whose live bytes run from
\* read to write, around the end of the slab when write < read.
regionFree(lo, hi, read) ==
    IF write >= read THEN hi <= read \/ lo >= write
                     ELSE lo >= write /\ hi <= read

\* Variant: a full slab and an empty one are not told apart.
AllocFitsFullSlab(read) ==
    /\ regionFree(write, write + req.n, read)
    /\ tail - seenHead[Producer] < SlotCount

\* The guards Alloc evaluates, in this order, once start and read are known
\* (start is always write: Alloc sets write to 0 when it wraps).
AllocFits(read) ==
    /\ ~ (write = read /\ seenHead[Producer] < tail)
    /\ regionFree(write, write + req.n, read)
    /\ tail - seenHead[Producer] < SlotCount

Goto(t, label) == pc' = [pc EXCEPT ![t] = label]

\* A call returns: its locals are dead.
Return(t) ==
    /\ Goto(t, "idle")
    /\ seenHead' = [seenHead EXCEPT ![t] = 0]

-----------------------------------------------------------------------------
Init ==
    /\ slots = [k \in 0 .. SlotCount - 1 |-> [start |-> 0, end |-> 0, refs |-> 0]]
    /\ head = 0 /\ tail = 0 /\ write = 0
    /\ pc = [t \in Threads |-> "idle"]
    /\ seenHead = [t \in Threads |-> 0]
    /\ req = NoReq
    /\ owns = [t \in Threads |-> {}]
    /\ newLap = 0 /\ lapped = FALSE /\ waste = {}

-----------------------------------------------------------------------------
(* Alloc(n), producer only *)

\* A request no slab could hold returns nil at once and changes nothing.
AllocBegin(n) ==
    /\ pc[Producer] = "idle"
    /\ n \in 1 .. Cap
    /\ tail + 2 <= MaxTail
    /\ seenHead' = [seenHead EXCEPT ![Producer] = head]
    /\ req' = [NoReq EXCEPT !.n = n]
    /\ Goto(Producer, "cursor")
    /\ UNCHANGED <<ring, owns, ghosts>>

AllocNil ==
    /\ Return(Producer)
    /\ req' = NoReq
    /\ UNCHANGED slots /\ UNCHANGED write

AllocTake ==
    /\ slots' = [slots EXCEPT ![tail % SlotCount] =
                    [start |-> write, end |-> write + req.n, refs |-> 1]]
    /\ write' = write + req.n
    /\ Goto(Producer, "publish")
    /\ UNCHANGED <<req, seenHead>>

AllocDecide(read) ==
    /\ IF AllocFits(read) THEN AllocTake ELSE AllocNil
    /\ UNCHANGED <<head, tail, owns, ghosts>>

\* The request fits before the end of the slab.
AllocStraight ==
    /\ pc[Producer] = "cursor"
    /\ write + req.n <= Cap
    /\ AllocDecide(readCursor)

\* It does not: no slot is left for the waste entry.
AllocNoWasteSlot ==
    /\ pc[Producer] = "cursor"
    /\ write + req.n > Cap
    /\ tail - seenHead[Producer] >= SlotCount - 1
    /\ AllocNil
    /\ UNCHANGED <<head, tail, owns, ghosts>>

\* It does not: fill the waste slot, not yet visible to the consumers.
AllocFillWaste ==
    /\ pc[Producer] = "cursor"
    /\ write + req.n > Cap
    /\ tail - seenHead[Producer] < SlotCount - 1
    /\ slots' = [slots EXCEPT ![tail % SlotCount] =
                    [start |-> write, end |-> Cap, refs |-> 0]]
    /\ Goto(Producer, "waste")
    /\ UNCHANGED <<head, tail, write, seenHead, req, owns, ghosts>>

\* r.tail.Add(1) publishes the waste slot, then write goes back to 0.
AllocWrap ==
    /\ pc[Producer] = "waste"
    /\ tail' = tail + 1
    /\ write' = 0
    /\ Goto(Producer, "rehead")
    /\ newLap' = tail + 1
    /\ lapped' = (lapped \/ head < newLap)
    /\ waste' = waste \cup {tail}
    /\ UNCHANGED <<slots, head, seenHead, req, owns>>

AllocRehead ==
    /\ pc[Producer] = "rehead"
    /\ seenHead' = [seenHead EXCEPT ![Producer] = head]
    /\ Goto(Producer, "recursor")
    /\ UNCHANGED <<ring, req, owns, ghosts>>

AllocWrapped ==
    /\ pc[Producer] = "recursor"
    /\ AllocDecide(readCursor)

\* r.tail.Add(1) publishes the slot; the caller gets the handle.
AllocPublish ==
    /\ pc[Producer] = "publish"
    /\ tail' = tail + 1
    /\ owns' = [owns EXCEPT ![Producer] = @ \cup {tail}]
    /\ req' = NoReq
    /\ Return(Producer)
    /\ UNCHANGED <<slots, head, write, ghosts>>

-----------------------------------------------------------------------------
(* Extend(h, n), producer only, on a handle it still owns *)

ExtendBegin(i, n) ==
    /\ pc[Producer] = "idle"
    /\ n > 0
    /\ SlotOf(i).end = write
    /\ SlotOf(i).end + n <= Cap
    /\ req' = [n |-> n, read |-> readCursor, idx |-> i]
    /\ Goto(Producer, "extend")
    /\ UNCHANGED <<ring, seenHead, owns, ghosts>>

\* Variant: the slot grows without a look at the bytes after it.
ExtendFitsUnchecked == ~ (write = req.read /\ head < tail)

ExtendFits ==
    /\ ~ (write = req.read /\ head < tail)
    /\ regionFree(write, write + req.n, req.read)

ExtendEnd ==
    /\ pc[Producer] = "extend"
    /\ IF ExtendFits
       THEN /\ slots' = [slots EXCEPT ![req.idx % SlotCount].end = write + req.n]
            /\ write' = write + req.n
       ELSE UNCHANGED <<slots, write>>
    /\ req' = NoReq
    /\ Goto(Producer, "idle")
    /\ UNCHANGED <<head, tail, seenHead, owns, ghosts>>

-----------------------------------------------------------------------------
(* Retain and Release, any goroutine that owns the handle *)

\* Variant: the clone is handed out without counting it.
RetainUncounted(t, u, i) ==
    /\ pc[t] = "idle"
    /\ i \in owns[t] /\ i \notin owns[u]
    /\ owns' = [owns EXCEPT ![u] = @ \cup {i}]
    /\ UNCHANGED <<ring, pc, seenHead, req, ghosts>>

\* Clone(false): Retain on behalf of u, which receives the clone.
Retain(t, u, i) ==
    /\ pc[t] = "idle"
    /\ i \in owns[t] /\ i \notin owns[u]
    /\ slots' = [slots EXCEPT ![i % SlotCount].refs = @ + 1]
    /\ owns' = [owns EXCEPT ![u] = @ \cup {i}]
    /\ UNCHANGED <<head, tail, write, pc, seenHead, req, ghosts>>

Release(t, i) ==
    /\ pc[t] = "idle"
    /\ i \in owns[t]
    /\ slots' = [slots EXCEPT ![i % SlotCount].refs = @ - 1]
    /\ owns' = [owns EXCEPT ![t] = @ \ {i}]
    /\ Goto(t, "load")
    /\ UNCHANGED <<head, tail, write, seenHead, req, ghosts>>

ReleaseLoadHead(t) ==
    /\ pc[t] = "load"
    /\ seenHead' = [seenHead EXCEPT ![t] = head]
    /\ Goto(t, "tail")
    /\ UNCHANGED <<ring, req, owns, ghosts>>

ReleaseCheckTail(t) ==
    /\ pc[t] = "tail"
    /\ IF seenHead[t] >= tail
       THEN Return(t)
       ELSE Goto(t, "refs") /\ UNCHANGED seenHead
    /\ UNCHANGED <<ring, req, owns, ghosts>>

\* Variant: an owned head slot is waited for.
ReleaseCheckRefsSpin(t) ==
    /\ pc[t] = "refs"
    /\ Goto(t, IF SlotOf(seenHead[t]).refs # 0 THEN "load" ELSE "cas")
    /\ UNCHANGED <<ring, seenHead, req, owns, ghosts>>

ReleaseCheckRefs(t) ==
    /\ pc[t] = "refs"
    /\ IF SlotOf(seenHead[t]).refs # 0
       THEN Return(t)
       ELSE Goto(t, "cas") /\ UNCHANGED seenHead
    /\ UNCHANGED <<ring, req, owns, ghosts>>

\* Variant: one swap, and no loop.
ReleaseCasOnce(t) ==
    /\ pc[t] = "cas"
    /\ head' = IF head = seenHead[t] THEN head + 1 ELSE head
    /\ Return(t)
    /\ UNCHANGED <<slots, tail, write, req, owns, ghosts>>

\* Variant: a plain increment in place of the compare-and-swap.
ReleaseCasBlind(t) ==
    /\ pc[t] = "cas"
    /\ head' = head + 1
    /\ Goto(t, "load")
    /\ seenHead' = [seenHead EXCEPT ![t] = 0]
    /\ UNCHANGED <<slots, tail, write, req, owns, ghosts>>

\* The swap fails when another goroutine advanced head; both ways, loop.
ReleaseCas(t) ==
    /\ pc[t] = "cas"
    /\ head' = IF head = seenHead[t] THEN head + 1 ELSE head
    /\ Goto(t, "load")
    /\ seenHead' = [seenHead EXCEPT ![t] = 0]
    /\ UNCHANGED <<slots, tail, write, req, owns, ghosts>>

-----------------------------------------------------------------------------
Alloc ==
    \/ \E n \in Sizes : AllocBegin(n)
    \/ AllocStraight \/ AllocNoWasteSlot \/ AllocFillWaste
    \/ AllocWrap \/ AllocRehead \/ AllocWrapped \/ AllocPublish

Extend ==
    \/ \E i \in owns[Producer], n \in Sizes : ExtendBegin(i, n)
    \/ ExtendEnd

ReleaseStep(t) ==
    \/ ReleaseLoadHead(t) \/ ReleaseCheckTail(t)
    \/ ReleaseCheckRefs(t) \/ ReleaseCas(t)

Next ==
    \/ Alloc
    \/ Extend
    \/ \E t \in Threads :
        \/ \E i \in owns[t] : Release(t, i)
        \/ \E u \in Threads, i \in owns[t] : Retain(t, u, i)
        \/ ReleaseStep(t)

Spec == Init /\ [][Next]_vars

\* A goroutine that has begun to release runs on; nothing makes the producer
\* allocate, nor an owner release.
FairSpec == Spec /\ \A t \in Threads : WF_vars(ReleaseStep(t))

-----------------------------------------------------------------------------
(* Properties *)

Slot == [start : 0 .. Cap, end : 0 .. Cap, refs : Int]

\* The shape of every variable; the cursors stay within the slab.
TypeOK ==
    /\ slots \in [0 .. SlotCount - 1 -> Slot]
    /\ head \in Nat /\ tail \in Nat /\ write \in 0 .. Cap
    /\ pc \in [Threads -> {"idle", "extend"} \cup AllocSteps \cup ReleaseSteps]
    /\ \A t \in Consumers : pc[t] \in {"idle"} \cup ReleaseSteps
    /\ seenHead \in [Threads -> Nat]
    /\ req \in [n : 0 .. Cap, read : 0 .. Cap, idx : Nat]
    /\ owns \in [Threads -> SUBSET Nat]
    /\ newLap \in Nat /\ lapped \in BOOLEAN /\ waste \in SUBSET Nat

Live == {i \in 0 .. tail : \E t \in Threads : i \in owns[t]}

OwnersOf(i) == {t \in Threads : i \in owns[t]}

\* A handle some goroutine still owns names a slot of the live window, so its
\* entry of the slot table is never given to another allocation.
HandlesInWindow ==
    \A t \in Threads : \A i \in owns[t] : head <= i /\ i < tail

\* The window never outgrows the slot table.
WindowFits == head <= tail /\ tail - head <= SlotCount

\* The reference count of an owned slot is the number of its owners, whatever
\* Retain and Release calls overlap: Release's panic "refs < 0" is unreachable
\* and no slot is done before its last owner lets go.
RefsCountOwners ==
    \A i \in head .. tail - 1 : SlotOf(i).refs = Cardinality(OwnersOf(i))

\* The bytes of two allocations that are both owned never overlap, as long as
\* write has not wrapped over slots of the lap before.
LiveRegionsDisjointUnlessLapped ==
    \A i, j \in Live :
        i < j /\ ~ lapped =>
            SlotOf(i).end <= SlotOf(j).start \/ SlotOf(j).end <= SlotOf(i).start

\* What the comments say of recycling: the bytes of a slot are used again when
\* its last owner has released it and head has passed it, so two allocations
\* that are both owned never overlap.  A wrap while the lap before is in use
\* makes regionFree take live bytes for free ones.
LiveRegionsDisjoint ==
    \A i, j \in Live :
        i < j => SlotOf(i).end <= SlotOf(j).start \/ SlotOf(j).end <= SlotOf(i).start

\* Nobody is in a call and nobody owns a handle.
Quiescent ==
    /\ \A t \in Threads : pc[t] = "idle"
    /\ \A t \in Threads : owns[t] = {}

\* When no call is in progress the oldest slot is either still owned or the
\* waste entry of a wrap: no interleaving of Release calls leaves a finished
\* allocation at the head, where it would block every later one.
NoLostAdvance ==
    (\A t \in Threads : pc[t] = "idle") /\ head < tail =>
        OwnersOf(head) # {} \/ head \in waste

\* What the type's comment promises: head advances past all consecutively done
\* slots, so a ring without owners is empty.  A waste slot that was published
\* while nothing is owned has no Release to move head past it.
DoneSlotsAreRecycled == Quiescent => head = tail

\* Head moves one slot at a time and never past a slot that has an owner.
HeadSkipsOnlyDoneSlots ==
    [][head' # head =>
          head' = head + 1 /\ head < tail /\ OwnersOf(head) = {}]_vars

\* A Release returns when the producer allocates finitely often, as MaxTail makes
\* it here.  The loop is lock-free, not wait-free: it swaps in vain only when
\* another one moves head, and without the bound one call might lose its swap
\* to the others for ever.
ReleaseReturns ==
    \A t \in Consumers : pc[t] \in ReleaseSteps ~> pc[t] = "idle"

-----------------------------------------------------------------------------
(* What the ring implements *)

\* Behaviours in which write never wraps over slots of the lap before.
NoLapSpec == Init /\ [][Next /\ ~ lapped']_vars

\* A handle in use stands for the bytes of its slot.
Region == [i \in Live |-> [lo |-> SlotOf(i).start, hi |-> SlotOf(i).end]]

Regions == INSTANCE SharedRegions WITH Handles <- 0 .. MaxTail, region <- Region

\* As long as no wrap laps the slots in use, a user of the ring sees regions
\* that never overlap, never move and stay his until he releases them: Alloc,
\* Extend, Retain and Release with all their interleaved memory accesses
\* implement the four atomic operations of SharedRegions.
ImplementsSharedRegions == Regions!Spec
=============================================================================
