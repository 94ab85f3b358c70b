------------------------------ MODULE GrowingRing ------------------------------
(* GrowingRingAlloc of utils/buffer/ring_alloc.go: a ring that is replaced by a *)
(* larger one when it refuses an allocation, up to a budget.  A ring is here    *)
(* what the growth sees of RingAlloc: its capacity, the window of its slots     *)
(* without the waste slots, and that it may refuse any request but one that     *)
(* fits an untouched ring.                                                      *)
EXTENDS Integers, Sequences, FiniteSets

CONSTANTS InitSize,  \* the size of the first ring
          Meg,       \* units of a megabyte
          Windows,   \* target duration and pre-buffer, in tenths of a second
          Requests,  \* the values of n that Alloc is called with
          Slots,     \* ringSlotCount
          MaxAllocs  \* bound: allocations

VARIABLES caps,      \* the capacities of the rings made, the current one last
          tails,     \* per ring: tail
          inUse,     \* the handles held, each of a ring and an index
          maxCap,    \* 0 for the default
          allocs,    \* allocations, answered or not
          refused    \* the refusals: what was asked, of what size and budget

growingVars == <<caps, tails, inUse, maxCap, allocs, refused>>

Lesser(a, b)  == IF a < b THEN a ELSE b
Greater(a, b) == IF a > b THEN a ELSE b

DefaultMaxRingSize == 32 * Meg

\* In proportion to the window, 15 s for the default, and a quarter of a megabyte
\* at least.
RingBudgetBytes(window) ==
    IF window <= 0 THEN DefaultMaxRingSize
    ELSE Greater((DefaultMaxRingSize * window) \div 150, Meg \div 4)

maxRingCap == IF maxCap > 0 THEN maxCap ELSE DefaultMaxRingSize

\* The larger the ring, the smaller the step; twice what was asked fits, unless the
\* budget is less.
Tenths(cap) == CASE cap > 8 * Meg -> 11 [] cap > 4 * Meg -> 13 [] cap > Meg -> 14 [] OTHER -> 16
calcGrowth(cap, n) == Lesser(Greater((cap * Tenths(cap)) \div 10, 2 * n), maxRingCap)

Current == Len(caps)
Oldest(r) == LET mine == {h.index : h \in {g \in inUse : g.ring = r}}
             IN  IF mine = {} THEN tails[r] ELSE CHOOSE i \in mine : \A j \in mine : i <= j
slotsExhausted == tails[Current] - Oldest(Current) >= Slots

Init == /\ caps = <<InitSize>> /\ tails = <<0>> /\ inUse = {} /\ maxCap = 0
        /\ allocs = 0 /\ refused = {}

SetMaxRingBytes(window) ==
    /\ maxCap' = RingBudgetBytes(window)
    /\ UNCHANGED <<caps, tails, inUse, allocs, refused>>

\* Alloc of the current ring: a slot.
Taken(n) ==
    /\ n \in 1..caps[Current] /\ ~slotsExhausted
    /\ tails' = [tails EXCEPT ![Current] = @ + 1]
    /\ inUse' = inUse \cup {[ring |-> Current, index |-> tails[Current]]}
    /\ UNCHANGED <<caps, maxCap, refused>>

Full(n) == n \notin 1..caps[Current] \/ tails[Current] > 0

\* Nothing more can be had: the caller takes memory of its own.
Refusal(n, cap) == refused' = refused \cup {[n |-> n, cap |-> cap, max |-> maxRingCap]}
AtBudget(n) ==
    /\ Full(n) /\ ~slotsExhausted /\ caps[Current] >= maxRingCap
    /\ Refusal(n, caps[Current])
    /\ UNCHANGED <<caps, tails, inUse, maxCap>>

\* grow, and Alloc of the new ring, which is untouched.
Grow(n) ==
    LET cap == calcGrowth(caps[Current], n)
        fits == n \in 1..cap
    IN  /\ Full(n) /\ ~slotsExhausted /\ caps[Current] < maxRingCap
        /\ caps' = Append(caps, cap)
        /\ tails' = Append(tails, IF fits THEN 1 ELSE 0)
        /\ IF fits
           THEN inUse' = inUse \cup {[ring |-> Current + 1, index |-> 0]} /\ UNCHANGED refused
           ELSE Refusal(n, cap) /\ UNCHANGED inUse
        /\ UNCHANGED maxCap

\* With every slot in use Alloc panics, and nothing follows.
Alloc(n) ==
    /\ allocs < MaxAllocs /\ allocs' = allocs + 1
    /\ Taken(n) \/ AtBudget(n) \/ Grow(n)

\* Release goes to the ring of the handle, which may be one that was replaced.
Release(h) == inUse' = inUse \ {h} /\ UNCHANGED <<caps, tails, maxCap, allocs, refused>>

Next == \/ \E n \in Requests : Alloc(n)
        \/ \E window \in Windows : SetMaxRingBytes(window)
        \/ \E h \in inUse : Release(h)

Spec == Init /\ [][Next]_growingVars

(* ------------------------------- Properties -------------------------------- *)

Largest == {InitSize, DefaultMaxRingSize} \cup {RingBudgetBytes(w) : w \in Windows}

\* What was asked in vain was nothing, or more than the budget, or the ring had
\* grown to the budget: a request is never refused while there is room to grow,
\* however requests, releases and new budgets come (ring_alloc.go:181-199).  Every
\* ring is larger than the one before it, and none is larger than a budget that was
\* set; a handle is of a ring that was made.
GrowsToBudget ==
    /\ \A r \in refused : r.n \notin 1..r.max \/ r.cap >= r.max
    /\ \A i \in 2..Current : caps[i - 1] < caps[i]
    /\ \A i \in 1..Current : \E m \in Largest : caps[i] <= m
    /\ \A h \in inUse : h.ring \in 1..Current /\ h.index < tails[h.ring]

\* Known not to hold: a request of nothing, as for an empty payload (rtp/pcm.go:40,
\* rtp/opus.go:53), makes no ring.  Alloc refuses it as it refuses one for which
\* there is no room, and every one of them grows the ring (ring_alloc.go:186-199).
NothingGrowsNothing == [][\A n \in Requests : n = 0 => ~Grow(n)]_growingVars
===============================================================================
