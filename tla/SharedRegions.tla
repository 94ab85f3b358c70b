---------------------------- MODULE SharedRegions ----------------------------
(***************************************************************************)
(* What users of the ring allocator rely on, without a ring: the producer  *)
(* obtains a region of the slab that overlaps no region in use, may grow   *)
(* one it owns into free bytes, and owners share it or drop it.  A region  *)
(* is in use for as long as it has an owner, and its bytes do not move.    *)
(***************************************************************************)
EXTENDS Integers

CONSTANTS Threads, Producer, Handles, Cap

VARIABLES
    region,   \* for every handle in use, its bytes lo .. hi-1
    owns      \* the handles each goroutine owns

InUse == DOMAIN region

Overlap(a, b) == a.lo < b.hi /\ b.lo < a.hi

FreeFor(h, r) ==
    \A k \in InUse \ {h} : ~ Overlap(region[k], r)

Put(h, r) == [k \in InUse \cup {h} |-> IF k = h THEN r ELSE region[k]]

Init == region = [k \in {} |-> {}] /\ owns = [t \in Threads |-> {}]

Obtain(h, r) ==
    /\ h \notin InUse
    /\ r.lo < r.hi
    /\ FreeFor(h, r)
    /\ region' = Put(h, r)
    /\ owns' = [owns EXCEPT ![Producer] = @ \cup {h}]

Grow(h, hi) ==
    /\ h \in owns[Producer]
    /\ hi > region[h].hi
    /\ FreeFor(h, [region[h] EXCEPT !.hi = hi])
    /\ region' = Put(h, [region[h] EXCEPT !.hi = hi])
    /\ UNCHANGED owns

Share(t, u, h) ==
    /\ h \in owns[t] /\ h \notin owns[u]
    /\ owns' = [owns EXCEPT ![u] = @ \cup {h}]
    /\ UNCHANGED region

Drop(t, h) ==
    /\ h \in owns[t]
    /\ owns' = [owns EXCEPT ![t] = @ \ {h}]
    /\ region' = [k \in UNION {owns'[u] : u \in Threads} |-> region[k]]

Next ==
    \/ \E h \in Handles, r \in [lo : 0 .. Cap, hi : 0 .. Cap] : Obtain(h, r)
    \/ \E h \in InUse, hi \in 0 .. Cap : Grow(h, hi)
    \/ \E t, u \in Threads, h \in InUse : Share(t, u, h)
    \/ \E t \in Threads, h \in InUse : Drop(t, h)

Spec == Init /\ [][Next]_<<region, owns>>
=============================================================================
