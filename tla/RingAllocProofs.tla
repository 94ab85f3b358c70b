-------------------------- MODULE RingAllocProofs --------------------------
(***************************************************************************)
(* What RingAlloc guarantees for every number of consumers, slot table     *)
(* size, slab size and request sizes.  The inductive invariant has four    *)
(* layers, each inductive on top of the ones before it: the types, the     *)
(* control facts about the call in progress, the reference counts, and the *)
(* geometry of the slots in the slab.                                      *)
(***************************************************************************)
EXTENDS RingAlloc, ListProofs

-----------------------------------------------------------------------------
(* The inductive invariant *)

Window == head .. tail - 1

\* What the call in progress has established and still relies on.
Control ==
    /\ WindowFits
    /\ \A t \in Threads : seenHead[t] <= head
    /\ \A t \in Threads : pc[t] \in {"refs", "cas"} => seenHead[t] < tail
    /\ pc[Producer] \in {"cursor", "waste", "rehead", "recursor"} => req.n > 0
    /\ pc[Producer] = "waste" => tail - seenHead[Producer] < SlotCount - 1
    /\ pc[Producer] = "rehead" => tail - head < SlotCount
    /\ pc[Producer] = "publish" => tail - seenHead[Producer] < SlotCount
    /\ pc[Producer] \in {"rehead", "recursor"} => write = 0
    /\ pc[Producer] = "extend" =>
          req.n > 0 /\ write + req.n <= Cap /\ req.idx \in owns[Producer]

\* Reference counts, of the published slots and of the one being filled.
Counts ==
    /\ HandlesInWindow
    /\ RefsCountOwners
    /\ pc[Producer] = "waste" => SlotOf(tail).refs = 0
    /\ pc[Producer] = "publish" => SlotOf(tail).refs = 1
    /\ \A t \in Threads :
          pc[t] = "cas" /\ seenHead[t] = head => SlotOf(head).refs = 0

\* The slots whose bytes are allotted: the window and the slot Alloc has filled.
Allotted == head .. (IF pc[Producer] = "publish" THEN tail ELSE tail - 1)

\* Slots of the current lap lie below write in the order of their indices,
\* those of the lap before above write, in the same order.
Geometry ==
    /\ newLap <= tail
    /\ \A i \in Allotted : SlotOf(i).start <= SlotOf(i).end
    /\ \A i \in Allotted : newLap <= i => SlotOf(i).start < SlotOf(i).end
    /\ \A t \in Threads : \A i \in owns[t] : SlotOf(i).start < SlotOf(i).end
    /\ pc[Producer] = "waste" => SlotOf(tail).start = write /\ SlotOf(tail).end = Cap
    /\ pc[Producer] = "publish" => SlotOf(tail).end = write
    /\ pc[Producer] = "extend" => SlotOf(req.idx).end = write
    /\ ~ lapped =>
        /\ \A i, j \in Allotted :
              i < j /\ (newLap <= i \/ j < newLap) => SlotOf(i).end <= SlotOf(j).start
        /\ \A i \in Allotted : newLap <= i => SlotOf(i).end <= write
        /\ \A i \in Allotted : i < newLap => write <= SlotOf(i).start
        /\ pc[Producer] = "extend" /\ head < newLap =>
              /\ write <= req.read
              /\ \A i \in Allotted : i < newLap => req.read <= SlotOf(i).start

IInv == TypeOK /\ Control /\ Counts /\ Geometry

-----------------------------------------------------------------------------
(* Arithmetic of the slot table *)

\* Every index has an entry in the table.
LEMMA SlotIndexInTable ==
    ASSUME NEW i \in Nat
    PROVE  i % SlotCount \in 0 .. SlotCount - 1
BY SlotCountAssumption

\* Indices less than SlotCount apart never share an entry.
LEMMA SlotsDistinct ==
    ASSUME NEW i \in Nat, NEW j \in Nat, i # j,
           i < j => j - i < SlotCount, j < i => i - j < SlotCount
    PROVE  i % SlotCount # j % SlotCount
<1>1. ASSUME NEW a \in Nat, NEW b \in Nat, a < b, b - a < SlotCount,
             a % SlotCount = b % SlotCount
      PROVE  FALSE
  <2> DEFINE qa == a \div SlotCount
             qb == b \div SlotCount
  <2>1. a = SlotCount * qa + (a % SlotCount) /\ qa \in Int
    BY SlotCountAssumption
  <2>2. b = SlotCount * qb + (b % SlotCount) /\ qb \in Int
    BY SlotCountAssumption
  <2> HIDE DEF qa, qb
  <2>3. b - a = SlotCount * qb - SlotCount * qa
    BY <1>1, <2>1, <2>2, SlotCountAssumption
  <2>4. b - a = SlotCount * (qb - qa)
    BY <2>1, <2>2, <2>3, SlotCountAssumption
  <2>5. qb - qa > 0
    BY <1>1, <2>1, <2>2, <2>4, SlotCountAssumption, SMT
  <2>6. qb - qa >= 1
    BY <2>1, <2>2, <2>5
  <2>7. SlotCount * (qb - qa) >= SlotCount
    BY <2>1, <2>2, <2>6, SlotCountAssumption
  <2> QED
    BY <1>1, <2>1, <2>2, <2>4, <2>7, SlotCountAssumption
<1> QED
  BY <1>1

-----------------------------------------------------------------------------
(* Types and control *)

\* The producer is no consumer.
LEMMA ThreadNames == Producer \in Threads /\ Consumers \subseteq Threads /\ Producer \notin Consumers
BY ThreadsAssumption DEF Threads

\* A new ring has its types.
LEMMA TypeInit == Init => TypeOK
<1> SUFFICES ASSUME Init PROVE TypeOK
  OBVIOUS
<1>1. slots \in [0 .. SlotCount - 1 -> Slot]
  BY SlotCountAssumption, CapAssumption DEF Init, Slot
<1>2. req \in [n : 0 .. Cap, read : 0 .. Cap, idx : Nat] /\ write \in 0 .. Cap
  BY CapAssumption DEF Init, NoReq
<1>3. pc \in [Threads -> {"idle", "extend"} \cup AllocSteps \cup ReleaseSteps]
  BY DEF Init
<1>4. \A t \in Consumers : pc[t] \in {"idle"} \cup ReleaseSteps
  BY ThreadNames DEF Init
<1>5. seenHead \in [Threads -> Nat] /\ owns \in [Threads -> SUBSET Nat]
  BY DEF Init
<1>6. head \in Nat /\ tail \in Nat /\ newLap \in Nat /\ lapped \in BOOLEAN /\ waste \in SUBSET Nat
  BY DEF Init
<1> QED
  BY <1>1, <1>2, <1>3, <1>4, <1>5, <1>6 DEF TypeOK

\* In a new ring nobody is inside a call.
LEMMA ControlInit == Init => Control
BY SlotCountAssumption, CapAssumption, ThreadNames DEF Init, Control, WindowFits, NoReq

\* The slot table keeps its type when one entry is replaced.
LEMMA SlotUpdate ==
    ASSUME slots \in [0 .. SlotCount - 1 -> Slot], NEW i \in Nat, NEW r \in Slot
    PROVE  [slots EXCEPT ![i % SlotCount] = r] \in [0 .. SlotCount - 1 -> Slot]
BY SlotIndexInTable

\* An entry of the table is a slot.
LEMMA SlotType ==
    ASSUME TypeOK, NEW i \in Nat
    PROVE  /\ SlotOf(i) \in Slot
           /\ SlotOf(i).start \in 0 .. Cap /\ SlotOf(i).end \in 0 .. Cap
           /\ SlotOf(i).refs \in Int
BY SlotIndexInTable DEF TypeOK, SlotOf, Slot

\* Setting the count or the end of a slot keeps the table's type.
LEMMA SlotFieldUpdate ==
    ASSUME TypeOK, NEW i \in Nat
    PROVE  /\ \A c \in Int : [slots EXCEPT ![i % SlotCount].refs = c] \in [0 .. SlotCount - 1 -> Slot]
           /\ \A e \in 0 .. Cap : [slots EXCEPT ![i % SlotCount].end = e] \in [0 .. SlotCount - 1 -> Slot]
<1> DEFINE k == i % SlotCount
<1>1. k \in 0 .. SlotCount - 1
  BY SlotIndexInTable
<1> HIDE DEF k
<1>2. slots \in [0 .. SlotCount - 1 -> Slot]
  BY DEF TypeOK
<1>3. \A c \in Int : [slots EXCEPT ![k].refs = c] \in [0 .. SlotCount - 1 -> Slot]
  BY <1>1, <1>2 DEF Slot
<1>4. \A e \in 0 .. Cap : [slots EXCEPT ![k].end = e] \in [0 .. SlotCount - 1 -> Slot]
  BY <1>1, <1>2 DEF Slot
<1> QED
  BY <1>3, <1>4 DEF k

\* Every step keeps the variables in their types.
LEMMA TypeStep ==
    ASSUME TypeOK, Control, [Next]_vars
    PROVE  TypeOK'
<1> USE ThreadNames
    DEF TypeOK, AllocSteps, ReleaseSteps, Goto, Return, ring, ghosts
<1>1. ASSUME NEW n \in Sizes, AllocBegin(n)
      PROVE  TypeOK'
  BY <1>1, CapAssumption, SizesAssumption DEF AllocBegin, NoReq
<1>2. CASE AllocStraight
  <2>1. write + req.n \in 0 .. Cap /\ write \in 0 .. Cap
    BY <1>2, CapAssumption DEF AllocStraight
  <2>2. CASE AllocFits(readCursor)
    <3>1. [start |-> write, end |-> write + req.n, refs |-> 1] \in Slot
      BY <2>1 DEF Slot
    <3>2. slots' \in [0 .. SlotCount - 1 -> Slot]
      BY <1>2, <2>2, <3>1, SlotUpdate DEF AllocStraight, AllocDecide, AllocTake
    <3> QED
      BY <1>2, <2>1, <2>2, <3>2 DEF AllocStraight, AllocDecide, AllocTake
  <2>3. CASE ~ AllocFits(readCursor)
    <3>1. AllocNil /\ UNCHANGED <<head, tail, owns, ghosts>>
      BY <1>2, <2>3 DEF AllocStraight, AllocDecide
    <3> QED
      BY <3>1, CapAssumption DEF AllocNil, NoReq
  <2> QED
    BY <2>2, <2>3
<1>3. CASE AllocNoWasteSlot
  BY <1>3, CapAssumption DEF AllocNoWasteSlot, AllocNil, NoReq
<1>4. CASE AllocFillWaste
  <2>1. [start |-> write, end |-> Cap, refs |-> 0] \in Slot
    BY CapAssumption DEF Slot
  <2>2. slots' \in [0 .. SlotCount - 1 -> Slot]
    BY <1>4, <2>1, SlotUpdate DEF AllocFillWaste
  <2> QED
    BY <1>4, <2>2 DEF AllocFillWaste
<1>5. CASE AllocWrap
  BY <1>5, CapAssumption DEF AllocWrap
<1>6. CASE AllocRehead
  BY <1>6 DEF AllocRehead
<1>7. CASE AllocWrapped
  <2>1. write + req.n \in 0 .. Cap /\ write \in 0 .. Cap
    BY <1>7, CapAssumption DEF AllocWrapped, Control
  <2>2. CASE AllocFits(readCursor)
    <3>1. [start |-> write, end |-> write + req.n, refs |-> 1] \in Slot
      BY <2>1 DEF Slot
    <3>2. slots' \in [0 .. SlotCount - 1 -> Slot]
      BY <1>7, <2>2, <3>1, SlotUpdate DEF AllocWrapped, AllocDecide, AllocTake
    <3> QED
      BY <1>7, <2>1, <2>2, <3>2 DEF AllocWrapped, AllocDecide, AllocTake
  <2>3. CASE ~ AllocFits(readCursor)
    <3>1. AllocNil /\ UNCHANGED <<head, tail, owns, ghosts>>
      BY <1>7, <2>3 DEF AllocWrapped, AllocDecide
    <3> QED
      BY <3>1, CapAssumption DEF AllocNil, NoReq
  <2> QED
    BY <2>2, <2>3
<1>8. CASE AllocPublish
  BY <1>8, CapAssumption DEF AllocPublish, NoReq
<1>9. ASSUME NEW i \in owns[Producer], NEW n \in Sizes, ExtendBegin(i, n)
      PROVE  TypeOK'
  <2>1. i \in Nat
    BY <1>9
  <2>2. SlotOf(i).end + n <= Cap /\ SlotOf(i).end \in 0 .. Cap /\ n \in Nat
    BY <1>9, <2>1, SlotType, SizesAssumption DEF ExtendBegin
  <2>3. n \in 0 .. Cap
    BY <2>2, CapAssumption
  <2>4. readCursor \in 0 .. Cap
    BY SlotType DEF readCursor
  <2>5. req' \in [n : 0 .. Cap, read : 0 .. Cap, idx : Nat]
    BY <1>9, <2>1, <2>3, <2>4 DEF ExtendBegin
  <2> QED
    BY <1>9, <2>5 DEF ExtendBegin
<1>10. CASE ExtendEnd
  <2>1. req' \in [n : 0 .. Cap, read : 0 .. Cap, idx : Nat]
    BY <1>10, CapAssumption DEF ExtendEnd, NoReq
  <2>2. write + req.n \in 0 .. Cap
    BY <1>10, CapAssumption DEF ExtendEnd, Control
  <2>3. CASE ExtendFits
    <3>1. slots' \in [0 .. SlotCount - 1 -> Slot]
      <4>1. slots' = [slots EXCEPT ![req.idx % SlotCount].end = write + req.n]
        BY <1>10, <2>3 DEF ExtendEnd
      <4>2. req.idx \in Nat
        OBVIOUS
      <4> HIDE DEF TypeOK
      <4> QED
        BY <2>2, <4>1, <4>2, SlotFieldUpdate
    <3> QED
      BY <1>10, <2>1, <2>2, <2>3, <3>1 DEF ExtendEnd
  <2>4. CASE ~ ExtendFits
    BY <1>10, <2>1, <2>4 DEF ExtendEnd
  <2> QED
    BY <2>3, <2>4
<1>11. ASSUME NEW t \in Threads, NEW i \in owns[t], Release(t, i)
      PROVE  TypeOK'
  <2>1. i \in Nat
    BY <1>11
  <2>2. slots' = [slots EXCEPT ![i % SlotCount].refs = SlotOf(i).refs - 1]
    BY <1>11 DEF Release, SlotOf
  <2>3. slots' \in [0 .. SlotCount - 1 -> Slot]
    <3> HIDE DEF TypeOK
    <3>1. SlotOf(i).refs - 1 \in Int
      BY <2>1, SlotType
    <3> QED
      BY <2>1, <2>2, <3>1, SlotFieldUpdate
  <2> QED
    BY <1>11, <2>3 DEF Release
<1>12. ASSUME NEW t \in Threads, NEW u \in Threads, NEW i \in owns[t], Retain(t, u, i)
      PROVE  TypeOK'
  <2>1. i \in Nat
    BY <1>12
  <2>2. slots' = [slots EXCEPT ![i % SlotCount].refs = SlotOf(i).refs + 1]
    BY <1>12 DEF Retain, SlotOf
  <2>3. slots' \in [0 .. SlotCount - 1 -> Slot]
    <3> HIDE DEF TypeOK
    <3>1. SlotOf(i).refs + 1 \in Int
      BY <2>1, SlotType
    <3> QED
      BY <2>1, <2>2, <3>1, SlotFieldUpdate
  <2> QED
    BY <1>12, <2>1, <2>3 DEF Retain
<1>13. ASSUME NEW t \in Threads, ReleaseLoadHead(t)
      PROVE  TypeOK'
  BY <1>13 DEF ReleaseLoadHead
<1>14. ASSUME NEW t \in Threads, ReleaseCheckTail(t)
      PROVE  TypeOK'
  <2>1. CASE seenHead[t] >= tail
    <3>1. /\ pc' = [pc EXCEPT ![t] = "idle"] /\ seenHead' = [seenHead EXCEPT ![t] = 0]
          /\ UNCHANGED <<ring, req, owns, ghosts>>
      BY <1>14, <2>1 DEF ReleaseCheckTail
    <3> QED
      BY <3>1
  <2>2. CASE ~ (seenHead[t] >= tail)
    BY <1>14, <2>2 DEF ReleaseCheckTail
  <2> QED
    BY <2>1, <2>2
<1>15. ASSUME NEW t \in Threads, ReleaseCheckRefs(t)
      PROVE  TypeOK'
  <2>1. CASE SlotOf(seenHead[t]).refs # 0
    <3>1. /\ pc' = [pc EXCEPT ![t] = "idle"] /\ seenHead' = [seenHead EXCEPT ![t] = 0]
          /\ UNCHANGED <<ring, req, owns, ghosts>>
      BY <1>15, <2>1 DEF ReleaseCheckRefs
    <3> QED
      BY <3>1
  <2>2. CASE SlotOf(seenHead[t]).refs = 0
    BY <1>15, <2>2 DEF ReleaseCheckRefs
  <2> QED
    BY <2>1, <2>2
<1>16. ASSUME NEW t \in Threads, ReleaseCas(t)
      PROVE  TypeOK'
  BY <1>16 DEF ReleaseCas
<1>17. CASE UNCHANGED vars
  BY <1>17 DEF vars
<1> QED
  BY <1>1, <1>2, <1>3, <1>4, <1>5, <1>6, <1>7, <1>8, <1>9,
     <1>10, <1>11, <1>12, <1>13, <1>14, <1>15, <1>16, <1>17
  DEF Next, Alloc, Extend, ReleaseStep

\* Every step keeps the facts the call in progress relies on.
LEMMA ControlStep ==
    ASSUME TypeOK, Control, [Next]_vars
    PROVE  Control'
<1> USE ThreadNames
    DEF TypeOK, Control, WindowFits, AllocSteps, ReleaseSteps, Goto, Return, ring, ghosts
<1>1. ASSUME NEW n \in Sizes, AllocBegin(n)
      PROVE  Control'
  BY <1>1, CapAssumption, SizesAssumption DEF AllocBegin, NoReq
<1>2. CASE AllocStraight
  <2>1. CASE AllocFits(readCursor)
    BY <1>2, <2>1 DEF AllocStraight, AllocDecide, AllocTake, AllocFits
  <2>2. CASE ~ AllocFits(readCursor)
    <3>1. AllocNil /\ UNCHANGED <<head, tail, owns, ghosts>>
      BY <1>2, <2>2 DEF AllocStraight, AllocDecide
    <3> QED
      BY <3>1 DEF AllocNil, NoReq
  <2> QED
    BY <2>1, <2>2
<1>3. CASE AllocNoWasteSlot
  BY <1>3 DEF AllocNoWasteSlot, AllocNil, NoReq
<1>4. CASE AllocFillWaste
  BY <1>4 DEF AllocFillWaste
<1>5. CASE AllocWrap
  <2>1. WindowFits' /\ (tail - head < SlotCount)'
    BY <1>5, SlotCountAssumption DEF AllocWrap
  <2>2. (\A t \in Threads : seenHead[t] <= head)'
    BY <1>5 DEF AllocWrap
  <2>3. (\A t \in Threads : pc[t] \in {"refs", "cas"} => seenHead[t] < tail)'
    BY <1>5 DEF AllocWrap
  <2>4. pc'[Producer] = "rehead" /\ req' = req /\ req.n > 0 /\ write' = 0
    BY <1>5 DEF AllocWrap
  <2> QED
    BY <2>1, <2>2, <2>3, <2>4
<1>6. CASE AllocRehead
  BY <1>6 DEF AllocRehead
<1>7. CASE AllocWrapped
  <2>1. CASE AllocFits(readCursor)
    BY <1>7, <2>1 DEF AllocWrapped, AllocDecide, AllocTake, AllocFits
  <2>2. CASE ~ AllocFits(readCursor)
    <3>1. AllocNil /\ UNCHANGED <<head, tail, owns, ghosts>>
      BY <1>7, <2>2 DEF AllocWrapped, AllocDecide
    <3> QED
      BY <3>1 DEF AllocNil, NoReq
  <2> QED
    BY <2>1, <2>2
<1>8. CASE AllocPublish
  <2>1. WindowFits'
    BY <1>8, SlotCountAssumption DEF AllocPublish
  <2>2. (\A t \in Threads : seenHead[t] <= head)'
    BY <1>8 DEF AllocPublish
  <2>3. (\A t \in Threads : pc[t] \in {"refs", "cas"} => seenHead[t] < tail)'
    BY <1>8 DEF AllocPublish
  <2>4. pc'[Producer] = "idle"
    BY <1>8 DEF AllocPublish
  <2> QED
    BY <2>1, <2>2, <2>3, <2>4
<1>9. ASSUME NEW i \in owns[Producer], NEW n \in Sizes, ExtendBegin(i, n)
      PROVE  Control'
  BY <1>9, SizesAssumption DEF ExtendBegin
<1>10. CASE ExtendEnd
  BY <1>10 DEF ExtendEnd, NoReq
<1>11. ASSUME NEW t \in Threads, NEW i \in owns[t], Release(t, i)
      PROVE  Control'
  BY <1>11 DEF Release
<1>12. ASSUME NEW t \in Threads, NEW u \in Threads, NEW i \in owns[t], Retain(t, u, i)
      PROVE  Control'
  BY <1>12 DEF Retain
<1>13. ASSUME NEW t \in Threads, ReleaseLoadHead(t)
      PROVE  Control'
  BY <1>13 DEF ReleaseLoadHead
<1>14. ASSUME NEW t \in Threads, ReleaseCheckTail(t)
      PROVE  Control'
  <2>1. CASE seenHead[t] >= tail
    <3>1. /\ pc' = [pc EXCEPT ![t] = "idle"] /\ seenHead' = [seenHead EXCEPT ![t] = 0]
          /\ UNCHANGED <<ring, req, owns, ghosts>>
      BY <1>14, <2>1 DEF ReleaseCheckTail
    <3> QED
      BY <3>1
  <2>2. CASE ~ (seenHead[t] >= tail)
    <3>1. /\ pc' = [pc EXCEPT ![t] = "refs"]
          /\ UNCHANGED <<ring, seenHead, req, owns, ghosts>>
      BY <1>14, <2>2 DEF ReleaseCheckTail
    <3> QED
      BY <2>2, <3>1
  <2> QED
    BY <2>1, <2>2
<1>15. ASSUME NEW t \in Threads, ReleaseCheckRefs(t)
      PROVE  Control'
  <2>1. CASE SlotOf(seenHead[t]).refs # 0
    <3>1. /\ pc' = [pc EXCEPT ![t] = "idle"] /\ seenHead' = [seenHead EXCEPT ![t] = 0]
          /\ UNCHANGED <<ring, req, owns, ghosts>>
      BY <1>15, <2>1 DEF ReleaseCheckRefs
    <3> QED
      BY <3>1
  <2>2. CASE SlotOf(seenHead[t]).refs = 0
    BY <1>15, <2>2 DEF ReleaseCheckRefs
  <2> QED
    BY <2>1, <2>2
<1>16. ASSUME NEW t \in Threads, ReleaseCas(t)
      PROVE  Control'
  <2>1. CASE head = seenHead[t]
    <3>1. head' = head + 1
      BY <1>16, <2>1 DEF ReleaseCas
    <3>2. head + 1 <= tail
      BY <1>16, <2>1 DEF ReleaseCas
    <3> QED
      BY <1>16, <2>1, <3>1, <3>2, SlotCountAssumption DEF ReleaseCas
  <2>2. CASE head # seenHead[t]
    BY <1>16, <2>2 DEF ReleaseCas
  <2> QED
    BY <2>1, <2>2
<1>17. CASE UNCHANGED vars
  BY <1>17 DEF vars
<1> QED
  BY <1>1, <1>2, <1>3, <1>4, <1>5, <1>6, <1>7, <1>8, <1>9,
     <1>10, <1>11, <1>12, <1>13, <1>14, <1>15, <1>16, <1>17
  DEF Next, Alloc, Extend, ReleaseStep

-----------------------------------------------------------------------------
(* Frame facts about the slot table *)

\* Writing one entry changes that slot and no other slot within reach of it.
LEMMA SlotWrite ==
    ASSUME TypeOK, NEW k \in Nat, NEW r,
           slots' = [slots EXCEPT ![k % SlotCount] = r]
    PROVE  /\ SlotOf(k)' = r
           /\ \A i \in Nat :
                 i # k /\ (i < k => k - i < SlotCount) /\ (k < i => i - k < SlotCount)
                    => SlotOf(i)' = SlotOf(i)
BY SlotIndexInTable, SlotsDistinct DEF TypeOK, SlotOf

\* The same for a write to the slot that tail is about to publish.
LEMMA TailSlotWrite ==
    ASSUME TypeOK, Control, tail - head < SlotCount, tail' = tail, NEW r,
           slots' = [slots EXCEPT ![tail % SlotCount] = r]
    PROVE  /\ SlotOf(tail)' = r
           /\ \A i \in Window : SlotOf(i)' = SlotOf(i)
<1>1. tail \in Nat /\ head \in Nat /\ SlotCount \in Nat
  BY SlotCountAssumption DEF TypeOK
<1>2. slots'[tail % SlotCount] = r
  BY <1>1, SlotIndexInTable DEF TypeOK
<1>3. ASSUME NEW i \in Window
      PROVE  SlotOf(i)' = SlotOf(i)
  <2>1. /\ i \in Nat /\ i # tail
        /\ i < tail => tail - i < SlotCount
        /\ tail < i => i - tail < SlotCount
    BY <1>1 DEF Window
  <2>2. i % SlotCount # tail % SlotCount
    BY <1>1, <2>1, SlotsDistinct
  <2> QED
    BY <1>1, <2>1, <2>2, SlotIndexInTable DEF SlotOf, TypeOK
<1> QED
  BY <1>2, <1>3 DEF SlotOf

\* Changing the count of a live slot leaves every other live slot, and the one
\* being filled, as it was.
LEMMA RefsWrite ==
    ASSUME TypeOK, Control, tail' = tail, NEW k \in Window, NEW c,
           slots' = [slots EXCEPT ![k % SlotCount].refs = c]
    PROVE  /\ SlotOf(k)' = [SlotOf(k) EXCEPT !.refs = c]
           /\ SlotOf(k)'.refs = c /\ SlotOf(k)'.start = SlotOf(k).start
           /\ SlotOf(k)'.end = SlotOf(k).end
           /\ \A i \in Window : i # k => SlotOf(i)' = SlotOf(i)
           /\ tail - head < SlotCount => SlotOf(tail)' = SlotOf(tail)
<1>1. tail \in Nat /\ head \in Nat /\ SlotCount \in Nat /\ k \in Nat
  BY SlotCountAssumption DEF TypeOK, Window
<1>2. slots' = [slots EXCEPT ![k % SlotCount] = [SlotOf(k) EXCEPT !.refs = c]]
  BY <1>1, SlotIndexInTable DEF TypeOK, SlotOf
<1>3. tail - head <= SlotCount
  BY DEF Control, WindowFits
<1>4. SlotOf(k)' = [SlotOf(k) EXCEPT !.refs = c]
  BY <1>1, <1>2, SlotWrite
<1>5. SlotOf(k) \in Slot
  BY <1>1, SlotType
<1>6. /\ SlotOf(k)'.refs = c /\ SlotOf(k)'.start = SlotOf(k).start
      /\ SlotOf(k)'.end = SlotOf(k).end
  BY <1>4, <1>5 DEF Slot
<1>7. ASSUME NEW i \in Window, i # k
      PROVE  SlotOf(i)' = SlotOf(i)
  <2>1. /\ i \in Nat
        /\ i < k => k - i < SlotCount
        /\ k < i => i - k < SlotCount
    BY <1>1, <1>3 DEF Window
  <2> QED
    BY <1>1, <1>2, <1>7, <2>1, SlotWrite
<1>8. ASSUME tail - head < SlotCount
      PROVE  SlotOf(tail)' = SlotOf(tail)
  <2>1. k < tail /\ tail - k < SlotCount
    BY <1>1, <1>8 DEF Window
  <2>2. tail % SlotCount # k % SlotCount
    BY <1>1, <2>1, SlotsDistinct
  <2> QED
    BY <1>1, <1>2, <2>2, SlotIndexInTable DEF SlotOf, TypeOK
<1> QED
  BY <1>4, <1>6, <1>7, <1>8

-----------------------------------------------------------------------------
(* Reference counts *)

\* Sets of owners are finite, so counting them behaves as expected.
LEMMA OwnersFinite ==
    ASSUME NEW S \in SUBSET Threads
    PROVE  /\ IsFiniteSet(S)
           /\ Cardinality(S) \in Nat
           /\ Cardinality(S) = 0 <=> S = {}
           /\ \A t \in Threads : t \notin S => Cardinality(S \cup {t}) = Cardinality(S) + 1
           /\ \A t \in S : Cardinality(S \ {t}) = Cardinality(S) - 1
<1>1. IsFiniteSet(Threads)
  BY ThreadsAssumption, FS_AddElement DEF Threads
<1>2. IsFiniteSet(S)
  BY <1>1, FS_Subset
<1> QED
  BY <1>2, FS_CardinalityType, FS_EmptySet, FS_AddElement, FS_RemoveElement

\* A new ring has no references.
LEMMA CountsInit == Init => Counts
BY ThreadNames DEF Init, Counts, HandlesInWindow, RefsCountOwners

\* A step that leaves the slots, the window and the handles alone keeps the
\* counts, whatever it does to the calls in progress.
LEMMA CountsFrame ==
    ASSUME TypeOK, Counts, UNCHANGED <<slots, head, tail, owns>>,
           pc'[Producer] = "waste" => pc[Producer] = "waste",
           pc'[Producer] = "publish" => pc[Producer] = "publish",
           \A t \in Threads :
              pc'[t] = "cas" /\ seenHead'[t] = head => SlotOf(head).refs = 0
    PROVE  Counts'
BY DEF Counts, HandlesInWindow, RefsCountOwners, OwnersOf, SlotOf

\* Filling the slot at tail, before it is published, disturbs no live slot.
LEMMA CountsFill ==
    ASSUME TypeOK, Control, Counts, tail - head < SlotCount,
           UNCHANGED <<head, tail, owns>>, NEW r,
           slots' = [slots EXCEPT ![tail % SlotCount] = r],
           \A t \in Threads :
              pc'[t] = "cas" /\ seenHead'[t] = head => pc[t] = "cas" /\ seenHead[t] = head,
           pc'[Producer] = "waste" => r.refs = 0,
           pc'[Producer] = "publish" => r.refs = 1
    PROVE  Counts'
<1>1. SlotOf(tail)' = r /\ \A i \in Window : SlotOf(i)' = SlotOf(i)
  BY TailSlotWrite
<1>2. Window' = Window /\ \A i \in Window : OwnersOf(i)' = OwnersOf(i)
  BY DEF Window, OwnersOf
<1>3. HandlesInWindow'
  BY DEF Counts, HandlesInWindow
<1>4. RefsCountOwners'
  BY <1>1, <1>2 DEF Counts, RefsCountOwners, Window
<1>5. ASSUME NEW t \in Threads, pc'[t] = "cas", seenHead'[t] = head
      PROVE  SlotOf(head)'.refs = 0
  <2>1. pc[t] = "cas" /\ seenHead[t] = head /\ SlotOf(head).refs = 0
    BY <1>5 DEF Counts
  <2>2. head \in Window
    BY <2>1 DEF Control, Window, TypeOK
  <2> QED
    BY <1>1, <2>1, <2>2
<1> QED
  BY <1>1, <1>3, <1>4, <1>5 DEF Counts

\* Extend changes no reference count.
LEMMA ExtendKeepsRefs ==
    ASSUME TypeOK, ExtendEnd, NEW i \in Nat
    PROVE  slots'[i % SlotCount].refs = SlotOf(i).refs
<1>1. CASE ExtendFits
  <2>1. slots' = [slots EXCEPT ![req.idx % SlotCount].end = write + req.n]
    BY <1>1 DEF ExtendEnd
  <2>2. req.idx % SlotCount \in 0 .. SlotCount - 1 /\ i % SlotCount \in 0 .. SlotCount - 1
    BY SlotIndexInTable DEF TypeOK
  <2> QED
    BY <2>1, <2>2 DEF TypeOK, Slot, SlotOf
<1>2. CASE ~ ExtendFits
  BY <1>2 DEF ExtendEnd, SlotOf
<1> QED
  BY <1>1, <1>2

\* Every step keeps the counts equal to the numbers of owners.
LEMMA CountsStep ==
    ASSUME TypeOK, Control, Counts, [Next]_vars
    PROVE  Counts'
<1> USE ThreadNames DEF Goto, Return, ring, ghosts
<1>1. ASSUME NEW n \in Sizes, AllocBegin(n)
      PROVE  Counts'
  BY <1>1, CountsFrame DEF AllocBegin, Counts, TypeOK
<1>2. ASSUME pc[Producer] \in {"cursor", "recursor"}, AllocDecide(readCursor)
      PROVE  Counts'
  <2>1. CASE AllocFits(readCursor)
    <3>0. tail - seenHead[Producer] < SlotCount
      BY <2>1 DEF AllocFits
    <3>1. tail - head < SlotCount
      BY <3>0, SlotCountAssumption DEF Control, TypeOK
    <3> DEFINE r == [start |-> write, end |-> write + req.n, refs |-> 1]
    <3>2. /\ slots' = [slots EXCEPT ![tail % SlotCount] = r] /\ r.refs = 1
          /\ UNCHANGED <<head, tail, owns, seenHead>>
          /\ pc' = [pc EXCEPT ![Producer] = "publish"]
      BY <1>2, <2>1 DEF AllocDecide, AllocTake
    <3>3. pc'[Producer] = "publish" /\ \A t \in Threads : pc'[t] = "cas" => pc[t] = "cas"
      BY <3>2 DEF TypeOK
    <3> HIDE DEF r
    <3> QED
      BY <3>1, <3>2, <3>3, CountsFill
  <2>2. CASE ~ AllocFits(readCursor)
    <3>1. AllocNil /\ UNCHANGED <<head, tail, owns, ghosts>>
      BY <1>2, <2>2 DEF AllocDecide
    <3> QED
      BY <3>1, CountsFrame DEF AllocNil, Counts, TypeOK
  <2> QED
    BY <2>1, <2>2
<1>3. CASE AllocNoWasteSlot
  BY <1>3, CountsFrame DEF AllocNoWasteSlot, AllocNil, Counts, TypeOK
<1>4. CASE AllocFillWaste
  <2>1. tail - head < SlotCount
    BY <1>4, SlotCountAssumption DEF AllocFillWaste, Control, TypeOK
  <2> DEFINE r == [start |-> write, end |-> Cap, refs |-> 0]
  <2>2. /\ slots' = [slots EXCEPT ![tail % SlotCount] = r] /\ r.refs = 0
        /\ UNCHANGED <<head, tail, owns, seenHead>>
        /\ pc' = [pc EXCEPT ![Producer] = "waste"]
    BY <1>4 DEF AllocFillWaste
  <2>3. pc'[Producer] = "waste" /\ \A t \in Threads : pc'[t] = "cas" => pc[t] = "cas"
    BY <2>2 DEF TypeOK
  <2> HIDE DEF r
  <2> QED
    BY <2>1, <2>2, <2>3, CountsFill
<1>5. CASE AllocWrap
  <2>1. /\ tail' = tail + 1 /\ UNCHANGED <<slots, head, owns, seenHead>>
        /\ pc' = [pc EXCEPT ![Producer] = "rehead"] /\ SlotOf(tail).refs = 0
    BY <1>5 DEF AllocWrap, Counts
  <2>2. HandlesInWindow'
    BY <2>1 DEF Counts, HandlesInWindow, TypeOK
  <2>3. OwnersOf(tail) = {}
    BY DEF Counts, HandlesInWindow, OwnersOf, TypeOK
  <2>4. ASSUME NEW i \in head .. tail
        PROVE  SlotOf(i).refs = Cardinality(OwnersOf(i))
    <3>1. CASE i = tail
      BY <2>1, <2>3, <3>1, FS_EmptySet
    <3>2. CASE i # tail
      BY <2>4, <3>2 DEF Counts, RefsCountOwners, TypeOK
    <3> QED
      BY <3>1, <3>2
  <2>5. (head .. tail - 1)' = head .. tail
    BY <2>1 DEF TypeOK
  <2>6. RefsCountOwners'
    BY <2>1, <2>4, <2>5 DEF RefsCountOwners, OwnersOf, SlotOf
  <2> QED
    BY <2>1, <2>2, <2>6 DEF Counts, TypeOK, SlotOf
<1>6. CASE AllocRehead
  BY <1>6, CountsFrame DEF AllocRehead, Counts, TypeOK
<1>8. CASE AllocPublish
  <2>1. /\ tail' = tail + 1 /\ UNCHANGED <<slots, head>>
        /\ pc' = [pc EXCEPT ![Producer] = "idle"]
        /\ seenHead' = [seenHead EXCEPT ![Producer] = 0]
        /\ owns' = [owns EXCEPT ![Producer] = @ \cup {tail}]
        /\ SlotOf(tail).refs = 1
    BY <1>8 DEF AllocPublish, Counts
  <2>2. HandlesInWindow'
    BY <2>1 DEF Counts, Control, WindowFits, HandlesInWindow, TypeOK
  <2>3. OwnersOf(tail) = {}
    BY DEF Counts, HandlesInWindow, OwnersOf, TypeOK
  <2>4. ASSUME NEW i \in head .. tail
        PROVE  SlotOf(i).refs = Cardinality({t \in Threads : i \in owns'[t]})
    <3>1. CASE i = tail
      <4>1. \A t \in Threads : tail \notin owns[t]
        BY <2>3 DEF OwnersOf
      <4>2. {t \in Threads : i \in owns'[t]} = {Producer}
        BY <2>1, <3>1, <4>1 DEF TypeOK
      <4> QED
        BY <2>1, <3>1, <4>2, FS_Singleton
    <3>2. CASE i # tail
      <4>1. {t \in Threads : i \in owns'[t]} = OwnersOf(i)
        BY <2>1, <3>2 DEF OwnersOf, TypeOK
      <4>2. i \in head .. tail - 1
        BY <2>4, <3>2 DEF TypeOK
      <4> QED
        BY <4>1, <4>2 DEF Counts, RefsCountOwners
    <3> QED
      BY <3>1, <3>2
  <2>5. RefsCountOwners'
    BY <2>1, <2>4 DEF RefsCountOwners, OwnersOf, SlotOf, TypeOK
  <2> QED
    BY <2>1, <2>2, <2>5 DEF Counts, TypeOK, SlotOf
<1>9. ASSUME NEW i \in owns[Producer], NEW n \in Sizes, ExtendBegin(i, n)
      PROVE  Counts'
  BY <1>9, CountsFrame DEF ExtendBegin, Counts, TypeOK
<1>10. CASE ExtendEnd
  <2>1. /\ UNCHANGED <<head, tail, owns, seenHead>>
        /\ pc' = [pc EXCEPT ![Producer] = "idle"]
    BY <1>10 DEF ExtendEnd
  <2>3. \A i \in Nat : slots'[i % SlotCount].refs = SlotOf(i).refs
    BY <1>10, ExtendKeepsRefs
  <2>4. HandlesInWindow'
    BY <2>1 DEF Counts, HandlesInWindow
  <2>5. RefsCountOwners'
    <3>1. ASSUME NEW i \in head .. tail - 1
          PROVE  slots'[i % SlotCount].refs = Cardinality({t \in Threads : i \in owns'[t]})
      <4>1. i \in Nat /\ SlotOf(i).refs = Cardinality(OwnersOf(i))
        BY DEF Counts, RefsCountOwners, TypeOK
      <4> QED
        BY <2>1, <2>3, <4>1 DEF OwnersOf
    <3> QED
      BY <2>1, <3>1 DEF RefsCountOwners, OwnersOf, SlotOf
  <2>6. pc'[Producer] = "idle" /\ \A t \in Threads : pc'[t] = "cas" => pc[t] = "cas"
    BY <2>1 DEF TypeOK
  <2>7. SlotOf(head)'.refs = SlotOf(head).refs
    BY <2>1, <2>3 DEF SlotOf, TypeOK
  <2> QED
    BY <2>1, <2>4, <2>5, <2>6, <2>7 DEF Counts
<1>11. ASSUME NEW t \in Threads, NEW i \in owns[t], Release(t, i)
       PROVE  Counts'
  <2>1. /\ UNCHANGED <<head, tail, seenHead>>
        /\ pc' = [pc EXCEPT ![t] = "load"]
        /\ owns' = [owns EXCEPT ![t] = @ \ {i}]
        /\ slots' = [slots EXCEPT ![i % SlotCount].refs = SlotOf(i).refs - 1]
    BY <1>11 DEF Release, SlotOf
  <2>2. i \in Window /\ i \in head .. tail - 1
    BY <1>11 DEF Counts, HandlesInWindow, Window, TypeOK
  <2>3. /\ SlotOf(i)'.refs = SlotOf(i).refs - 1
        /\ \A j \in Window : j # i => SlotOf(j)' = SlotOf(j)
        /\ tail - head < SlotCount => SlotOf(tail)' = SlotOf(tail)
    BY <2>1, <2>2, RefsWrite
  <2>4. /\ OwnersOf(i)' = OwnersOf(i) \ {t} /\ t \in OwnersOf(i)
        /\ \A j \in Window : j # i => OwnersOf(j)' = OwnersOf(j)
    BY <1>11, <2>1 DEF OwnersOf, TypeOK
  <2>5. /\ Cardinality(OwnersOf(i)') = Cardinality(OwnersOf(i)) - 1
        /\ Cardinality(OwnersOf(i)) # 0 /\ Cardinality(OwnersOf(i)) \in Nat
    BY <2>4, OwnersFinite DEF OwnersOf
  <2>6. SlotOf(i).refs = Cardinality(OwnersOf(i))
    BY <2>2 DEF Counts, RefsCountOwners
  <2>7. RefsCountOwners'
    BY <2>1, <2>3, <2>4, <2>5, <2>6 DEF Counts, RefsCountOwners, Window
  <2>8. HandlesInWindow'
    BY <2>1 DEF Counts, HandlesInWindow, TypeOK
  <2>9. ASSUME NEW u \in Threads, pc'[u] = "cas", seenHead'[u] = head
        PROVE  SlotOf(head)'.refs = 0
    <3>1. pc[u] = "cas" /\ seenHead[u] = head /\ SlotOf(head).refs = 0
      BY <2>1, <2>9 DEF Counts, TypeOK
    <3>2. head \in Window /\ head # i
      BY <2>5, <2>6, <3>1 DEF Control, Window, TypeOK
    <3> QED
      BY <2>1, <2>3, <3>1, <3>2
  <2>10. /\ pc'[Producer] \in {"waste", "publish"} => pc'[Producer] = pc[Producer]
         /\ pc'[Producer] \in {"waste", "publish"} => tail - head < SlotCount
    <3>1. pc'[Producer] \in {"waste", "publish"} => pc'[Producer] = pc[Producer]
      BY <2>1 DEF TypeOK
    <3> QED
      BY <3>1, SlotCountAssumption DEF Control, TypeOK
  <2> QED
    BY <2>1, <2>3, <2>7, <2>8, <2>9, <2>10 DEF Counts
<1>12. ASSUME NEW t \in Threads, NEW u \in Threads, NEW i \in owns[t], Retain(t, u, i)
       PROVE  Counts'
  <2>1. /\ UNCHANGED <<head, tail, seenHead, pc>>
        /\ owns' = [owns EXCEPT ![u] = @ \cup {i}]
        /\ slots' = [slots EXCEPT ![i % SlotCount].refs = SlotOf(i).refs + 1]
        /\ i \notin owns[u]
    BY <1>12 DEF Retain, SlotOf
  <2>2. i \in Window /\ i \in head .. tail - 1
    BY <1>12 DEF Counts, HandlesInWindow, Window, TypeOK
  <2>3. /\ SlotOf(i)'.refs = SlotOf(i).refs + 1
        /\ \A j \in Window : j # i => SlotOf(j)' = SlotOf(j)
        /\ tail - head < SlotCount => SlotOf(tail)' = SlotOf(tail)
    BY <2>1, <2>2, RefsWrite
  <2>4. /\ OwnersOf(i)' = OwnersOf(i) \cup {u} /\ u \notin OwnersOf(i) /\ t \in OwnersOf(i)
        /\ \A j \in Window : j # i => OwnersOf(j)' = OwnersOf(j)
    BY <1>12, <2>1 DEF OwnersOf, TypeOK
  <2>5. /\ Cardinality(OwnersOf(i)') = Cardinality(OwnersOf(i)) + 1
        /\ Cardinality(OwnersOf(i)) # 0 /\ Cardinality(OwnersOf(i)) \in Nat
    BY <2>4, OwnersFinite DEF OwnersOf
  <2>6. SlotOf(i).refs = Cardinality(OwnersOf(i))
    BY <2>2 DEF Counts, RefsCountOwners
  <2>7. RefsCountOwners'
    BY <2>1, <2>3, <2>4, <2>5, <2>6 DEF Counts, RefsCountOwners, Window
  <2>8. HandlesInWindow'
    <3>1. ASSUME NEW v \in Threads, NEW j \in owns'[v]
          PROVE  j = i \/ j \in owns[v]
      BY <2>1, <3>1 DEF TypeOK
    <3> QED
      BY <1>12, <2>1, <3>1 DEF Counts, HandlesInWindow
  <2>9. ASSUME NEW v \in Threads, pc'[v] = "cas", seenHead'[v] = head
        PROVE  SlotOf(head)'.refs = 0
    <3>1. pc[v] = "cas" /\ seenHead[v] = head /\ SlotOf(head).refs = 0
      BY <2>1, <2>9 DEF Counts, TypeOK
    <3>2. head \in Window /\ head # i
      BY <2>5, <2>6, <3>1 DEF Control, Window, TypeOK
    <3> QED
      BY <2>1, <2>3, <3>1, <3>2
  <2>10. pc[Producer] \in {"waste", "publish"} => tail - head < SlotCount
    BY SlotCountAssumption DEF Control, TypeOK
  <2> QED
    BY <2>1, <2>3, <2>7, <2>8, <2>9, <2>10 DEF Counts
<1>13. ASSUME NEW t \in Threads, ReleaseLoadHead(t)
       PROVE  Counts'
  BY <1>13, CountsFrame DEF ReleaseLoadHead, Counts, TypeOK
<1>14. ASSUME NEW t \in Threads, ReleaseCheckTail(t)
       PROVE  Counts'
  BY <1>14, CountsFrame DEF ReleaseCheckTail, Counts, TypeOK
<1>15. ASSUME NEW t \in Threads, ReleaseCheckRefs(t)
       PROVE  Counts'
  BY <1>15, CountsFrame DEF ReleaseCheckRefs, Counts, TypeOK
<1>16. ASSUME NEW t \in Threads, ReleaseCas(t)
       PROVE  Counts'
  <2>1. CASE head = seenHead[t]
    <3>1. /\ head' = head + 1 /\ UNCHANGED <<slots, tail, owns>>
          /\ pc' = [pc EXCEPT ![t] = "load"]
          /\ seenHead' = [seenHead EXCEPT ![t] = 0]
          /\ head < tail /\ SlotOf(head).refs = 0
      BY <1>16, <2>1 DEF ReleaseCas, Counts, Control
    <3>2. OwnersOf(head) = {}
      <4>1. head \in head .. tail - 1
        BY <3>1 DEF TypeOK
      <4>2. Cardinality(OwnersOf(head)) = 0
        BY <3>1, <4>1 DEF Counts, RefsCountOwners
      <4> QED
        BY <4>2, OwnersFinite DEF OwnersOf
    <3>3. HandlesInWindow'
      BY <3>1, <3>2 DEF Counts, HandlesInWindow, OwnersOf, TypeOK
    <3>4. RefsCountOwners'
      <4>1. (head .. tail - 1)' \subseteq head .. tail - 1
        BY <3>1 DEF TypeOK
      <4> QED
        BY <3>1, <4>1 DEF Counts, RefsCountOwners, OwnersOf, SlotOf
    <3>5. \A u \in Threads : seenHead'[u] # head + 1
      BY <3>1 DEF Control, TypeOK
    <3>6. /\ pc'[Producer] \in {"waste", "publish"} => pc'[Producer] = pc[Producer]
      BY <3>1 DEF TypeOK
    <3> QED
      BY <3>1, <3>3, <3>4, <3>5, <3>6 DEF Counts, SlotOf
  <2>2. CASE head # seenHead[t]
    BY <1>16, <2>2, CountsFrame DEF ReleaseCas, Counts, TypeOK
  <2> QED
    BY <2>1, <2>2
<1>17. CASE UNCHANGED vars
  BY <1>17, CountsFrame DEF vars, Counts, TypeOK
<1>18. AllocStraight \/ AllocWrapped => Counts'
  BY <1>2 DEF AllocStraight, AllocWrapped
<1> QED
  BY <1>1, <1>3, <1>4, <1>5, <1>6, <1>8, <1>9, <1>10, <1>11, <1>12, <1>13,
     <1>14, <1>15, <1>16, <1>17, <1>18
  DEF Next, Alloc, Extend, ReleaseStep

-----------------------------------------------------------------------------
(* Geometry of the slab *)

\* A new ring has no regions.
LEMMA GeometryInit == Init => Geometry
BY ThreadNames, CapAssumption DEF Init, Geometry, Allotted

\* What the invariant says of the slots that still have an owner.
LEMMA OwnedInWindow ==
    ASSUME TypeOK, Counts, NEW t \in Threads, NEW i \in owns[t]
    PROVE  i \in Nat /\ head <= i /\ i < tail /\ i \in Window /\ i \in Allotted
BY DEF Counts, HandlesInWindow, Window, Allotted, TypeOK

\* Steps that move no byte, allot none and add no handle keep the geometry.
LEMMA GeometryFrame ==
    ASSUME TypeOK, Control, Counts, Geometry,
           UNCHANGED <<tail, write, newLap, lapped>>,
           Allotted' \subseteq Allotted,
           \A i \in Allotted : SlotOf(i)'.start = SlotOf(i).start /\ SlotOf(i)'.end = SlotOf(i).end,
           \A t \in Threads : \A i \in owns'[t] : \E u \in Threads : i \in owns[u],
           pc'[Producer] = "waste" => pc[Producer] = "waste" /\ SlotOf(tail)' = SlotOf(tail),
           pc'[Producer] = "publish" => pc[Producer] = "publish",
           pc'[Producer] = "extend" =>
              pc[Producer] = "extend" /\ req' = req /\ (head' < newLap => head < newLap)
    PROVE  Geometry'
<1>1. newLap' <= tail'
  BY DEF Geometry
<1>2. /\ (\A i \in Allotted : SlotOf(i).start <= SlotOf(i).end)'
      /\ (\A i \in Allotted : newLap <= i => SlotOf(i).start < SlotOf(i).end)'
  BY DEF Geometry
<1>3. (\A t \in Threads : \A i \in owns[t] : SlotOf(i).start < SlotOf(i).end)'
  BY OwnedInWindow DEF Geometry
<1>4. (pc[Producer] = "waste" => SlotOf(tail).start = write /\ SlotOf(tail).end = Cap)'
  BY DEF Geometry
<1>5. (pc[Producer] = "publish" => SlotOf(tail).end = write)'
  <2>1. pc[Producer] = "publish" => tail \in Allotted
    BY DEF Allotted, Control, WindowFits, TypeOK
  <2>2. tail \in Allotted => SlotOf(tail)'.end = SlotOf(tail).end
    BY DEF SlotOf
  <2> QED
    BY <2>1, <2>2 DEF Geometry
<1>6. (pc[Producer] = "extend" => SlotOf(req.idx).end = write)'
  <2>1. pc[Producer] = "extend" => req.idx \in Allotted
    BY OwnedInWindow, ThreadNames DEF Control
  <2>2. req' = req /\ req.idx \in Allotted => SlotOf(req.idx)'.end = SlotOf(req.idx).end
    BY DEF SlotOf
  <2> QED
    BY <2>1, <2>2 DEF Geometry
<1>7. (~ lapped =>
        /\ \A i, j \in Allotted :
              i < j /\ (newLap <= i \/ j < newLap) => SlotOf(i).end <= SlotOf(j).start
        /\ \A i \in Allotted : newLap <= i => SlotOf(i).end <= write
        /\ \A i \in Allotted : i < newLap => write <= SlotOf(i).start)'
  BY DEF Geometry
<1>8. (~ lapped => (pc[Producer] = "extend" /\ head < newLap =>
              /\ write <= req.read
              /\ \A i \in Allotted : i < newLap => req.read <= SlotOf(i).start))'
  BY DEF Geometry
<1> QED
  BY <1>1, <1>2, <1>3, <1>4, <1>5, <1>6, <1>7, <1>8 DEF Geometry

\* The oldest slot of the lap before starts no later than the others of it.
LEMMA OldLapAscends ==
    ASSUME TypeOK, Control, Counts, Geometry, ~ lapped, NEW i \in Allotted, i < newLap
    PROVE  /\ head < tail /\ head < newLap
           /\ readCursor = SlotOf(head).start
           /\ write <= readCursor /\ readCursor <= SlotOf(i).start
<1>1. i \in Nat /\ head <= i /\ newLap <= tail
  BY DEF Allotted, Geometry, TypeOK
<1>2. head < tail /\ head < newLap /\ head \in Allotted
  BY <1>1 DEF Allotted, TypeOK
<1>3. readCursor = SlotOf(head).start
  BY <1>2 DEF readCursor, TypeOK
<1>4. write <= SlotOf(head).start /\ SlotOf(head).start <= SlotOf(head).end
  BY <1>2 DEF Geometry
<1>5. SlotOf(head).start <= SlotOf(i).start
  <2>1. CASE i = head
    BY <2>1, SlotType, <1>1
  <2>2. CASE i # head
    <3>1. head < i
      BY <1>1, <2>2 DEF TypeOK
    <3>2. SlotOf(head).end <= SlotOf(i).start
      BY <1>2, <3>1 DEF Geometry
    <3>3. /\ SlotOf(head).start \in Int /\ SlotOf(head).end \in Int
          /\ SlotOf(i).start \in Int
      BY SlotType, <1>1 DEF TypeOK
    <3> QED
      BY <1>4, <3>2, <3>3
  <2> QED
    BY <2>1, <2>2
<1> QED
  BY <1>2, <1>3, <1>4, <1>5

\* Taking the bytes at write: above the current lap, below what is left of the
\* lap before.
LEMMA GeometryTake ==
    ASSUME TypeOK, Control, Counts, Geometry,
           pc[Producer] \in {"cursor", "recursor"}, write + req.n <= Cap,
           AllocFits(readCursor), AllocTake,
           UNCHANGED <<head, tail, owns, ghosts>>
    PROVE  Geometry'
<1> DEFINE r == [start |-> write, end |-> write + req.n, refs |-> 1]
<1>1. /\ write \in Nat /\ req.n \in Nat /\ req.n > 0 /\ head \in Nat /\ tail \in Nat
      /\ write + req.n \in 0 .. Cap /\ newLap \in Nat /\ newLap <= tail
  BY CapAssumption DEF TypeOK, Control, Geometry
<1>2. tail - head < SlotCount
  <2>1. tail - seenHead[Producer] < SlotCount
    BY DEF AllocFits
  <2> QED
    BY <2>1, SlotCountAssumption, ThreadNames DEF Control, TypeOK
<1>3. /\ slots' = [slots EXCEPT ![tail % SlotCount] = r]
      /\ write' = write + req.n /\ pc' = [pc EXCEPT ![Producer] = "publish"]
      /\ UNCHANGED <<head, tail, owns, newLap, lapped>>
  BY DEF AllocTake, Goto, ghosts
<1>4. pc'[Producer] = "publish"
  BY <1>3, ThreadNames DEF TypeOK
<1>5. /\ SlotOf(tail)' = r /\ r.start = write /\ r.end = write + req.n
      /\ \A i \in Window : SlotOf(i)' = SlotOf(i)
  <2> r.start = write /\ r.end = write + req.n
    OBVIOUS
  <2> HIDE DEF r
  <2> QED
    BY <1>2, <1>3, TailSlotWrite
<1> HIDE DEF r
<1>6. /\ Allotted = Window /\ Allotted' = Window \cup {tail} /\ tail \notin Window
      /\ \A i \in Window : i \in Nat /\ i < tail
      /\ SlotOf(tail)'.start = write /\ SlotOf(tail)'.end = write + req.n
  <2>1. Allotted' = head .. tail
    BY <1>3, <1>4 DEF Allotted
  <2>2. Allotted = head .. tail - 1
    BY DEF Allotted
  <2>3. head <= tail
    BY DEF Control, WindowFits
  <2>4. SlotOf(tail)'.start = write /\ SlotOf(tail)'.end = write + req.n
    BY <1>5
  <2> QED
    BY <1>1, <2>1, <2>2, <2>3, <2>4 DEF Window
<1>7. \A i \in Window : SlotOf(i).start \in 0 .. Cap /\ SlotOf(i).end \in 0 .. Cap
  BY <1>6, SlotType
<1>8. /\ (\A i \in Allotted : SlotOf(i).start <= SlotOf(i).end)'
      /\ (\A i \in Allotted : newLap <= i => SlotOf(i).start < SlotOf(i).end)'
  <2>1. /\ \A i \in Window : SlotOf(i).start <= SlotOf(i).end
        /\ \A i \in Window : newLap <= i => SlotOf(i).start < SlotOf(i).end
    BY <1>6 DEF Geometry
  <2>2. ASSUME NEW i \in Window \cup {tail}
        PROVE  /\ slots'[i % SlotCount].start <= slots'[i % SlotCount].end
               /\ newLap <= i => slots'[i % SlotCount].start < slots'[i % SlotCount].end
    <3>1. CASE i = tail
      <4>1. slots'[i % SlotCount].start = write /\ slots'[i % SlotCount].end = write + req.n
        BY <1>3, <1>6, <3>1 DEF SlotOf
      <4> QED
        BY <1>1, <4>1
    <3>2. CASE i \in Window
      BY <1>5, <2>1, <3>2 DEF SlotOf
    <3> QED
      BY <3>1, <3>2
  <2> QED
    BY <1>3, <1>6, <2>2 DEF SlotOf
<1>9. (\A t \in Threads : \A i \in owns[t] : SlotOf(i).start < SlotOf(i).end)'
  BY <1>3, <1>5, OwnedInWindow DEF Geometry
<1>10. SlotOf(tail)'.end = write'
  BY <1>3, <1>6
<1>11. ASSUME ~ lapped, NEW i \in Window, i < newLap
       PROVE  write + req.n <= SlotOf(i).start
  <2>1. /\ head < tail /\ write <= readCursor /\ readCursor <= SlotOf(i).start
    BY <1>6, <1>11, OldLapAscends
  <2>2. seenHead[Producer] < tail
    BY <2>1, ThreadNames DEF Control, TypeOK
  <2>3. write # readCursor /\ readCursor \in Int
    BY <2>1, <2>2, SlotType DEF AllocFits, readCursor, TypeOK
  <2>4. write + req.n <= readCursor
    BY <1>1, <2>1, <2>3 DEF AllocFits, regionFree
  <2> QED
    BY <1>1, <1>7, <2>1, <2>3, <2>4
<1>12. ASSUME ~ lapped
       PROVE  /\ \A i, j \in Window \cup {tail} :
                   i < j /\ (newLap <= i \/ j < newLap)
                      => slots'[i % SlotCount].end <= slots'[j % SlotCount].start
              /\ \A i \in Window \cup {tail} : newLap <= i => slots'[i % SlotCount].end <= write + req.n
              /\ \A i \in Window \cup {tail} : i < newLap => write + req.n <= slots'[i % SlotCount].start
  <2>1. /\ slots'[tail % SlotCount].start = write /\ slots'[tail % SlotCount].end = write + req.n
        /\ \A i \in Window : slots'[i % SlotCount] = SlotOf(i)
    BY <1>3, <1>5, <1>6 DEF SlotOf
  <2>2. \A i \in Window : newLap <= i => SlotOf(i).end <= write
    BY <1>6, <1>12 DEF Geometry
  <2>3. \A i, j \in Window :
           i < j /\ (newLap <= i \/ j < newLap) => SlotOf(i).end <= SlotOf(j).start
    BY <1>6, <1>12 DEF Geometry
  <2>4. \A i, j \in Window \cup {tail} :
           i < j /\ (newLap <= i \/ j < newLap)
              => slots'[i % SlotCount].end <= slots'[j % SlotCount].start
    <3> SUFFICES ASSUME NEW i \in Window \cup {tail}, NEW j \in Window \cup {tail},
                        i < j, newLap <= i \/ j < newLap
                 PROVE  slots'[i % SlotCount].end <= slots'[j % SlotCount].start
      OBVIOUS
    <3>1. i \in Window
      BY <1>1, <1>6
    <3>2. CASE j = tail
      <4>1. newLap <= i
        BY <1>1, <1>6, <3>1, <3>2
      <4>2. slots'[i % SlotCount].end <= write /\ slots'[j % SlotCount].start = write
        BY <2>1, <2>2, <3>1, <3>2, <4>1
      <4> QED
        BY <4>2
    <3>3. CASE j \in Window
      BY <2>1, <2>3, <3>1, <3>3
    <3> QED
      BY <3>2, <3>3
  <2>5. \A i \in Window \cup {tail} : newLap <= i => slots'[i % SlotCount].end <= write + req.n
    BY <1>1, <1>7, <2>1, <2>2
  <2>6. \A i \in Window \cup {tail} : i < newLap => write + req.n <= slots'[i % SlotCount].start
    BY <1>1, <1>11, <1>12, <2>1
  <2> QED
    BY <2>4, <2>5, <2>6
<1> QED
  BY <1>1, <1>3, <1>4, <1>6, <1>8, <1>9, <1>10, <1>12 DEF Geometry, SlotOf

\* Extending the newest slot keeps it below the lap before.
LEMMA GeometryExtend ==
    ASSUME TypeOK, Control, Counts, Geometry, ExtendEnd, ExtendFits
    PROVE  Geometry'
<1> DEFINE x == req.idx
<1>1. /\ pc[Producer] = "extend" /\ req.n > 0 /\ write + req.n <= Cap
      /\ x \in owns[Producer] /\ x \in Nat /\ x \in Window
      /\ SlotOf(x).end = write /\ SlotOf(x).start < SlotOf(x).end
      /\ Allotted = Window
  BY OwnedInWindow, ThreadNames DEF ExtendEnd, Control, Geometry, Allotted, Window
<1>2. /\ slots' = [slots EXCEPT ![x % SlotCount].end = write + req.n]
      /\ write' = write + req.n /\ pc' = [pc EXCEPT ![Producer] = "idle"]
      /\ UNCHANGED <<head, tail, owns, newLap, lapped>>
  BY DEF ExtendEnd, Goto, ghosts
<1>3. pc'[Producer] = "idle" /\ Allotted' = Window
  <2>1. pc'[Producer] = "idle"
    BY <1>2, ThreadNames DEF TypeOK
  <2> QED
    BY <1>2, <2>1 DEF Allotted, Window
<1>4. write \in Nat /\ req.n \in Nat /\ head \in Nat /\ tail \in Nat /\ newLap \in Nat
  BY DEF TypeOK
<1> HIDE DEF x
<1>5. \A i \in Window :
         /\ i \in Nat /\ head <= i /\ i < tail
         /\ SlotOf(i).start \in Nat /\ SlotOf(i).end \in Nat
  BY <1>4, SlotType, CapAssumption DEF Window
<1>6. \A i \in Window : i # x => slots'[i % SlotCount] = SlotOf(i)
  <2>1. ASSUME NEW i \in Window, i # x
        PROVE  slots'[i % SlotCount] = SlotOf(i)
    <3>1. tail - head <= SlotCount
      BY DEF Control, WindowFits
    <3>2. /\ i \in Nat
          /\ i < x => x - i < SlotCount
          /\ x < i => i - x < SlotCount
      BY <1>1, <1>4, <1>5, <3>1, SlotCountAssumption
    <3>3. i % SlotCount # x % SlotCount
      BY <1>1, <2>1, <3>2, SlotsDistinct
    <3> QED
      BY <1>1, <1>2, <3>2, <3>3, SlotIndexInTable DEF TypeOK, SlotOf
  <2> QED
    BY <2>1
<1>7. slots'[x % SlotCount].start = SlotOf(x).start /\ slots'[x % SlotCount].end = write + req.n
  BY <1>1, <1>2, SlotIndexInTable DEF TypeOK, Slot, SlotOf
<1>8. \A i \in Window : slots'[i % SlotCount].start = SlotOf(i).start
                        /\ SlotOf(i).end <= slots'[i % SlotCount].end
  BY <1>1, <1>4, <1>5, <1>6, <1>7
<1>9. /\ \A i \in Window : slots'[i % SlotCount].start <= slots'[i % SlotCount].end
      /\ \A i \in Window : newLap <= i => slots'[i % SlotCount].start < slots'[i % SlotCount].end
  <2>1. /\ \A i \in Window : SlotOf(i).start <= SlotOf(i).end
        /\ \A i \in Window : newLap <= i => SlotOf(i).start < SlotOf(i).end
    BY <1>1 DEF Geometry
  <2>2. \A i \in Window : slots'[i % SlotCount].end \in Nat
    BY <1>4, <1>5, <1>6, <1>7
  <2> QED
    BY <1>5, <1>8, <2>1, <2>2
<1>10. \A t \in Threads : \A i \in owns[t] : slots'[i % SlotCount].start < slots'[i % SlotCount].end
  <2>1. ASSUME NEW t \in Threads, NEW i \in owns[t]
        PROVE  slots'[i % SlotCount].start < slots'[i % SlotCount].end
    <3>1. i \in Window /\ SlotOf(i).start < SlotOf(i).end
      BY OwnedInWindow DEF Geometry
    <3>2. slots'[i % SlotCount].end \in Nat
      BY <1>4, <1>5, <1>6, <1>7, <3>1
    <3> QED
      BY <1>5, <1>8, <3>1, <3>2
  <2> QED
    BY <2>1
<1>11. ASSUME ~ lapped
       PROVE  /\ \A i, j \in Window :
                   i < j /\ (newLap <= i \/ j < newLap)
                      => slots'[i % SlotCount].end <= slots'[j % SlotCount].start
              /\ \A i \in Window : newLap <= i => slots'[i % SlotCount].end <= write + req.n
              /\ \A i \in Window : i < newLap => write + req.n <= slots'[i % SlotCount].start
  <2>1. /\ \A i, j \in Window :
              i < j /\ (newLap <= i \/ j < newLap) => SlotOf(i).end <= SlotOf(j).start
        /\ \A i \in Window : newLap <= i => SlotOf(i).end <= write /\ SlotOf(i).start < SlotOf(i).end
        /\ \A i \in Window : i < newLap => write <= SlotOf(i).start
        /\ head < newLap =>
              /\ write <= req.read
              /\ \A i \in Window : i < newLap => req.read <= SlotOf(i).start
    BY <1>1, <1>11 DEF Geometry
  <2>2. newLap <= x
    BY <1>1, <1>4, <1>5, <2>1
  <2>3. \A j \in Window : ~ (x < j)
    <3> SUFFICES ASSUME NEW j \in Window, x < j
                 PROVE  FALSE
      OBVIOUS
    <3>1. newLap <= j
      BY <1>1, <1>4, <1>5, <2>2
    <3>2. write <= SlotOf(j).start /\ SlotOf(j).start < SlotOf(j).end /\ SlotOf(j).end <= write
      BY <1>1, <2>1, <2>2, <3>1
    <3> QED
      BY <1>4, <1>5, <3>2
  <2>4. ASSUME NEW i \in Window, i < newLap
        PROVE  write + req.n <= SlotOf(i).start
    <3>1. head < newLap /\ head < tail
      BY <1>4, <1>5, <2>4
    <3>2. write <= req.read /\ req.read <= SlotOf(i).start /\ req.read \in Int
      BY <2>1, <2>4, <3>1 DEF TypeOK
    <3>3. write # req.read /\ regionFree(write, write + req.n, req.read)
      BY <3>1 DEF ExtendFits
    <3>4. write + req.n <= req.read
      BY <1>4, <3>2, <3>3 DEF regionFree
    <3> QED
      BY <1>4, <1>5, <3>2, <3>4
  <2>5. \A i, j \in Window :
           i < j /\ (newLap <= i \/ j < newLap)
              => slots'[i % SlotCount].end <= slots'[j % SlotCount].start
    <3> SUFFICES ASSUME NEW i \in Window, NEW j \in Window, i < j, newLap <= i \/ j < newLap
                 PROVE  slots'[i % SlotCount].end <= slots'[j % SlotCount].start
      OBVIOUS
    <3>1. i # x
      BY <2>3
    <3>2. SlotOf(i).end <= SlotOf(j).start
      BY <2>1
    <3> QED
      BY <1>6, <1>8, <3>1, <3>2
  <2>6. \A i \in Window : newLap <= i => slots'[i % SlotCount].end <= write + req.n
    BY <1>4, <1>5, <1>6, <1>7, <2>1
  <2>7. \A i \in Window : i < newLap => write + req.n <= slots'[i % SlotCount].start
    BY <1>8, <2>4
  <2> QED
    BY <2>5, <2>6, <2>7
<1>12. newLap' <= tail'
  BY <1>2 DEF Geometry
<1> QED
  BY <1>2, <1>3, <1>9, <1>10, <1>11, <1>12 DEF Geometry, SlotOf

\* Publishing the waste slot starts a new lap.
LEMMA GeometryWrap ==
    ASSUME TypeOK, Control, Counts, Geometry, AllocWrap
    PROVE  Geometry'
<1>1. /\ pc[Producer] = "waste" /\ tail' = tail + 1 /\ write' = 0 /\ newLap' = tail + 1
      /\ lapped' = (lapped \/ head < newLap)
      /\ pc' = [pc EXCEPT ![Producer] = "rehead"]
      /\ UNCHANGED <<slots, head, owns>>
  BY DEF AllocWrap, Goto
<1>2. /\ write \in 0 .. Cap /\ head \in Nat /\ tail \in Nat /\ newLap \in Nat /\ newLap <= tail
  BY DEF TypeOK, Geometry
<1>3. pc'[Producer] = "rehead" /\ Allotted = Window /\ Allotted' = Window \cup {tail}
  <2>1. pc'[Producer] = "rehead"
    BY <1>1, ThreadNames DEF TypeOK
  <2>2. Allotted' = head .. tail
    BY <1>1, <1>2, <2>1 DEF Allotted
  <2>3. head <= tail
    BY DEF Control, WindowFits
  <2> QED
    BY <1>1, <1>2, <2>1, <2>2, <2>3 DEF Allotted, Window
<1>4. /\ SlotOf(tail).start = write /\ SlotOf(tail).end = Cap
      /\ \A i \in Window : i \in Nat /\ i < tail /\ SlotOf(i).start \in Nat
  BY <1>1, <1>2, SlotType, CapAssumption DEF Geometry, Window
<1>5. \A i \in Window \cup {tail} : SlotOf(i).start <= SlotOf(i).end /\ ~ (tail + 1 <= i)
  BY <1>2, <1>3, <1>4, CapAssumption DEF Geometry
<1>6. ASSUME ~ lapped'
      PROVE  /\ \A i, j \in Window \cup {tail} :
                  i < j /\ (tail + 1 <= i \/ j < tail + 1) => SlotOf(i).end <= SlotOf(j).start
             /\ \A i \in Window \cup {tail} : i < tail + 1 => 0 <= SlotOf(i).start
  <2>0. ~ lapped /\ ~ (head < newLap)
    BY <1>1, <1>6, Zenon
  <2>1. ~ lapped /\ newLap <= head
    BY <1>2, <2>0
  <2>2. \A i \in Window : newLap <= i /\ SlotOf(i).end <= write
    BY <1>2, <1>3, <2>1 DEF Geometry, Window
  <2>3. \A i, j \in Window : i < j => SlotOf(i).end <= SlotOf(j).start
    BY <1>3, <2>1, <2>2 DEF Geometry
  <2>4. ASSUME NEW i \in Window \cup {tail}, NEW j \in Window \cup {tail}, i < j
        PROVE  SlotOf(i).end <= SlotOf(j).start
    <3>1. i \in Window
      BY <1>2, <1>4, <2>4
    <3>2. CASE j = tail
      BY <1>4, <2>2, <3>1, <3>2
    <3>3. CASE j \in Window
      BY <2>3, <2>4, <3>1, <3>3
    <3> QED
      BY <3>2, <3>3
  <2> QED
    BY <1>2, <1>4, <2>4
<1>7. \A t \in Threads : \A i \in owns[t] : SlotOf(i).start < SlotOf(i).end
  BY DEF Geometry
<1> QED
  BY <1>1, <1>2, <1>3, <1>5, <1>6, <1>7 DEF Geometry, SlotOf

\* A change of a reference count, with the handles that go with it, moves no byte.
LEMMA GeometryRefs ==
    ASSUME TypeOK, Control, Counts, Geometry,
           UNCHANGED <<head, tail, write, req, newLap, lapped>>,
           NEW t \in Threads, NEW i \in owns[t], NEW c,
           slots' = [slots EXCEPT ![i % SlotCount].refs = c],
           \A u \in Threads : \A j \in owns'[u] : \E v \in Threads : j \in owns[v],
           pc'[Producer] \in {"waste", "publish", "extend"} => pc'[Producer] = pc[Producer]
    PROVE  Geometry'
<1>1. i \in Window /\ Window \subseteq Allotted
  BY OwnedInWindow DEF Allotted, Window, TypeOK
<1>2. /\ SlotOf(i)'.start = SlotOf(i).start /\ SlotOf(i)'.end = SlotOf(i).end
      /\ \A j \in Window : j # i => SlotOf(j)' = SlotOf(j)
      /\ tail - head < SlotCount => SlotOf(tail)' = SlotOf(tail)
  BY <1>1, RefsWrite
<1>3. pc[Producer] \in {"waste", "publish"} => tail - head < SlotCount
  BY SlotCountAssumption, ThreadNames DEF Control, TypeOK
<1>4. /\ Allotted \subseteq Window \cup {tail}
      /\ tail \in Allotted => pc[Producer] = "publish"
      /\ Allotted' \subseteq Allotted
  BY ThreadNames DEF Allotted, Window, TypeOK
<1>5. \A j \in Allotted : SlotOf(j)'.start = SlotOf(j).start /\ SlotOf(j)'.end = SlotOf(j).end
  <2>1. ASSUME NEW j \in Allotted
        PROVE  slots'[j % SlotCount].start = SlotOf(j).start /\ slots'[j % SlotCount].end = SlotOf(j).end
    <3>1. CASE j = i
      BY <1>2, <3>1 DEF SlotOf
    <3>2. CASE j \in Window /\ j # i
      BY <1>2, <3>2 DEF SlotOf
    <3>3. CASE j = tail
      BY <1>2, <1>3, <1>4, <3>3 DEF SlotOf
    <3> QED
      BY <1>4, <3>1, <3>2, <3>3
  <2> QED
    BY <2>1 DEF SlotOf
<1> QED
  BY <1>2, <1>3, <1>4, <1>5, GeometryFrame

\* Every step keeps the geometry.
LEMMA GeometryStep ==
    ASSUME TypeOK, Control, Counts, Geometry, [Next]_vars
    PROVE  Geometry'
<1> USE ThreadNames DEF Goto, Return, ring, ghosts
<1>1. ASSUME NEW n \in Sizes, AllocBegin(n)
      PROVE  Geometry'
  BY <1>1, GeometryFrame DEF AllocBegin, Allotted, SlotOf, TypeOK
<1>2. ASSUME pc[Producer] \in {"cursor", "recursor"}, write + req.n <= Cap,
             AllocDecide(readCursor)
      PROVE  Geometry'
  <2>1. CASE AllocFits(readCursor)
    BY <1>2, <2>1, GeometryTake DEF AllocDecide
  <2>2. CASE ~ AllocFits(readCursor)
    <3>1. AllocNil /\ UNCHANGED <<head, tail, owns, newLap, lapped>>
      BY <1>2, <2>2 DEF AllocDecide
    <3> QED
      BY <3>1, GeometryFrame DEF AllocNil, Allotted, SlotOf, TypeOK
  <2> QED
    BY <2>1, <2>2
<1>3. CASE AllocNoWasteSlot
  BY <1>3, GeometryFrame DEF AllocNoWasteSlot, AllocNil, Allotted, SlotOf, TypeOK
<1>4. CASE AllocFillWaste
  <2>1. tail - head < SlotCount
    BY <1>4, SlotCountAssumption DEF AllocFillWaste, Control, TypeOK
  <2> DEFINE r == [start |-> write, end |-> Cap, refs |-> 0]
  <2>2. /\ slots' = [slots EXCEPT ![tail % SlotCount] = r] /\ r.start = write /\ r.end = Cap
        /\ UNCHANGED <<head, tail, owns, write, newLap, lapped>>
        /\ pc' = [pc EXCEPT ![Producer] = "waste"] /\ pc[Producer] = "cursor"
    BY <1>4 DEF AllocFillWaste
  <2>3. pc'[Producer] = "waste" /\ Allotted' = Window /\ Allotted = Window
    BY <2>2 DEF TypeOK, Allotted, Window
  <2> HIDE DEF r
  <2>4. SlotOf(tail)' = r /\ \A i \in Window : SlotOf(i)' = SlotOf(i)
    BY <2>1, <2>2, TailSlotWrite
  <2>5. (\A t \in Threads : \A i \in owns[t] : SlotOf(i).start < SlotOf(i).end)'
    BY <2>2, <2>4, OwnedInWindow DEF Geometry
  <2> QED
    BY <2>2, <2>3, <2>4, <2>5 DEF Geometry
<1>5. CASE AllocWrap
  BY <1>5, GeometryWrap
<1>6. CASE AllocRehead
  BY <1>6, GeometryFrame DEF AllocRehead, Allotted, SlotOf, TypeOK
<1>8. CASE AllocPublish
  <2>1. /\ tail' = tail + 1 /\ UNCHANGED <<slots, head, write, newLap, lapped>>
        /\ pc' = [pc EXCEPT ![Producer] = "idle"] /\ pc[Producer] = "publish"
        /\ owns' = [owns EXCEPT ![Producer] = @ \cup {tail}]
    BY <1>8 DEF AllocPublish
  <2>2. pc'[Producer] = "idle" /\ Allotted' = Allotted /\ tail \in Allotted
    BY <2>1 DEF TypeOK, Allotted, Control, WindowFits
  <2>3. SlotOf(tail).start < SlotOf(tail).end /\ newLap <= tail
    BY <2>2 DEF Geometry
  <2>4. (\A t \in Threads : \A i \in owns[t] : SlotOf(i).start < SlotOf(i).end)'
    <3>1. ASSUME NEW t \in Threads, NEW i \in owns'[t]
          PROVE  SlotOf(i).start < SlotOf(i).end
      <4>1. i = tail \/ i \in owns[t]
        BY <2>1, <3>1 DEF TypeOK
      <4> QED
        BY <2>3, <4>1 DEF Geometry
    <3> QED
      BY <2>1, <3>1 DEF SlotOf
  <2>5. newLap' <= tail'
    BY <2>1, <2>3 DEF TypeOK
  <2> QED
    BY <2>1, <2>2, <2>4, <2>5 DEF Geometry, SlotOf
<1>9. ASSUME NEW i \in owns[Producer], NEW n \in Sizes, ExtendBegin(i, n)
      PROVE  Geometry'
  <2>1. /\ UNCHANGED <<slots, head, tail, write, owns, newLap, lapped>>
        /\ SlotOf(i).end = write
        /\ req' = [n |-> n, read |-> readCursor, idx |-> i]
        /\ pc' = [pc EXCEPT ![Producer] = "extend"] /\ pc[Producer] = "idle"
    BY <1>9 DEF ExtendBegin
  <2>2. /\ pc'[Producer] = "extend" /\ Allotted' = Allotted
        /\ req'.read = readCursor /\ req'.idx = i
    BY <2>1 DEF TypeOK, Allotted
  <2>3. ASSUME ~ lapped, head < newLap
        PROVE  write <= readCursor /\ \A j \in Allotted : j < newLap => readCursor <= SlotOf(j).start
    <3>1. head \in Allotted
      BY <2>1, <2>3 DEF Allotted, Geometry, TypeOK
    <3> QED
      BY <2>3, <3>1, OldLapAscends
  <2> QED
    BY <2>1, <2>2, <2>3 DEF Geometry, SlotOf
<1>10. CASE ExtendEnd
  <2>1. CASE ExtendFits
    BY <1>10, <2>1, GeometryExtend
  <2>2. CASE ~ ExtendFits
    BY <1>10, <2>2, GeometryFrame DEF ExtendEnd, Allotted, SlotOf, TypeOK
  <2> QED
    BY <2>1, <2>2
<1>11. ASSUME NEW t \in Threads, NEW i \in owns[t], Release(t, i)
       PROVE  Geometry'
  <2>1. /\ UNCHANGED <<head, tail, write, req, newLap, lapped>>
        /\ pc' = [pc EXCEPT ![t] = "load"]
        /\ owns' = [owns EXCEPT ![t] = @ \ {i}]
        /\ slots' = [slots EXCEPT ![i % SlotCount].refs = SlotOf(i).refs - 1]
    BY <1>11 DEF Release, SlotOf
  <2> DEFINE c == SlotOf(i).refs - 1
  <2>2. slots' = [slots EXCEPT ![i % SlotCount].refs = c]
    BY <2>1
  <2> HIDE DEF c
  <2>3. \A u \in Threads : \A j \in owns'[u] : j \in owns[u]
    BY <2>1 DEF TypeOK
  <2>4. pc'[Producer] \in {"waste", "publish", "extend"} => pc'[Producer] = pc[Producer]
    BY <2>1 DEF TypeOK
  <2> QED
    BY <2>1, <2>2, <2>3, <2>4, GeometryRefs
<1>12. ASSUME NEW t \in Threads, NEW u \in Threads, NEW i \in owns[t], Retain(t, u, i)
       PROVE  Geometry'
  <2>1. /\ UNCHANGED <<head, tail, write, req, newLap, lapped, pc>>
        /\ owns' = [owns EXCEPT ![u] = @ \cup {i}]
        /\ slots' = [slots EXCEPT ![i % SlotCount].refs = SlotOf(i).refs + 1]
    BY <1>12 DEF Retain, SlotOf
  <2> DEFINE c == SlotOf(i).refs + 1
  <2>2. slots' = [slots EXCEPT ![i % SlotCount].refs = c]
    BY <2>1
  <2> HIDE DEF c
  <2>3. \A v \in Threads : \A j \in owns'[v] : \E w \in Threads : j \in owns[w]
    BY <1>12, <2>1 DEF TypeOK
  <2> QED
    BY <2>1, <2>2, <2>3, GeometryRefs
<1>13. ASSUME NEW t \in Threads, ReleaseLoadHead(t)
       PROVE  Geometry'
  BY <1>13, GeometryFrame DEF ReleaseLoadHead, Allotted, SlotOf, TypeOK
<1>14. ASSUME NEW t \in Threads, ReleaseCheckTail(t)
       PROVE  Geometry'
  BY <1>14, GeometryFrame DEF ReleaseCheckTail, Allotted, SlotOf, TypeOK
<1>15. ASSUME NEW t \in Threads, ReleaseCheckRefs(t)
       PROVE  Geometry'
  BY <1>15, GeometryFrame DEF ReleaseCheckRefs, Allotted, SlotOf, TypeOK
<1>16. ASSUME NEW t \in Threads, ReleaseCas(t)
       PROVE  Geometry'
  <2>1. /\ UNCHANGED <<slots, tail, write, req, owns, newLap, lapped>>
        /\ pc' = [pc EXCEPT ![t] = "load"]
        /\ head' = head \/ head' = head + 1
    BY <1>16 DEF ReleaseCas
  <2>2. pc'[Producer] \in {"waste", "publish", "extend"} => pc'[Producer] = pc[Producer]
    BY <2>1 DEF TypeOK
  <2>3. Allotted' \subseteq Allotted /\ (head' < newLap => head < newLap)
    BY <2>1, <2>2 DEF Allotted, TypeOK
  <2> QED
    BY <2>1, <2>2, <2>3, GeometryFrame DEF SlotOf
<1>17. CASE UNCHANGED vars
  BY <1>17, GeometryFrame DEF vars, Allotted, SlotOf, TypeOK
<1>18. AllocStraight => Geometry'
  BY <1>2 DEF AllocStraight
<1>19. AllocWrapped => Geometry'
  BY <1>2, CapAssumption DEF AllocWrapped, Control, TypeOK
<1> QED
  BY <1>1, <1>3, <1>4, <1>5, <1>6, <1>8, <1>9, <1>10, <1>11, <1>12, <1>13,
     <1>14, <1>15, <1>16, <1>17, <1>18, <1>19
  DEF Next, Alloc, Extend, ReleaseStep

-----------------------------------------------------------------------------
(* Progress of head *)

\* t is in a Release that looks at the oldest slot, or is about to.
Returning(t) ==
    \/ pc[t] = "load"
    \/ pc[t] \in {"tail", "refs", "cas"} /\ seenHead[t] = head

\* A finished allocation at the head is somebody's to recycle.
DoneHeadIsSeen ==
    head < tail /\ SlotOf(head).refs = 0 /\ head \notin waste =>
        \E t \in Threads : Returning(t)

\* A new ring is empty.
LEMMA DoneHeadInit == Init => DoneHeadIsSeen
BY DEF Init, DoneHeadIsSeen

\* Steps that finish no slot at the head and take nobody's attention off it.
LEMMA DoneHeadFrame ==
    ASSUME DoneHeadIsSeen,
           head' < tail' /\ SlotOf(head)'.refs = 0 /\ head' \notin waste' =>
              /\ head < tail /\ SlotOf(head).refs = 0 /\ head \notin waste
              /\ \A t \in Threads : Returning(t) => Returning(t)'
    PROVE  DoneHeadIsSeen'
BY DEF DoneHeadIsSeen

\* The producer's own calls, which never look at the head as a Release does.
LEMMA ProducerNotReturning ==
    ASSUME TypeOK, NEW label, pc' = [pc EXCEPT ![Producer] = label],
           pc[Producer] \in {"idle", "extend"} \cup AllocSteps, head' = head,
           \A t \in Consumers : seenHead'[t] = seenHead[t]
    PROVE  \A t \in Threads : Returning(t) => Returning(t)'
BY ThreadNames DEF TypeOK, Returning, AllocSteps, Threads

\* Every step keeps a finished allocation at the head in somebody's sight.
LEMMA DoneHeadStep ==
    ASSUME TypeOK, Control, Counts, DoneHeadIsSeen, [Next]_vars
    PROVE  DoneHeadIsSeen'
<1> USE ThreadNames DEF Goto, Return, ring, ghosts
<1>0. head < tail => head \in Window /\ head \in head .. tail - 1 /\ head \in Nat
  BY DEF Window, TypeOK
<1>1. ASSUME NEW n \in Sizes, AllocBegin(n)
      PROVE  DoneHeadIsSeen'
  <2>1. /\ pc' = [pc EXCEPT ![Producer] = "cursor"] /\ pc[Producer] = "idle"
        /\ seenHead' = [seenHead EXCEPT ![Producer] = head]
        /\ UNCHANGED <<slots, head, tail, waste>>
    BY <1>1 DEF AllocBegin
  <2>2. \A t \in Consumers : seenHead'[t] = seenHead[t]
    BY <2>1 DEF TypeOK
  <2> QED
    BY <2>1, <2>2, ProducerNotReturning, DoneHeadFrame DEF SlotOf
<1>2. ASSUME pc[Producer] \in {"cursor", "recursor"}, AllocDecide(readCursor)
      PROVE  DoneHeadIsSeen'
  <2>1. CASE AllocFits(readCursor)
    <3> DEFINE r == [start |-> write, end |-> write + req.n, refs |-> 1]
    <3>1. /\ slots' = [slots EXCEPT ![tail % SlotCount] = r]
          /\ UNCHANGED <<head, tail, seenHead, waste>>
          /\ pc' = [pc EXCEPT ![Producer] = "publish"]
      BY <1>2, <2>1 DEF AllocDecide, AllocTake
    <3> HIDE DEF r
    <3>2. tail - head < SlotCount
      BY <2>1, SlotCountAssumption DEF AllocFits, Control, TypeOK
    <3>3. head < tail => SlotOf(head)' = SlotOf(head)
      BY <1>0, <3>1, <3>2, TailSlotWrite DEF SlotOf
    <3>4. \A t \in Threads : Returning(t) => Returning(t)'
      BY <1>2, <3>1, ProducerNotReturning DEF AllocSteps
    <3> QED
      BY <3>1, <3>3, <3>4, DoneHeadFrame
  <2>2. CASE ~ AllocFits(readCursor)
    <3>1. /\ pc' = [pc EXCEPT ![Producer] = "idle"]
          /\ seenHead' = [seenHead EXCEPT ![Producer] = 0]
          /\ UNCHANGED <<slots, head, tail, waste>>
      BY <1>2, <2>2 DEF AllocDecide, AllocNil
    <3>2. \A t \in Consumers : seenHead'[t] = seenHead[t]
      BY <3>1 DEF TypeOK
    <3> QED
      BY <1>2, <3>1, <3>2, ProducerNotReturning, DoneHeadFrame DEF SlotOf, AllocSteps
  <2> QED
    BY <2>1, <2>2
<1>3. CASE AllocNoWasteSlot
  <2>1. /\ pc' = [pc EXCEPT ![Producer] = "idle"] /\ pc[Producer] = "cursor"
        /\ seenHead' = [seenHead EXCEPT ![Producer] = 0]
        /\ UNCHANGED <<slots, head, tail, waste>>
    BY <1>3 DEF AllocNoWasteSlot, AllocNil
  <2>2. \A t \in Consumers : seenHead'[t] = seenHead[t]
    BY <2>1 DEF TypeOK
  <2> QED
    BY <2>1, <2>2, ProducerNotReturning, DoneHeadFrame DEF SlotOf, AllocSteps
<1>4. CASE AllocFillWaste
  <2> DEFINE r == [start |-> write, end |-> Cap, refs |-> 0]
  <2>1. /\ slots' = [slots EXCEPT ![tail % SlotCount] = r]
        /\ UNCHANGED <<head, tail, seenHead, waste>>
        /\ pc' = [pc EXCEPT ![Producer] = "waste"] /\ pc[Producer] = "cursor"
    BY <1>4 DEF AllocFillWaste
  <2> HIDE DEF r
  <2>2. tail - head < SlotCount
    BY <1>4, SlotCountAssumption DEF AllocFillWaste, Control, TypeOK
  <2>3. head < tail => SlotOf(head)' = SlotOf(head)
    BY <1>0, <2>1, <2>2, TailSlotWrite DEF SlotOf
  <2>4. \A t \in Threads : Returning(t) => Returning(t)'
    BY <2>1, ProducerNotReturning DEF AllocSteps
  <2> QED
    BY <2>1, <2>3, <2>4, DoneHeadFrame
<1>5. CASE AllocWrap
  <2>1. /\ UNCHANGED <<slots, head, seenHead>> /\ tail' = tail + 1
        /\ waste' = waste \cup {tail}
        /\ pc' = [pc EXCEPT ![Producer] = "rehead"] /\ pc[Producer] = "waste"
    BY <1>5 DEF AllocWrap
  <2>2. \A t \in Threads : Returning(t) => Returning(t)'
    BY <2>1, ProducerNotReturning DEF AllocSteps
  <2>3. head <= tail /\ head \in Nat /\ tail \in Nat
    BY DEF Control, WindowFits, TypeOK
  <2>4. head' \notin waste' => head < tail /\ head \notin waste
    BY <2>1, <2>3
  <2>5. SlotOf(head)'.refs = SlotOf(head).refs
    BY <2>1 DEF SlotOf
  <2> QED
    BY <2>2, <2>4, <2>5, DoneHeadFrame
<1>6. CASE AllocRehead
  <2>1. /\ pc' = [pc EXCEPT ![Producer] = "recursor"] /\ pc[Producer] = "rehead"
        /\ seenHead' = [seenHead EXCEPT ![Producer] = head]
        /\ UNCHANGED <<slots, head, tail, waste>>
    BY <1>6 DEF AllocRehead
  <2>2. \A t \in Consumers : seenHead'[t] = seenHead[t]
    BY <2>1 DEF TypeOK
  <2> QED
    BY <2>1, <2>2, ProducerNotReturning, DoneHeadFrame DEF SlotOf, AllocSteps
<1>8. CASE AllocPublish
  <2>1. /\ UNCHANGED <<slots, head, waste>> /\ tail' = tail + 1
        /\ seenHead' = [seenHead EXCEPT ![Producer] = 0]
        /\ pc' = [pc EXCEPT ![Producer] = "idle"] /\ pc[Producer] = "publish"
    BY <1>8 DEF AllocPublish
  <2>2. \A t \in Consumers : seenHead'[t] = seenHead[t]
    BY <2>1 DEF TypeOK
  <2>3. \A t \in Threads : Returning(t) => Returning(t)'
    BY <2>1, <2>2, ProducerNotReturning DEF AllocSteps
  <2>4. head <= tail /\ head \in Nat /\ tail \in Nat
    BY DEF Control, WindowFits, TypeOK
  <2>5. SlotOf(tail).refs = 1 /\ SlotOf(head)' = SlotOf(head)
    BY <2>1 DEF Counts, SlotOf
  <2>6. SlotOf(head)'.refs = 0 => head # tail
    BY <2>5
  <2> QED
    BY <2>1, <2>3, <2>4, <2>5, <2>6, DoneHeadFrame
<1>9. ASSUME NEW i \in owns[Producer], NEW n \in Sizes, ExtendBegin(i, n)
      PROVE  DoneHeadIsSeen'
  <2>1. /\ pc' = [pc EXCEPT ![Producer] = "extend"] /\ pc[Producer] = "idle"
        /\ UNCHANGED <<slots, head, tail, seenHead, waste>>
    BY <1>9 DEF ExtendBegin
  <2> QED
    BY <2>1, ProducerNotReturning, DoneHeadFrame DEF SlotOf
<1>10. CASE ExtendEnd
  <2>1. /\ pc' = [pc EXCEPT ![Producer] = "idle"] /\ pc[Producer] = "extend"
        /\ UNCHANGED <<head, tail, seenHead, waste>>
    BY <1>10 DEF ExtendEnd
  <2>2. SlotOf(head)'.refs = SlotOf(head).refs
    BY <1>10, <2>1, ExtendKeepsRefs DEF SlotOf, TypeOK
  <2> QED
    BY <2>1, <2>2, ProducerNotReturning, DoneHeadFrame
<1>11. ASSUME NEW t \in Threads, NEW i \in owns[t], Release(t, i)
       PROVE  DoneHeadIsSeen'
  <2>1. pc'[t] = "load"
    BY <1>11 DEF Release, TypeOK
  <2> QED
    BY <2>1 DEF DoneHeadIsSeen, Returning
<1>12. ASSUME NEW t \in Threads, NEW u \in Threads, NEW i \in owns[t], Retain(t, u, i)
       PROVE  DoneHeadIsSeen'
  <2>1. /\ UNCHANGED <<head, tail, pc, seenHead, waste>>
        /\ slots' = [slots EXCEPT ![i % SlotCount].refs = SlotOf(i).refs + 1]
    BY <1>12 DEF Retain, SlotOf
  <2>2. i \in Window
    BY OwnedInWindow
  <2>3. /\ SlotOf(i)'.refs = SlotOf(i).refs + 1
        /\ \A j \in Window : j # i => SlotOf(j)' = SlotOf(j)
    <3> DEFINE c == SlotOf(i).refs + 1
    <3>1. slots' = [slots EXCEPT ![i % SlotCount].refs = c]
      BY <2>1
    <3> HIDE DEF c
    <3>2. SlotOf(i)'.refs = c /\ \A j \in Window : j # i => SlotOf(j)' = SlotOf(j)
      BY <2>1, <2>2, <3>1, RefsWrite
    <3> QED
      BY <3>2 DEF c
  <2>4. SlotOf(i).refs \in Nat
    <3>1. SlotOf(i).refs = Cardinality(OwnersOf(i))
      BY <2>2 DEF Window, Counts, RefsCountOwners
    <3> QED
      BY <3>1, OwnersFinite DEF OwnersOf
  <2>5. head < tail /\ SlotOf(head)'.refs = 0 => SlotOf(head).refs = 0
    BY <1>0, <2>1, <2>3, <2>4
  <2> QED
    BY <2>1, <2>5, DoneHeadFrame DEF Returning
<1>13. ASSUME NEW t \in Threads, ReleaseLoadHead(t)
       PROVE  DoneHeadIsSeen'
  <2>1. pc'[t] = "tail" /\ seenHead'[t] = head /\ head' = head
    BY <1>13 DEF ReleaseLoadHead, TypeOK
  <2> QED
    BY <2>1 DEF DoneHeadIsSeen, Returning
<1>14. ASSUME NEW t \in Threads, ReleaseCheckTail(t)
       PROVE  DoneHeadIsSeen'
  <2>1. pc[t] = "tail" /\ UNCHANGED <<slots, head, tail, waste>>
    BY <1>14 DEF ReleaseCheckTail
  <2>2. \A u \in Threads : u # t => pc'[u] = pc[u] /\ seenHead'[u] = seenHead[u]
    BY <1>14 DEF ReleaseCheckTail, TypeOK
  <2>3. seenHead[t] < tail => pc'[t] = "refs" /\ seenHead'[t] = seenHead[t]
    BY <1>14 DEF ReleaseCheckTail, TypeOK
  <2>4. head < tail => \A u \in Threads : Returning(u) => Returning(u)'
    BY <2>1, <2>2, <2>3 DEF Returning
  <2> QED
    BY <2>1, <2>4, DoneHeadFrame DEF SlotOf
<1>15. ASSUME NEW t \in Threads, ReleaseCheckRefs(t)
       PROVE  DoneHeadIsSeen'
  <2>1. pc[t] = "refs" /\ UNCHANGED <<slots, head, tail, waste>>
    BY <1>15 DEF ReleaseCheckRefs
  <2>2. \A u \in Threads : u # t => pc'[u] = pc[u] /\ seenHead'[u] = seenHead[u]
    BY <1>15 DEF ReleaseCheckRefs, TypeOK
  <2>3. SlotOf(seenHead[t]).refs = 0 => pc'[t] = "cas" /\ seenHead'[t] = seenHead[t]
    BY <1>15 DEF ReleaseCheckRefs, TypeOK
  <2>4. SlotOf(head).refs = 0 => \A u \in Threads : Returning(u) => Returning(u)'
    BY <2>1, <2>2, <2>3 DEF Returning
  <2> QED
    BY <2>1, <2>4, DoneHeadFrame DEF SlotOf
<1>16. ASSUME NEW t \in Threads, ReleaseCas(t)
       PROVE  DoneHeadIsSeen'
  <2>1. pc'[t] = "load"
    BY <1>16 DEF ReleaseCas, TypeOK
  <2> QED
    BY <2>1 DEF DoneHeadIsSeen, Returning
<1>17. CASE UNCHANGED vars
  BY <1>17, DoneHeadFrame DEF vars, SlotOf, Returning
<1>18. AllocStraight \/ AllocWrapped => DoneHeadIsSeen'
  BY <1>2 DEF AllocStraight, AllocWrapped
<1> QED
  BY <1>1, <1>3, <1>4, <1>5, <1>6, <1>8, <1>9, <1>10, <1>11, <1>12, <1>13,
     <1>14, <1>15, <1>16, <1>17, <1>18
  DEF Next, Alloc, Extend, ReleaseStep

\* Allotted slots are apart too, the one being published included.
LEMMA AllottedApart ==
    ASSUME IInv, ~ lapped, NEW i \in Allotted, NEW j \in Allotted, i < j
    PROVE  SlotOf(i).end <= SlotOf(j).start \/ SlotOf(j).end <= SlotOf(i).start
<1> USE DEF IInv
<1>1. i \in Nat /\ j \in Nat
  BY DEF Allotted, TypeOK
<1>2. CASE newLap <= i \/ j < newLap
  BY <1>2 DEF Geometry
<1>3. CASE i < newLap /\ newLap <= j
  <2>1. SlotOf(j).end <= write /\ write <= SlotOf(i).start
    BY <1>3 DEF Geometry
  <2>2. write \in Int /\ SlotOf(j).end \in Int /\ SlotOf(i).start \in Int
    BY <1>1, SlotType DEF TypeOK
  <2> QED
    BY <2>1, <2>2
<1> QED
  BY <1>1, <1>2, <1>3 DEF TypeOK

\* The geometry gives that owned regions are apart.
LEMMA DisjointUnlessLapped == IInv => LiveRegionsDisjointUnlessLapped
BY OwnedInWindow, AllottedApart DEF LiveRegionsDisjointUnlessLapped, Live, IInv

-----------------------------------------------------------------------------
(* The ring implements shared regions *)

\* A call that will publish has room below the bound.
TailBounded ==
    /\ pc[Producer] \in {"cursor", "waste"} => tail + 2 <= MaxTail
    /\ pc[Producer] \in {"rehead", "recursor", "publish"} => tail + 1 <= MaxTail

\* Every step leaves a call that will publish its room.
LEMMA TailBoundedStep ==
    ASSUME TypeOK, TailBounded, [Next]_vars
    PROVE  TailBounded'
<1> USE ThreadNames, MaxTailAssumption DEF TypeOK, TailBounded, Goto, Return, ring, ghosts
<1>1. ASSUME NEW n \in Sizes, AllocBegin(n)
      PROVE  TailBounded'
  BY <1>1 DEF AllocBegin
<1>2. ASSUME pc[Producer] \in {"cursor", "recursor"}, AllocDecide(readCursor)
      PROVE  TailBounded'
  <2>1. /\ tail' = tail
        /\ \/ pc' = [pc EXCEPT ![Producer] = "publish"]
           \/ pc' = [pc EXCEPT ![Producer] = "idle"]
    BY <1>2 DEF AllocDecide, AllocTake, AllocNil
  <2> QED
    BY <1>2, <2>1
<1>3. CASE AllocNoWasteSlot
  BY <1>3 DEF AllocNoWasteSlot, AllocNil
<1>4. CASE AllocFillWaste
  BY <1>4 DEF AllocFillWaste
<1>5. CASE AllocWrap
  BY <1>5 DEF AllocWrap
<1>6. CASE AllocRehead
  BY <1>6 DEF AllocRehead
<1>8. CASE AllocPublish
  BY <1>8 DEF AllocPublish
<1>9. CASE Extend
  BY <1>9 DEF Extend, ExtendBegin, ExtendEnd
<1>10. ASSUME NEW t \in Threads,
              (\E i \in owns[t] : Release(t, i))
                 \/ (\E u \in Threads, i \in owns[t] : Retain(t, u, i)) \/ ReleaseStep(t)
       PROVE  TailBounded'
  <2>1. tail' = tail /\ \E l \in {"idle"} \cup ReleaseSteps : pc' = [pc EXCEPT ![t] = l] \/ pc' = pc
    BY <1>10 DEF Release, Retain, ReleaseStep, ReleaseLoadHead, ReleaseCheckTail,
       ReleaseCheckRefs, ReleaseCas, ReleaseSteps
  <2> QED
    BY <2>1 DEF ReleaseSteps
<1>11. CASE UNCHANGED vars
  BY <1>11 DEF vars
<1>12. AllocStraight \/ AllocWrapped => TailBounded'
  BY <1>2 DEF AllocStraight, AllocWrapped
<1> QED
  BY <1>1, <1>3, <1>4, <1>5, <1>6, <1>8, <1>9, <1>10, <1>11, <1>12 DEF Next, Alloc

\* The handles in use are those with an owner.
LEMMA LiveIsOwned ==
    ASSUME TypeOK, Counts
    PROVE  /\ Live = UNION {owns[t] : t \in Threads}
           /\ \A i \in Live : i \in Window /\ i \in Allotted /\ i \in Nat /\ i < tail
<1>1. \A t \in Threads : \A i \in owns[t] : i \in 0 .. tail
  BY OwnedInWindow DEF TypeOK
<1> QED
  BY <1>1, OwnedInWindow DEF Live

\* So they are after a step.
LEMMA LiveIsOwnedNext ==
    ASSUME TypeOK', Counts'
    PROVE  Live' = UNION {owns'[t] : t \in Threads}
<1>1. \A t \in Threads : \A i \in owns'[t] : i \in 0 .. tail'
  BY DEF Counts, HandlesInWindow, TypeOK
<1> QED
  BY <1>1 DEF Live

\* What a region is, without the slot table.
LEMMA RegionAt ==
    /\ DOMAIN Region = Live
    /\ \A i \in Live : Region[i] = [lo |-> SlotOf(i).start, hi |-> SlotOf(i).end]
BY DEF Region

\* Handles and their bytes stay: nothing happens to the regions.
LEMMA RegionFrame ==
    ASSUME TypeOK, TypeOK', Counts, Counts', UNCHANGED owns,
           \A i \in Live : SlotOf(i)'.start = SlotOf(i).start /\ SlotOf(i)'.end = SlotOf(i).end
    PROVE  UNCHANGED <<Region, owns>>
<1>1. Live' = Live
  BY LiveIsOwned, LiveIsOwnedNext
<1>2. Region' = [i \in Live |-> [lo |-> SlotOf(i)'.start, hi |-> SlotOf(i)'.end]]
  BY <1>1 DEF Region, SlotOf
<1> QED
  BY <1>2 DEF Region

\* The same in the state a step leads to.
LEMMA DisjointUnlessLappedNext == (IInv => LiveRegionsDisjointUnlessLapped)'
BY DisjointUnlessLapped, PTL

\* Regions are the same when the handles in use and their bytes are.
LEMMA RegionKept ==
    ASSUME Live' = Live,
           \A i \in Live : SlotOf(i)'.start = SlotOf(i).start /\ SlotOf(i)'.end = SlotOf(i).end
    PROVE  Region' = Region
<1>1. Region' = [i \in Live |-> [lo |-> SlotOf(i)'.start, hi |-> SlotOf(i)'.end]]
  BY DEF Region, SlotOf
<1> QED
  BY <1>1 DEF Region

\* Publishing a slot obtains a region for the producer.
LEMMA PublishObtains ==
    ASSUME IInv, IInv', TailBounded, AllocPublish, ~ lapped'
    PROVE  Regions!Next
<1> USE DEF IInv
<1> DEFINE r == [lo |-> SlotOf(tail).start, hi |-> SlotOf(tail).end]
<1>1. /\ pc[Producer] = "publish" /\ ~ lapped /\ UNCHANGED slots
      /\ owns' = [owns EXCEPT ![Producer] = @ \cup {tail}]
  BY DEF AllocPublish, ghosts
<1>2. /\ tail \in Nat /\ head \in Nat /\ tail \in Allotted
      /\ newLap <= tail /\ r.lo < r.hi /\ tail \notin Live
  <2>1. /\ tail \in Allotted /\ newLap <= tail /\ tail \in Nat /\ head \in Nat
    BY <1>1 DEF Allotted, Control, WindowFits, TypeOK, Geometry
  <2>2. SlotOf(tail).start < SlotOf(tail).end
    BY <2>1 DEF Geometry
  <2> QED
    BY <2>1, <2>2, LiveIsOwned
<1>3. r \in [lo : 0 .. Cap, hi : 0 .. Cap]
  BY <1>2, SlotType
<1>4. tail \in 0 .. MaxTail
  BY <1>1, <1>2, MaxTailAssumption DEF TailBounded
<1>5. ASSUME NEW k \in Live
      PROVE  SlotOf(k).end <= SlotOf(tail).start \/ SlotOf(tail).end <= SlotOf(k).start
  <2>1. k \in Allotted /\ k \in Nat /\ k < tail
    BY LiveIsOwned
  <2> QED
    BY <1>1, <1>2, <2>1, AllottedApart
<1>6. Regions!FreeFor(tail, r)
  <2>1. ASSUME NEW k \in Live
        PROVE  ~ (SlotOf(k).start < r.hi /\ r.lo < SlotOf(k).end)
    <3>1. /\ SlotOf(k).start \in Int /\ SlotOf(k).end \in Int
          /\ SlotOf(tail).start \in Int /\ SlotOf(tail).end \in Int
      BY <1>2, LiveIsOwned, SlotType
    <3> QED
      BY <1>5, <3>1
  <2> HIDE DEF r
  <2> QED
    BY <2>1, RegionAt DEF Regions!FreeFor, Regions!InUse, Regions!Overlap
<1>7. Live' = Live \cup {tail}
  <2>1. \A t \in Threads : owns'[t] = IF t = Producer THEN owns[t] \cup {tail} ELSE owns[t]
    BY <1>1 DEF TypeOK
  <2>2. Live' = UNION {owns'[t] : t \in Threads} /\ Live = UNION {owns[t] : t \in Threads}
    BY LiveIsOwned, LiveIsOwnedNext
  <2>3. \A i : i \in Live' <=> \E t \in Threads : i \in owns'[t]
    BY <2>2
  <2>4. \A i : i \in Live <=> \E t \in Threads : i \in owns[t]
    BY <2>2
  <2>5. \A i : i \in Live' <=> i \in Live \/ i = tail
    BY <2>1, <2>3, <2>4, ThreadNames
  <2> QED
    BY <2>5
<1>8. Region' = Regions!Put(tail, r)
  BY <1>1, <1>2, <1>7, RegionAt DEF Region, Regions!Put, Regions!InUse, SlotOf
<1>9. Regions!Obtain(tail, r)
  <2> HIDE DEF r
  <2> QED
    BY <1>1, <1>2, <1>6, <1>8, RegionAt DEF Regions!Obtain, Regions!InUse
<1> HIDE DEF r
<1> QED
  BY <1>3, <1>4, <1>9 DEF Regions!Next

\* An Extend that finds room grows the region of its handle.
LEMMA ExtendGrows ==
    ASSUME IInv, IInv', ExtendEnd, ExtendFits, ~ lapped',
           NEW h, h = req.idx, NEW e, e = write + req.n
    PROVE  Regions!Next
<1> USE DEF IInv
<1> DEFINE r == [Region[h] EXCEPT !.hi = e]
<1>1. /\ pc[Producer] = "extend" /\ ~ lapped /\ UNCHANGED owns /\ h \in owns[Producer]
      /\ req.n > 0 /\ SlotOf(h).end = write /\ e \in 0 .. Cap
  BY CapAssumption DEF ExtendEnd, ghosts, Control, Geometry, TypeOK
<1>2. h \in Live /\ h \in Nat /\ h \in Window
  BY <1>1, OwnedInWindow, ThreadNames, LiveIsOwned
<1>3. Region[h] = [lo |-> SlotOf(h).start, hi |-> write]
  BY <1>1, <1>2, RegionAt
<1>4. r = [lo |-> SlotOf(h).start, hi |-> e]
  BY <1>3
<1>5. Live' = Live
  BY <1>1, LiveIsOwned, LiveIsOwnedNext
<1>6. /\ slots'[h % SlotCount].start = SlotOf(h).start
      /\ slots'[h % SlotCount].end = e
      /\ \A k \in Live : k # h => slots'[k % SlotCount] = SlotOf(k)
  <2>1. slots' = [slots EXCEPT ![h % SlotCount] = [SlotOf(h) EXCEPT !.end = e]]
    BY <1>2, SlotIndexInTable DEF ExtendEnd, SlotOf, TypeOK
  <2> DEFINE new == [SlotOf(h) EXCEPT !.end = e]
  <2>2. new.start = SlotOf(h).start /\ new.end = e
    BY <1>2, SlotType DEF Slot
  <2> HIDE DEF new
  <2>3. SlotOf(h)' = new
    BY <1>2, <2>1, SlotWrite DEF new
  <2>4. ASSUME NEW k \in Live, k # h
        PROVE  slots'[k % SlotCount] = SlotOf(k)
    <3>0. /\ head <= k /\ k < tail /\ head <= h /\ h < tail /\ tail - head <= SlotCount
          /\ k \in Nat /\ h \in Nat /\ head \in Nat /\ tail \in Nat /\ SlotCount \in Nat
      <4>1. k \in Window /\ k \in Nat
        BY LiveIsOwned
      <4> QED
        BY <1>2, <4>1, SlotCountAssumption DEF Window, Control, WindowFits, TypeOK
    <3>1. /\ k \in Nat /\ (k < h => h - k < SlotCount) /\ (h < k => k - h < SlotCount)
      BY <3>0
    <3>2. SlotOf(k)' = SlotOf(k)
      BY <1>2, <2>1, <2>4, <3>1, SlotWrite DEF new
    <3> QED
      BY <3>2 DEF SlotOf
  <2> QED
    BY <2>2, <2>3, <2>4 DEF SlotOf
<1>7. ASSUME NEW k \in Live, k # h
      PROVE  ~ (SlotOf(k).start < e /\ SlotOf(h).start < SlotOf(k).end)
  <2>1. /\ SlotOf(k).start \in Int /\ SlotOf(k).end \in Int /\ SlotOf(h).start \in Int
        /\ k \in Nat /\ e \in Int
    BY <1>1, <1>2, LiveIsOwned, SlotType
  <2>2. /\ k \in Live' /\ h \in Live' /\ ~ lapped'
        /\ slots'[k % SlotCount].start = SlotOf(k).start
        /\ slots'[k % SlotCount].end = SlotOf(k).end
    BY <1>2, <1>5, <1>6, <1>7
  <2>3. \/ slots'[k % SlotCount].end <= slots'[h % SlotCount].start
        \/ slots'[h % SlotCount].end <= slots'[k % SlotCount].start
    BY <1>2, <1>7, <2>1, <2>2, DisjointUnlessLappedNext
    DEF LiveRegionsDisjointUnlessLapped, SlotOf
  <2> QED
    BY <1>6, <2>1, <2>2, <2>3
<1>8. Regions!FreeFor(h, r)
  <2> HIDE DEF r
  <2>1. r.lo = SlotOf(h).start /\ r.hi = e
    BY <1>4
  <2> QED
    BY <1>7, <2>1, RegionAt DEF Regions!FreeFor, Regions!InUse, Regions!Overlap
<1>9. Region' = Regions!Put(h, r)
  <2> HIDE DEF r
  <2>1. Region' = [k \in Live |-> [lo |-> slots'[k % SlotCount].start, hi |-> slots'[k % SlotCount].end]]
    BY <1>5 DEF Region, SlotOf
  <2>2. \A k \in Live : [lo |-> slots'[k % SlotCount].start, hi |-> slots'[k % SlotCount].end]
                           = IF k = h THEN r ELSE Region[k]
    BY <1>4, <1>6, RegionAt
  <2>3. Live \cup {h} = Live
    BY <1>2
  <2> QED
    BY <2>1, <2>2, <2>3, RegionAt DEF Regions!Put, Regions!InUse
<1>10. e > Region[h].hi
  BY <1>1, <1>3 DEF TypeOK
<1>11. Regions!Grow(h, e)
  <2> QED
    BY <1>1, <1>8, <1>9, <1>10 DEF Regions!Grow, r
<1> HIDE DEF r
<1> QED
  BY <1>1, <1>2, <1>11, RegionAt DEF Regions!Next, Regions!InUse

\* Retain shares a region, and the count it changes is no part of it.
LEMMA RetainShares ==
    ASSUME IInv, IInv', NEW t \in Threads, NEW u \in Threads, NEW i \in owns[t], Retain(t, u, i)
    PROVE  Regions!Next
<1> USE DEF IInv
<1> DEFINE c == SlotOf(i).refs + 1
<1>1. /\ i \notin owns[u] /\ tail' = tail
      /\ owns' = [owns EXCEPT ![u] = @ \cup {i}]
      /\ slots' = [slots EXCEPT ![i % SlotCount].refs = c]
  BY DEF Retain, SlotOf
<1> HIDE DEF c
<1>2. i \in Window /\ i \in Live
  BY OwnedInWindow, LiveIsOwned
<1>3. \A k \in Live : SlotOf(k)'.start = SlotOf(k).start /\ SlotOf(k)'.end = SlotOf(k).end
  BY <1>1, <1>2, RefsWrite, LiveIsOwned
<1>4. Live' = Live
  <2>1. \A v \in Threads : owns'[v] = IF v = u THEN owns[v] \cup {i} ELSE owns[v]
    BY <1>1 DEF TypeOK
  <2>2. \A k : (\E v \in Threads : k \in owns'[v]) <=> (\E v \in Threads : k \in owns[v])
    BY <2>1
  <2>3. UNION {owns'[v] : v \in Threads} = UNION {owns[v] : v \in Threads}
    BY <2>2
  <2> QED
    BY <2>3, LiveIsOwned, LiveIsOwnedNext
<1>5. Region' = Region
  BY <1>3, <1>4, RegionKept
<1> QED
  BY <1>1, <1>2, <1>5, RegionAt DEF Regions!Next, Regions!InUse, Regions!Share

\* Release drops one: the last owner's release ends the region at once, long
\* before head passes the slot.
LEMMA ReleaseDrops ==
    ASSUME IInv, IInv', NEW t \in Threads, NEW i \in owns[t], Release(t, i)
    PROVE  Regions!Next
<1> USE DEF IInv
<1> DEFINE c == SlotOf(i).refs - 1
           S == UNION {owns'[u] : u \in Threads}
<1>1. /\ tail' = tail
      /\ owns' = [owns EXCEPT ![t] = @ \ {i}]
      /\ slots' = [slots EXCEPT ![i % SlotCount].refs = c]
  BY DEF Release, SlotOf
<1> HIDE DEF c
<1>2. i \in Window /\ i \in Live
  BY OwnedInWindow, LiveIsOwned
<1>3. \A k \in Live : SlotOf(k)'.start = SlotOf(k).start /\ SlotOf(k)'.end = SlotOf(k).end
  BY <1>1, <1>2, RefsWrite, LiveIsOwned
<1>4. Live' = S
  BY LiveIsOwnedNext
<1>5. S \subseteq Live
  <2>1. \A u \in Threads : owns'[u] \subseteq owns[u]
    BY <1>1 DEF TypeOK
  <2> QED
    BY <2>1, LiveIsOwned
<1> HIDE DEF S
<1>6. Region' = [k \in S |-> Region[k]]
  <2>1. Region' = [k \in S |-> [lo |-> SlotOf(k)'.start, hi |-> SlotOf(k)'.end]]
    BY <1>4 DEF Region, SlotOf
  <2>2. \A k \in S : [lo |-> SlotOf(k)'.start, hi |-> SlotOf(k)'.end] = Region[k]
    BY <1>3, <1>5, RegionAt
  <2> QED
    BY <2>1, <2>2
<1>7. Regions!Drop(t, i)
  BY <1>1, <1>6 DEF Regions!Drop, S
<1> QED
  BY <1>2, <1>7, RegionAt DEF Regions!Next, Regions!InUse

\* Every step is an operation on the regions or leaves them as they are.
LEMMA StepImplements ==
    ASSUME IInv, IInv', TailBounded, Next, ~ lapped'
    PROVE  Regions!Next \/ UNCHANGED <<Region, owns>>
<1> USE DEF IInv
<1>0. SlotCount \in Nat /\ head \in Nat /\ tail \in Nat /\ seenHead[Producer] \in Nat
      /\ seenHead[Producer] <= head
  BY SlotCountAssumption, ThreadNames DEF Control, TypeOK
<1>1. ASSUME UNCHANGED <<slots, owns>>
      PROVE  UNCHANGED <<Region, owns>>
  BY <1>1, RegionFrame DEF SlotOf
<1>2. ASSUME NEW r, slots' = [slots EXCEPT ![tail % SlotCount] = r], tail' = tail,
             UNCHANGED owns, tail - head < SlotCount
      PROVE  UNCHANGED <<Region, owns>>
  <2>1. \A i \in Live : SlotOf(i)' = SlotOf(i)
    BY <1>2, TailSlotWrite, LiveIsOwned
  <2> QED
    BY <1>2, <2>1, RegionFrame
<1>3. ASSUME AllocDecide(readCursor)
      PROVE  UNCHANGED <<Region, owns>>
  <2>1. CASE AllocFits(readCursor)
    <3>1. tail - seenHead[Producer] < SlotCount
      BY <2>1 DEF AllocFits
    <3>2. tail - head < SlotCount
      BY <1>0, <3>1
    <3> DEFINE r == [start |-> write, end |-> write + req.n, refs |-> 1]
    <3>3. slots' = [slots EXCEPT ![tail % SlotCount] = r] /\ tail' = tail /\ UNCHANGED owns
      BY <1>3, <2>1 DEF AllocDecide, AllocTake
    <3> HIDE DEF r
    <3> QED
      BY <1>2, <3>2, <3>3
  <2>2. CASE ~ AllocFits(readCursor)
    BY <1>1, <1>3, <2>2 DEF AllocDecide, AllocNil
  <2> QED
    BY <2>1, <2>2
<1>4. CASE AllocFillWaste
  <2> DEFINE r == [start |-> write, end |-> Cap, refs |-> 0]
  <2>1. /\ slots' = [slots EXCEPT ![tail % SlotCount] = r] /\ tail' = tail /\ UNCHANGED owns
        /\ tail - seenHead[Producer] < SlotCount - 1
    BY <1>4 DEF AllocFillWaste
  <2>2. tail - head < SlotCount
    BY <1>0, <2>1
  <2> HIDE DEF r
  <2> QED
    BY <1>2, <2>1, <2>2
<1>5. CASE AllocPublish
  BY <1>5, PublishObtains
<1>6. CASE ExtendEnd
  <2>1. CASE ExtendFits
    BY <1>6, <2>1, ExtendGrows
  <2>2. CASE ~ ExtendFits
    BY <1>1, <1>6, <2>2 DEF ExtendEnd
  <2> QED
    BY <2>1, <2>2
<1>7. ASSUME \/ \E n \in Sizes : AllocBegin(n)
             \/ AllocNoWasteSlot \/ AllocWrap \/ AllocRehead
             \/ \E i \in owns[Producer], n \in Sizes : ExtendBegin(i, n)
             \/ \E t \in Threads : ReleaseStep(t)
      PROVE  UNCHANGED <<Region, owns>>
  <2>1. UNCHANGED <<slots, owns>>
    BY <1>7 DEF ring, ghosts, AllocBegin, AllocNoWasteSlot, AllocNil, AllocWrap, AllocRehead, ExtendBegin,
       ReleaseStep, ReleaseLoadHead, ReleaseCheckTail, ReleaseCheckRefs, ReleaseCas
  <2> QED
    BY <1>1, <2>1
<1>8. AllocStraight \/ AllocWrapped => UNCHANGED <<Region, owns>>
  BY <1>3 DEF AllocStraight, AllocWrapped
<1> QED
  BY <1>4, <1>5, <1>6, <1>7, <1>8, ReleaseDrops, RetainShares DEF Next, Alloc, Extend

-----------------------------------------------------------------------------
(* Theorems *)

\* The four layers together are an invariant of every behaviour.
THEOREM InductiveInvariant == Spec => []IInv
<1>1. Init => IInv
  BY TypeInit, ControlInit, CountsInit, GeometryInit DEF IInv
<1>2. IInv /\ [Next]_vars => IInv'
  BY TypeStep, ControlStep, CountsStep, GeometryStep DEF IInv
<1> QED
  BY <1>1, <1>2, PTL DEF Spec

\* Type correctness, of the slots a concurrent Release is looking at included.
THEOREM TypeCorrectness == Spec => []TypeOK
BY InductiveInvariant, PTL DEF IInv

\* No slot is recycled while some goroutine can still reach its bytes.
THEOREM OwnedHandlesStayInWindow == Spec => []HandlesInWindow
<1>1. IInv => HandlesInWindow
  BY DEF IInv, Counts
<1> QED
  BY <1>1, InductiveInvariant, PTL

\* At most SlotCount slots are in flight, so the table never overwrites one.
THEOREM WindowFitsTable == Spec => []WindowFits
<1>1. IInv => WindowFits
  BY DEF IInv, Control
<1> QED
  BY <1>1, InductiveInvariant, PTL

\* The reference count of every slot in the window is its number of owners.
THEOREM CountsMatchOwners == Spec => []RefsCountOwners
<1>1. IInv => RefsCountOwners
  BY DEF IInv, Counts
<1> QED
  BY <1>1, InductiveInvariant, PTL

\* As long as write never wraps over slots of the lap before, two owned
\* allocations never share a byte.
THEOREM RegionsDisjointUnlessLapped == Spec => []LiveRegionsDisjointUnlessLapped
BY DisjointUnlessLapped, InductiveInvariant, PTL

\* Head never moves past a slot somebody owns.
THEOREM HeadNeverSkipsLiveSlots == Spec => HeadSkipsOnlyDoneSlots
<1>1. ASSUME IInv, [Next]_vars
      PROVE  [head' # head =>
                 head' = head + 1 /\ head < tail /\ OwnersOf(head) = {}]_vars
  <2> USE <1>1 DEF IInv
  <2>1. ASSUME NEW t \in Threads, ReleaseCas(t), head' # head
        PROVE  head' = head + 1 /\ head < tail /\ OwnersOf(head) = {}
    <3>1. /\ head' = head + 1 /\ head < tail /\ SlotOf(head).refs = 0
      BY <2>1 DEF ReleaseCas, Counts, Control
    <3>2. head \in head .. tail - 1
      BY <3>1 DEF TypeOK
    <3>3. Cardinality(OwnersOf(head)) = 0
      BY <3>1, <3>2 DEF Counts, RefsCountOwners
    <3> QED
      BY <3>1, <3>3, OwnersFinite DEF OwnersOf
  <2>2. (\E t \in Threads : ReleaseCas(t)) \/ head' = head
    BY DEF Next, Alloc, Extend, ReleaseStep, ring, ghosts, vars, AllocBegin,
       AllocStraight, AllocNoWasteSlot, AllocFillWaste, AllocWrap, AllocRehead,
       AllocWrapped, AllocPublish, AllocDecide, ExtendBegin, ExtendEnd, Release,
       Retain, ReleaseLoadHead, ReleaseCheckTail, ReleaseCheckRefs
  <2> QED
    BY <2>1, <2>2
<1> QED
  BY <1>1, InductiveInvariant, PTL DEF Spec, HeadSkipsOnlyDoneSlots

\* When no call is in progress the oldest slot is owned or the waste of a wrap:
\* whoever loses the swap, done slots never stay at the head.
THEOREM NoAdvanceIsLost == Spec => []NoLostAdvance
<1>1. Init => DoneHeadIsSeen
  BY DoneHeadInit
<1>2. IInv /\ DoneHeadIsSeen /\ [Next]_vars => DoneHeadIsSeen'
  BY DoneHeadStep DEF IInv
<1>3. IInv /\ DoneHeadIsSeen => NoLostAdvance
  <2> SUFFICES ASSUME IInv, DoneHeadIsSeen, \A t \in Threads : pc[t] = "idle", head < tail,
                      head \notin waste
               PROVE  OwnersOf(head) # {}
    BY DEF NoLostAdvance
  <2>1. SlotOf(head).refs # 0
    BY DEF DoneHeadIsSeen, Returning
  <2>2. SlotOf(head).refs = Cardinality(OwnersOf(head))
    BY DEF IInv, Counts, RefsCountOwners, TypeOK
  <2> QED
    BY <2>1, <2>2, FS_EmptySet
<1> QED
  BY <1>1, <1>2, <1>3, InductiveInvariant, PTL DEF Spec

\* While no wrap laps the slots in use, every interleaving of Alloc, Extend,
\* Retain and Release is a sequence of atomic operations on regions that never
\* overlap, never move and stay until their last owner drops them.
THEOREM RingImplementsSharedRegions == NoLapSpec => ImplementsSharedRegions
<1>1. Init => IInv
  BY TypeInit, ControlInit, CountsInit, GeometryInit DEF IInv
<1>2. IInv /\ [Next /\ ~ lapped']_vars => IInv'
  BY TypeStep, ControlStep, CountsStep, GeometryStep DEF IInv
<1>3. Init => TailBounded
  BY ThreadNames DEF Init, TailBounded
<1>4. IInv /\ TailBounded /\ [Next /\ ~ lapped']_vars => TailBounded'
  BY TailBoundedStep DEF IInv
<1>5. Init => Regions!Init
  <2> SUFFICES ASSUME Init PROVE Regions!Init
    OBVIOUS
  <2>1. owns = [t \in Threads |-> {}]
    BY DEF Init
  <2>2. Live = {}
    BY <2>1 DEF Live
  <2> QED
    BY <2>1, <2>2 DEF Region, Regions!Init
<1>6. IInv /\ IInv' /\ TailBounded /\ [Next /\ ~ lapped']_vars => [Regions!Next]_<<Region, owns>>
  <2>1. UNCHANGED vars => UNCHANGED <<Region, owns>>
    BY DEF vars, Region, Live, SlotOf
  <2> QED
    BY <2>1, StepImplements
<1> QED
  BY <1>1, <1>2, <1>3, <1>4, <1>5, <1>6, PTL
  DEF NoLapSpec, ImplementsSharedRegions, Regions!Spec

-----------------------------------------------------------------------------
(* The growing ring *)

CONSTANTS InitSize, Meg, Windows, Requests, Slots, MaxAllocs
VARIABLES caps, tails, inUse, maxCap, allocs, refused

Growing == INSTANCE GrowingRing

\* The budget is the default or one that was set; every ring is large enough for
\* the smallest step, a tenth, to be a step (the encoders and depacketizers begin
\* with 16 KiB and more).
GrowingIInv ==
    /\ maxCap \in {0} \cup {Growing!RingBudgetBytes(w) : w \in Windows}
    /\ caps \in Seq(Nat) /\ caps # <<>> /\ \A i \in 1 .. Len(caps) : caps[i] >= 10
    /\ tails \in Seq(Nat) /\ Len(tails) = Len(caps)
    /\ \A h \in inUse : h.index \in Nat
    /\ Growing!GrowsToBudget

\* The budget of a window is a number of bytes.
LEMMA BudgetIsNumber ==
    ASSUME Meg \in Nat, NEW w \in Int
    PROVE  Growing!RingBudgetBytes(w) \in Int /\ Growing!DefaultMaxRingSize \in Nat
<1>1. Growing!DefaultMaxRingSize \in Nat
  BY DEF Growing!DefaultMaxRingSize
<1>2. PICK d \in Int : d = Growing!DefaultMaxRingSize * w
  BY <1>1
<1>3. d \div 150 \in Int /\ Meg \div 4 \in Int
  BY <1>2
<1> QED
  BY <1>1, <1>2, <1>3 DEF Growing!RingBudgetBytes, Growing!Greater

\* The budget is one of the sizes a ring may have at most.
LEMMA BudgetIsLargest ==
    ASSUME Meg \in Nat, Windows \subseteq Int, GrowingIInv
    PROVE  Growing!maxRingCap \in Int /\ Growing!maxRingCap \in Growing!Largest
<1>1. Growing!DefaultMaxRingSize \in Nat
  BY DEF Growing!DefaultMaxRingSize
<1>2. CASE maxCap = 0
  <2>1. Growing!maxRingCap = Growing!DefaultMaxRingSize
    BY <1>2 DEF Growing!maxRingCap
  <2> QED
    BY <1>1, <2>1 DEF Growing!Largest
<1>3. CASE maxCap \in {Growing!RingBudgetBytes(w) : w \in Windows}
  <2>1. PICK w \in Windows : maxCap = Growing!RingBudgetBytes(w)
    BY <1>3
  <2>2. maxCap \in Int
    BY <2>1, BudgetIsNumber
  <2>3. Growing!maxRingCap = maxCap \/ Growing!maxRingCap = Growing!DefaultMaxRingSize
    BY DEF Growing!maxRingCap
  <2> QED
    BY <1>1, <1>3, <2>2, <2>3 DEF Growing!Largest
<1> QED
  BY <1>2, <1>3 DEF GrowingIInv

\* A ring that grows is larger than it was and no larger than the budget, and if it
\* is smaller than the budget what was asked fits.
LEMMA GrowthIsRoom ==
    ASSUME NEW c \in Nat, c >= 10, NEW n \in Int, Meg \in Nat,
           Growing!maxRingCap \in Int, c < Growing!maxRingCap
    PROVE  LET cap == Growing!calcGrowth(c, n)
           IN  /\ cap \in Nat /\ c < cap /\ cap <= Growing!maxRingCap
               /\ n \notin 1 .. cap => n \notin 1 .. Growing!maxRingCap \/ cap >= Growing!maxRingCap
<1>1. PICK k \in {11, 13, 14, 16} : k = Growing!Tenths(c)
  BY DEF Growing!Tenths
<1>2. PICK g \in Nat : g = (c * k) \div 10 /\ g > c
  <2>1. CASE k = 11
    BY <2>1
  <2>2. CASE k = 13
    BY <2>2
  <2>3. CASE k = 14
    BY <2>3
  <2>4. CASE k = 16
    BY <2>4
  <2> QED
    BY <1>1, <2>1, <2>2, <2>3, <2>4
<1>3. PICK m \in Int : m = Growing!Greater(g, 2 * n) /\ m >= g /\ m >= 2 * n
  BY <1>2 DEF Growing!Greater
<1>4. PICK x \in Int : x = Growing!maxRingCap
  OBVIOUS
<1>5. PICK cap \in Int : cap = Growing!calcGrowth(c, n) /\ cap = (IF m < x THEN m ELSE x)
  BY <1>1, <1>2, <1>3, <1>4 DEF Growing!calcGrowth, Growing!Lesser
<1>6. cap \in Nat /\ c < cap /\ cap <= x
  BY <1>2, <1>3, <1>4, <1>5
<1>7. n \notin 1 .. cap => n \notin 1 .. x \/ cap >= x
  BY <1>3, <1>4, <1>5
<1> QED
  BY <1>4, <1>5, <1>6, <1>7

\* A request answered by the current ring.
LEMMA TakenStep ==
    ASSUME GrowingIInv, NEW n \in Int, Growing!Taken(n)
    PROVE  GrowingIInv'
<1>1. PICK c \in Nat : c = Len(caps) /\ c >= 1 /\ DOMAIN caps = 1 .. c /\ DOMAIN tails = 1 .. c
  BY DEF GrowingIInv
<1>2. PICK t \in Nat : t = tails[c]
  BY <1>1 DEF GrowingIInv
<1>3. /\ tails' = [tails EXCEPT ![c] = t + 1]
      /\ inUse' = inUse \cup {[ring |-> c, index |-> t]}
      /\ UNCHANGED <<caps, maxCap, refused>>
  BY <1>1, <1>2 DEF Growing!Taken, Growing!Current
<1>4. tails' \in Seq(Nat) /\ Len(tails') = c
  BY <1>1, <1>2, <1>3 DEF GrowingIInv
<1>5. \A r \in 1 .. c : tails'[r] = IF r = c THEN t + 1 ELSE tails[r]
  BY <1>1, <1>3
<1>6. ASSUME NEW h \in inUse'
      PROVE  h.index \in Nat /\ h.ring \in 1 .. c /\ h.index < tails'[h.ring]
  <2>1. CASE h \in inUse
    <3>1. h.index \in Nat /\ h.ring \in 1 .. c /\ h.index < tails[h.ring]
      BY <1>1, <2>1 DEF GrowingIInv, Growing!GrowsToBudget, Growing!Current
    <3> QED
      BY <1>2, <1>5, <3>1
  <2>2. CASE h = [ring |-> c, index |-> t]
    BY <1>1, <1>2, <1>5, <2>2
  <2> QED
    BY <1>3, <2>1, <2>2
<1>7. Growing!GrowsToBudget'
  BY <1>1, <1>3, <1>6
  DEF GrowingIInv, Growing!GrowsToBudget, Growing!Current, Growing!Largest
<1> QED
  BY <1>1, <1>3, <1>4, <1>6, <1>7 DEF GrowingIInv

\* A request refused for the budget: there is no more, whatever was asked.
LEMMA AtBudgetStep ==
    ASSUME GrowingIInv, NEW n \in Int, Growing!AtBudget(n)
    PROVE  GrowingIInv'
<1>1. /\ refused' = refused \cup {[n |-> n, cap |-> caps[Len(caps)], max |-> Growing!maxRingCap]}
      /\ caps[Len(caps)] >= Growing!maxRingCap
      /\ UNCHANGED <<caps, tails, inUse, maxCap>>
  BY DEF Growing!AtBudget, Growing!Refusal, Growing!Current
<1>2. \A r \in refused' : r.n \notin 1 .. r.max \/ r.cap >= r.max
  BY <1>1 DEF GrowingIInv, Growing!GrowsToBudget
<1>3. Growing!GrowsToBudget'
  BY <1>1, <1>2 DEF GrowingIInv, Growing!GrowsToBudget, Growing!Current, Growing!Largest
<1> QED
  BY <1>1, <1>3 DEF GrowingIInv

\* A request for which a larger ring is made, whether it fits there or not.
LEMMA GrowStep ==
    ASSUME GrowingIInv, NEW n \in Int, Growing!Grow(n), Meg \in Nat, Windows \subseteq Int
    PROVE  GrowingIInv'
<1>1. PICK c \in Nat : c = Len(caps) /\ c >= 1 /\ DOMAIN caps = 1 .. c /\ DOMAIN tails = 1 .. c
  BY DEF GrowingIInv
<1>2. caps[c] \in Nat /\ caps[c] >= 10
  BY <1>1 DEF GrowingIInv
<1>3. PICK x \in Growing!Largest : x = Growing!maxRingCap /\ x \in Int
  BY BudgetIsLargest
<1>4. PICK cap : cap = Growing!calcGrowth(caps[c], n)
  OBVIOUS
<1>5. /\ caps[c] < x /\ caps' = Append(caps, cap) /\ maxCap' = maxCap
      /\ tails' = Append(tails, IF n \in 1 .. cap THEN 1 ELSE 0)
      /\ n \in 1 .. cap => /\ inUse' = inUse \cup {[ring |-> c + 1, index |-> 0]}
                          /\ refused' = refused
      /\ n \notin 1 .. cap => /\ inUse' = inUse
                             /\ refused' = refused \cup {[n |-> n, cap |-> cap, max |-> x]}
  BY <1>1, <1>3, <1>4 DEF Growing!Grow, Growing!Refusal, Growing!Current
<1>6. /\ cap \in Nat /\ caps[c] < cap /\ cap <= x
      /\ n \notin 1 .. cap => n \notin 1 .. x \/ cap >= x
  BY <1>2, <1>3, <1>4, <1>5, GrowthIsRoom
<1>7. /\ caps' \in Seq(Nat) /\ caps' # <<>> /\ Len(caps') = c + 1
      /\ \A i \in 1 .. c + 1 : caps'[i] = IF i = c + 1 THEN cap ELSE caps[i]
  <2>1. caps \in Seq(Nat) /\ Len(caps) = c
    BY <1>1 DEF GrowingIInv
  <2>2. caps' = Append(caps, cap) /\ cap \in Nat
    BY <1>5, <1>6
  <2> QED
    BY <1>1, <2>1, <2>2, AppendProperties
<1>8. PICK s \in Nat : s = (IF n \in 1 .. cap THEN 1 ELSE 0)
  OBVIOUS
<1>9. /\ tails' \in Seq(Nat) /\ Len(tails') = c + 1
      /\ \A i \in 1 .. c + 1 : tails'[i] = IF i = c + 1 THEN s ELSE tails[i]
  <2>1. tails \in Seq(Nat) /\ Len(tails) = c
    BY <1>1 DEF GrowingIInv
  <2>2. tails' = Append(tails, s)
    BY <1>5, <1>8
  <2> QED
    BY <1>1, <2>1, <2>2, AppendProperties
<1>10. ASSUME NEW h \in inUse'
       PROVE  h.index \in Nat /\ h.ring \in 1 .. c + 1 /\ h.index < tails'[h.ring]
  <2>1. CASE h \in inUse
    <3>1. h.index \in Nat /\ h.ring \in 1 .. c /\ h.index < tails[h.ring]
      BY <1>1, <2>1 DEF GrowingIInv, Growing!GrowsToBudget, Growing!Current
    <3>2. h.ring \in 1 .. c + 1 /\ h.ring # c + 1
      BY <3>1
    <3> QED
      BY <1>9, <3>1, <3>2
  <2>2. CASE h = [ring |-> c + 1, index |-> 0] /\ n \in 1 .. cap
    <3>1. s = 1 /\ c + 1 \in 1 .. c + 1
      BY <1>8, <2>2
    <3> QED
      BY <1>9, <2>2, <3>1
  <2> QED
    BY <1>5, <2>1, <2>2
<1>11. \A r \in refused' : r.n \notin 1 .. r.max \/ r.cap >= r.max
  BY <1>5, <1>6 DEF GrowingIInv, Growing!GrowsToBudget
<1>12. ASSUME NEW i \in 2 .. c + 1
       PROVE  caps'[i - 1] < caps'[i]
  <2>1. CASE i = c + 1
    <3>1. i - 1 = c /\ c \in 1 .. c + 1 /\ c # c + 1 /\ i \in 1 .. c + 1
      BY <1>1, <2>1
    <3> QED
      BY <1>6, <1>7, <2>1, <3>1
  <2>2. CASE i # c + 1
    <3>1. i \in 2 .. c /\ i \in 1 .. c + 1 /\ i - 1 \in 1 .. c + 1 /\ i - 1 # c + 1
      BY <1>1, <2>2
    <3>2. caps[i - 1] < caps[i]
      BY <1>1, <3>1 DEF GrowingIInv, Growing!GrowsToBudget, Growing!Current
    <3> QED
      BY <1>7, <2>2, <3>1, <3>2
  <2> QED
    BY <2>1, <2>2
<1>13. ASSUME NEW i \in 1 .. c + 1
       PROVE  caps'[i] >= 10 /\ \E m \in Growing!Largest : caps'[i] <= m
  <2>1. CASE i = c + 1
    BY <1>2, <1>3, <1>6, <1>7, <2>1
  <2>2. CASE i # c + 1
    <3>1. i \in 1 .. c
      BY <1>1, <2>2
    <3>2. caps[i] >= 10 /\ \E m \in Growing!Largest : caps[i] <= m
      BY <1>1, <3>1 DEF GrowingIInv, Growing!GrowsToBudget, Growing!Current
    <3> QED
      BY <1>7, <2>2, <3>2
  <2> QED
    BY <2>1, <2>2
<1>14. Growing!GrowsToBudget'
  BY <1>7, <1>10, <1>11, <1>12, <1>13 DEF Growing!GrowsToBudget, Growing!Current, Growing!Largest
<1> QED
  BY <1>5, <1>7, <1>9, <1>10, <1>13, <1>14 DEF GrowingIInv

\* A ring that refuses a request has grown to its budget, or what was asked is
\* nothing or more than the budget; each ring is larger than the one before it, none
\* is larger than a budget that was set, and a handle is of a ring that was made:
\* for every window, every request and every slot table.
THEOREM RingGrowsToBudget ==
    ASSUME InitSize \in Nat, InitSize >= 10, Meg \in Nat,
           Windows \subseteq Int, Requests \subseteq Int
    PROVE  Growing!Spec => []Growing!GrowsToBudget
<1>1. Growing!Init => GrowingIInv
  <2> SUFFICES ASSUME Growing!Init PROVE GrowingIInv
    OBVIOUS
  <2>1. /\ caps = <<InitSize>> /\ Len(caps) = 1 /\ caps[1] = InitSize /\ caps \in Seq(Nat)
        /\ Len(tails) = 1 /\ tails \in Seq(Nat)
        /\ inUse = {} /\ refused = {} /\ maxCap = 0
    BY DEF Growing!Init
  <2>2. InitSize \in Growing!Largest
    BY DEF Growing!Largest
  <2>3. Growing!GrowsToBudget
    BY <2>1, <2>2 DEF Growing!GrowsToBudget, Growing!Current
  <2> QED
    BY <2>1, <2>3 DEF GrowingIInv
<1>2. GrowingIInv /\ [Growing!Next]_(Growing!growingVars) => GrowingIInv'
  <2> SUFFICES ASSUME GrowingIInv, [Growing!Next]_(Growing!growingVars) PROVE GrowingIInv'
    OBVIOUS
  <2>1. ASSUME NEW n \in Requests, Growing!Alloc(n)
        PROVE  GrowingIInv'
    <3>1. n \in Int
      OBVIOUS
    <3>2. Growing!Taken(n) \/ Growing!AtBudget(n) \/ Growing!Grow(n)
      BY <2>1 DEF Growing!Alloc
    <3> QED
      BY <3>1, <3>2, TakenStep, AtBudgetStep, GrowStep
  <2>2. ASSUME NEW w \in Windows, Growing!SetMaxRingBytes(w)
        PROVE  GrowingIInv'
    <3>1. maxCap' = Growing!RingBudgetBytes(w) /\ UNCHANGED <<caps, tails, inUse, refused>>
      BY <2>2 DEF Growing!SetMaxRingBytes
    <3>2. Growing!GrowsToBudget'
      BY <3>1 DEF GrowingIInv, Growing!GrowsToBudget, Growing!Current, Growing!Largest
    <3> QED
      BY <3>1, <3>2 DEF GrowingIInv
  <2>3. ASSUME NEW h \in inUse, Growing!Release(h)
        PROVE  GrowingIInv'
    <3>1. inUse' \subseteq inUse /\ UNCHANGED <<caps, tails, maxCap, refused>>
      BY <2>3 DEF Growing!Release
    <3>2. Growing!GrowsToBudget'
      BY <3>1 DEF GrowingIInv, Growing!GrowsToBudget, Growing!Current, Growing!Largest
    <3> QED
      BY <3>1, <3>2 DEF GrowingIInv
  <2>4. CASE UNCHANGED Growing!growingVars
    BY <2>4 DEF GrowingIInv, Growing!growingVars, Growing!GrowsToBudget, Growing!Current, Growing!Largest
  <2> QED
    BY <2>1, <2>2, <2>3, <2>4 DEF Growing!Next
<1>3. GrowingIInv => Growing!GrowsToBudget
  BY DEF GrowingIInv
<1> QED
  BY <1>1, <1>2, <1>3, PTL DEF Growing!Spec

-----------------------------------------------------------------------------
(* The depacketizers, whose packets are in slots of the ring *)

CONSTANTS Mtu, Codecs, WrapperFrames, MaxUnits, MaxFaults
VARIABLES kind, net, d, held, out, expected, units, faults, closed

Receiver == INSTANCE RTPReceiver

DepacketizerFields == {"queue", "fu", "started", "key", "slice", "par", "codec", "frags", "ts",
                       "head", "restart", "cache", "refs", "err"}
PacketFields == {"data", "key", "codec", "slot"}

\* A packet in a slot of the first n, or on the heap; a list of them.
InSlots(p, n) == DOMAIN p = PacketFields /\ p.slot \in 0 .. n
Listed(q, n) == \E X : q \in Seq(X) /\ \A x \in X : InSlots(x, n)

\* A depacketizer whose packets are in slots that were allocated.
Good(st) ==
    /\ DOMAIN st = DepacketizerFields
    /\ st.refs \in Seq(Int)
    /\ Listed(st.queue, Len(st.refs))
    /\ st.slice = Receiver!NoSlice \/ InSlots(st.slice, Len(st.refs))

\* How many packets of a list, and of a depacketizer, are in slot s.
Waiting(q, s) == Cardinality({i \in DOMAIN q : q[i].slot = s})
InSlice(st, s) == IF st.slice # Receiver!NoSlice /\ st.slice.slot = s THEN 1 ELSE 0
Kept(st, s) == Waiting(st.queue, s) + InSlice(st, s)

\* The references of slot s; one that was not allocated has none.
Refs(st, s) == IF s \in 1 .. Len(st.refs) THEN st.refs[s] ELSE 0

\* From st to r packets may come, each in a slot of its own, and move, and none is
\* lost: what slot s has in references but not in packets stays.
Keeps(st, r) ==
    /\ Good(r) /\ Len(st.refs) <= Len(r.refs)
    /\ \A s \in Nat \ {0} : Refs(r, s) - Kept(r, s) = Refs(st, s) - Kept(st, s)

\* The operators of the library the model uses are these.
LEMMA ReceiverCardinality ==
    ASSUME NEW S
    PROVE  Receiver!Cardinality(S) = Cardinality(S)
BY DEF Receiver!Cardinality, Cardinality

\* So is the greatest of a set.
LEMMA ReceiverMax ==
    ASSUME NEW S
    PROVE  Receiver!Max(S) = Max(S)
BY DEF Receiver!Max, Max

\* The packets of a list in a slot are counted.
LEMMA WaitingType ==
    ASSUME NEW n \in Nat, NEW q, Listed(q, n), NEW s
    PROVE  Waiting(q, s) \in Nat
<1>1. PICK X : q \in Seq(X)
  BY DEF Listed
<1>2. PICK S : S = {x \in X : x.slot = s}
  OBVIOUS
<1>3. \A i \in DOMAIN q : q[i] \in X
  BY <1>1, ElementOfSeq
<1>4. {i \in DOMAIN q : q[i].slot = s} = PlacesIn(q, S)
  BY <1>2, <1>3 DEF PlacesIn
<1>5. CountIn(q, S) \in Nat
  BY <1>1, CountType
<1> QED
  BY <1>4, <1>5 DEF Waiting, CountIn

\* One packet more at the end.
LEMMA WaitingAppend ==
    ASSUME NEW n \in Nat, NEW q, Listed(q, n), NEW p, InSlots(p, n), NEW s
    PROVE  /\ Listed(Append(q, p), n)
           /\ Waiting(Append(q, p), s) = Waiting(q, s) + (IF p.slot = s THEN 1 ELSE 0)
<1>1. PICK X : q \in Seq(X) /\ \A x \in X : InSlots(x, n)
  BY DEF Listed
<1>2. PICK Y : Y = X \cup {p}
  OBVIOUS
<1>3. q \in Seq(Y) /\ p \in Y /\ \A x \in Y : InSlots(x, n)
  BY <1>1, <1>2
<1>4. PICK u : u = Append(q, p)
  OBVIOUS
<1>5. u \in Seq(Y)
  BY <1>3, <1>4, AppendProperties
<1>6. Listed(u, n)
  BY <1>3, <1>5 DEF Listed
<1>7. PICK S : S = {x \in Y : x.slot = s}
  OBVIOUS
<1>8. {i \in DOMAIN q : q[i].slot = s} = PlacesIn(q, S)
  <2>1. \A i \in DOMAIN q : q[i] \in Y
    BY <1>3, ElementOfSeq
  <2> QED
    BY <1>7, <2>1 DEF PlacesIn
<1>9. {i \in DOMAIN u : u[i].slot = s} = PlacesIn(u, S)
  <2>1. \A i \in DOMAIN u : u[i] \in Y
    BY <1>5, ElementOfSeq
  <2> QED
    BY <1>7, <2>1 DEF PlacesIn
<1>10. CountIn(u, S) = CountIn(q, S) + (IF p \in S THEN 1 ELSE 0)
  BY <1>3, <1>4, CountAppend
<1>11. p \in S <=> p.slot = s
  BY <1>3, <1>7
<1>12. Waiting(q, s) = CountIn(q, S) /\ Waiting(u, s) = CountIn(u, S)
  BY <1>8, <1>9 DEF Waiting, CountIn
<1> QED
  BY <1>4, <1>6, <1>10, <1>11, <1>12

\* One packet less at the front.
LEMMA WaitingTail ==
    ASSUME NEW n \in Nat, NEW q, Listed(q, n), q # <<>>, NEW s
    PROVE  /\ Listed(Tail(q), n) /\ InSlots(Head(q), n)
           /\ Waiting(q, s) = (IF Head(q).slot = s THEN 1 ELSE 0) + Waiting(Tail(q), s)
<1>1. PICK X : q \in Seq(X) /\ \A x \in X : InSlots(x, n)
  BY DEF Listed
<1>2. PICK p, u : p = Head(q) /\ u = Tail(q)
  OBVIOUS
<1>3. p \in X /\ u \in Seq(X)
  BY <1>1, <1>2, HeadTailProperties
<1>4. Listed(u, n) /\ InSlots(p, n)
  BY <1>1, <1>3 DEF Listed
<1>7. PICK S : S = {x \in X : x.slot = s}
  OBVIOUS
<1>8. {i \in DOMAIN q : q[i].slot = s} = PlacesIn(q, S)
  <2>1. \A i \in DOMAIN q : q[i] \in X
    BY <1>1, ElementOfSeq
  <2> QED
    BY <1>7, <2>1 DEF PlacesIn
<1>9. {i \in DOMAIN u : u[i].slot = s} = PlacesIn(u, S)
  <2>1. \A i \in DOMAIN u : u[i] \in X
    BY <1>3, ElementOfSeq
  <2> QED
    BY <1>7, <2>1 DEF PlacesIn
<1>10. CountIn(q, S) = (IF p \in S THEN 1 ELSE 0) + CountIn(u, S)
  BY <1>1, <1>2, CountTail
<1>11. p \in S <=> p.slot = s
  BY <1>3, <1>7
<1>12. Waiting(q, s) = CountIn(q, S) /\ Waiting(u, s) = CountIn(u, S)
  BY <1>8, <1>9 DEF Waiting, CountIn
<1> QED
  BY <1>2, <1>4, <1>10, <1>11, <1>12

(* What the depacketizers and the sender fold over a list *)

\* One step of each of the folds: a NAL unit of an H.264 or of an H.265 payload, an
\* access unit of audio, a packet that is released, a NAL unit that is sent.
Apply(w, how, st, e) ==
    CASE w = "h264" -> Receiver!Nal264(st, e, how)
      [] w = "h265" -> Receiver!Nal265(st, e, how)
      [] w = "audio" -> Receiver!AddPacket(st, Receiver!Whole(e), FALSE, how)
      [] w = "free" -> Receiver!Free(st, e.slot)
      [] w = "send" -> st \o Receiver!Payloads(how, e)

\* The function that folds over the subsets of the places in q.
FoldStep(w, how, base, q, h, t) ==
    IF t = {} THEN base ELSE Apply(w, how, h[t \ {Max(t)}], q[Max(t)])

IsFold(w, how, base, q, h) == h = [t \in SUBSET DOMAIN q |-> FoldStep(w, how, base, q, h, t)]

\* There is such a function.
LEMMA FoldExists ==
    ASSUME NEW w, NEW how, NEW base, NEW q, NEW n \in Nat, DOMAIN q = 1 .. n
    PROVE  \E h : IsFold(w, how, base, q, h)
<1> DEFINE Solves(k, h) == \A t \in SUBSET (1 .. n) :
                            Cardinality(t) <= k => h[t] = FoldStep(w, how, base, q, h, t)
           G == {k \in Nat : \E h : Solves(k, h)}
<1>1. \A t \in SUBSET (1 .. n) :
         IsFiniteSet(t) /\ Cardinality(t) \in Nat /\ Cardinality(t) <= n
  <2>1. IsFiniteSet(1 .. n) /\ Cardinality(1 .. n) = n
    BY FS_Interval
  <2>2. \A t \in SUBSET (1 .. n) :
           IsFiniteSet(t) /\ Cardinality(t) <= Cardinality(1 .. n)
    BY <2>1, FS_Subset
  <2> QED
    BY <2>1, <2>2, FS_CardinalityType
<1>2. ASSUME NEW t \in SUBSET (1 .. n), t # {}
      PROVE  Max(t) \in t
  <2>1. t \in SUBSET Nat /\ \A x \in t : x <= n
    OBVIOUS
  <2> QED
    BY <1>2, <2>1, MaxProperties
<1>3. 0 \in G
  <2>1. \A t \in SUBSET (1 .. n) : Cardinality(t) <= 0 => t = {}
    BY <1>1, FS_EmptySet
  <2>2. PICK h : h = [t \in SUBSET (1 .. n) |-> base]
    OBVIOUS
  <2>3. Solves(0, h)
    BY <2>1, <2>2 DEF FoldStep
  <2> QED
    BY <2>3
<1>4. ASSUME NEW k \in G
      PROVE  k + 1 \in G
  <2>1. PICK h : Solves(k, h)
    OBVIOUS
  <2>2. PICK f : f = [t \in SUBSET (1 .. n) |-> FoldStep(w, how, base, q, h, t)]
    OBVIOUS
  <2>3. ASSUME NEW t \in SUBSET (1 .. n), Cardinality(t) <= k + 1
        PROVE  f[t] = FoldStep(w, how, base, q, f, t)
    <3>1. CASE t = {}
      BY <2>2, <3>1 DEF FoldStep
    <3>2. CASE t # {}
      <4>1. PICK c \in t : c = Max(t)
        BY <1>2, <3>2
      <4>2. Cardinality(t \ {c}) = Cardinality(t) - 1
        BY <1>1, <4>1, FS_RemoveElement
      <4>3. t \ {c} \in SUBSET (1 .. n) /\ Cardinality(t \ {c}) <= k
        BY <1>1, <2>3, <4>2
      <4>4. f[t \ {c}] = h[t \ {c}]
        BY <2>1, <2>2, <4>3
      <4>5. f[t] = Apply(w, how, h[t \ {c}], q[c])
        BY <2>2, <3>2, <4>1 DEF FoldStep
      <4> QED
        BY <3>2, <4>1, <4>4, <4>5 DEF FoldStep
    <3> QED
      BY <3>1, <3>2
  <2>4. Solves(k + 1, f)
    BY <2>3
  <2> QED
    BY <2>4
<1>5. n \in G
  <2>1. G \in SUBSET Nat
    OBVIOUS
  <2> HIDE DEF G
  <2> QED
    BY <1>3, <1>4, <2>1, InductionOnNat
<1>6. PICK h : Solves(n, h)
  BY <1>5
<1>7. PICK f : f = [t \in SUBSET (1 .. n) |-> h[t]]
  OBVIOUS
<1>8. ASSUME NEW t \in SUBSET (1 .. n)
      PROVE  h[t] = FoldStep(w, how, base, q, f, t)
  <2>1. h[t] = FoldStep(w, how, base, q, h, t)
    BY <1>1, <1>6
  <2>2. CASE t = {}
    BY <2>1, <2>2 DEF FoldStep
  <2>3. CASE t # {}
    <3>1. PICK c \in t : c = Max(t)
      BY <1>2, <2>3
    <3>2. f[t \ {c}] = h[t \ {c}]
      BY <1>7
    <3> QED
      BY <2>1, <2>3, <3>1, <3>2 DEF FoldStep
  <2> QED
    BY <2>2, <2>3
<1>9. f = [t \in SUBSET (1 .. n) |-> FoldStep(w, how, base, q, f, t)]
  <2>1. [t \in SUBSET (1 .. n) |-> h[t]]
          = [t \in SUBSET (1 .. n) |-> FoldStep(w, how, base, q, f, t)]
    BY <1>8
  <2> QED
    BY <1>7, <2>1
<1> QED
  BY <1>9 DEF IsFold

\* r is what comes of base after a step for each element of q, from the first.
Folds(w, how, base, q, r) ==
    \E g : /\ g[0] = base /\ r = g[Len(q)]
           /\ \A k \in 0 .. Len(q) - 1 : g[k + 1] = Apply(w, how, g[k], q[k + 1])

\* What the fold over all of q is.
Folded(w, how, base, q) == (CHOOSE h : IsFold(w, how, base, q, h))[DOMAIN q]

\* It comes of the steps, one after the other.
LEMMA FoldedFolds ==
    ASSUME NEW w, NEW how, NEW base, NEW X, NEW q \in Seq(X)
    PROVE  Folds(w, how, base, q, Folded(w, how, base, q))
<1>1. PICK n \in Nat : n = Len(q) /\ DOMAIN q = 1 .. n
  OBVIOUS
<1>2. PICK h : h = (CHOOSE f : IsFold(w, how, base, q, f))
  OBVIOUS
<1>3. IsFold(w, how, base, q, h)
  <2>1. \E f : IsFold(w, how, base, q, f)
    BY <1>1, FoldExists
  <2> QED
    BY <1>2, <2>1, Zenon
<1>4. \A t \in SUBSET (1 .. n) : h[t] = FoldStep(w, how, base, q, h, t)
  BY <1>1, <1>3 DEF IsFold
<1>5. PICK g : g = [k \in Nat |-> h[1 .. k]]
  OBVIOUS
<1>6. g[0] = base
  <2>1. 1 .. 0 = {} /\ {} \in SUBSET (1 .. n)
    OBVIOUS
  <2> QED
    BY <1>4, <1>5, <2>1 DEF FoldStep
<1>7. Folded(w, how, base, q) = g[n]
  BY <1>1, <1>2, <1>5 DEF Folded
<1>8. ASSUME NEW k \in 0 .. n - 1
      PROVE  g[k + 1] = Apply(w, how, g[k], q[k + 1])
  <2>1. k \in Nat /\ k + 1 \in Nat /\ k + 1 <= n
    OBVIOUS
  <2>2. PICK t \in SUBSET (1 .. n) : t = 1 .. k + 1
    BY <2>1
  <2>3. /\ \A x \in t : x \in Nat /\ 1 <= x /\ x <= k + 1
        /\ \A x \in Nat : 1 <= x /\ x <= k + 1 => x \in t
    BY <2>1, <2>2
  <2>4. Max(t) = k + 1
    <3>1. Max(t) \in t /\ \A x \in t : x <= Max(t)
      <4>1. t \in SUBSET Nat /\ t # {} /\ \A x \in t : x <= k + 1
        BY <2>3, <2>1
      <4> QED
        BY <2>1, <4>1, MaxProperties
    <3>2. k + 1 \in t
      BY <2>1, <2>3
    <3>3. PICK m \in Nat : m = Max(t)
      BY <2>3, <3>1
    <3>4. m <= k + 1 /\ k + 1 <= m
      BY <2>3, <3>1, <3>2, <3>3
    <3> QED
      BY <2>1, <3>3, <3>4
  <2>5. t \ {k + 1} = 1 .. k /\ t # {}
    <3>1. \A x \in t : x # k + 1 => x \in 1 .. k
      BY <2>1, <2>3
    <3>2. \A x \in 1 .. k : x \in t /\ x # k + 1
      BY <2>1, <2>3
    <3>3. k + 1 \in t
      BY <2>1, <2>3
    <3>4. t \ {k + 1} = 1 .. k
      BY <3>1, <3>2
    <3> QED
      BY <3>3, <3>4
  <2>6. h[t] = Apply(w, how, h[1 .. k], q[k + 1])
    BY <1>4, <2>4, <2>5 DEF FoldStep
  <2> QED
    BY <1>5, <2>1, <2>2, <2>6
<1> QED
  BY <1>1, <1>6, <1>7, <1>8 DEF Folds

\* Each of the folds of the model is such a fold: the NAL units of an H.264 payload.
LEMMA Fold264 ==
    ASSUME NEW st, NEW q, NEW how
    PROVE  Receiver!FoldLeft(LAMBDA s, nal : Receiver!Nal264(s, nal, how), st, q)
             = Folded("h264", how, st, q)
<1> DEFINE G(h) == [t \in SUBSET DOMAIN q |->
                      IF t = {} THEN st
                      ELSE Receiver!Nal264(h[t \ {Receiver!Max(t)}], q[Receiver!Max(t)], how)]
           F(h) == [t \in SUBSET DOMAIN q |-> FoldStep("h264", how, st, q, h, t)]
<1>1. \A h : G(h) = F(h)
  BY ReceiverMax DEF FoldStep, Apply
<1>2. Receiver!FoldLeft(LAMBDA s, nal : Receiver!Nal264(s, nal, how), st, q)
        = (CHOOSE h : h = G(h))[DOMAIN q]
  BY DEF Receiver!FoldLeft, Receiver!MapThenFoldSet
<1>3. Folded("h264", how, st, q) = (CHOOSE h : h = F(h))[DOMAIN q]
  BY DEF Folded, IsFold
<1> HIDE DEF F, G
<1>4. (CHOOSE h : h = G(h)) = (CHOOSE h : h = F(h))
  BY <1>1
<1> QED
  BY <1>2, <1>3, <1>4

\* The NAL units of an H.265 payload.
LEMMA Fold265 ==
    ASSUME NEW st, NEW q, NEW how
    PROVE  Receiver!FoldLeft(LAMBDA s, e : Receiver!Nal265(s, e, how), st, q)
             = Folded("h265", how, st, q)
<1> DEFINE G(h) == [t \in SUBSET DOMAIN q |->
                      IF t = {} THEN st
                      ELSE Receiver!Nal265(h[t \ {Receiver!Max(t)}], q[Receiver!Max(t)], how)]
           F(h) == [t \in SUBSET DOMAIN q |-> FoldStep("h265", how, st, q, h, t)]
<1>1. \A h : G(h) = F(h)
  BY ReceiverMax DEF FoldStep, Apply
<1>2. Receiver!FoldLeft(LAMBDA s, e : Receiver!Nal265(s, e, how), st, q)
        = (CHOOSE h : h = G(h))[DOMAIN q]
  BY DEF Receiver!FoldLeft, Receiver!MapThenFoldSet
<1>3. Folded("h265", how, st, q) = (CHOOSE h : h = F(h))[DOMAIN q]
  BY DEF Folded, IsFold
<1> HIDE DEF F, G
<1>4. (CHOOSE h : h = G(h)) = (CHOOSE h : h = F(h))
  BY <1>1
<1> QED
  BY <1>2, <1>3, <1>4

\* The access units of an audio payload.
LEMMA FoldAudio ==
    ASSUME NEW st, NEW q, NEW how
    PROVE  Receiver!FoldLeft(LAMBDA s, e : Receiver!AddPacket(s, Receiver!Whole(e), FALSE, how),
                             st, q)
             = Folded("audio", how, st, q)
<1> DEFINE G(h) == [t \in SUBSET DOMAIN q |->
                      IF t = {} THEN st
                      ELSE Receiver!AddPacket(h[t \ {Receiver!Max(t)}],
                                              Receiver!Whole(q[Receiver!Max(t)]), FALSE, how)]
           F(h) == [t \in SUBSET DOMAIN q |-> FoldStep("audio", how, st, q, h, t)]
<1>1. \A h : G(h) = F(h)
  BY ReceiverMax DEF FoldStep, Apply
<1>2. Receiver!FoldLeft(LAMBDA s, e : Receiver!AddPacket(s, Receiver!Whole(e), FALSE, how), st, q)
        = (CHOOSE h : h = G(h))[DOMAIN q]
  BY DEF Receiver!FoldLeft, Receiver!MapThenFoldSet
<1>3. Folded("audio", how, st, q) = (CHOOSE h : h = F(h))[DOMAIN q]
  BY DEF Folded, IsFold
<1> HIDE DEF F, G
<1>4. (CHOOSE h : h = G(h)) = (CHOOSE h : h = F(h))
  BY <1>1
<1> QED
  BY <1>2, <1>3, <1>4

\* The packets that Close releases.
LEMMA FoldFree ==
    ASSUME NEW st, NEW q
    PROVE  Receiver!FoldLeft(LAMBDA s, e : Receiver!Free(s, e.slot), st, q)
             = Folded("free", "none", st, q)
<1> DEFINE G(h) == [t \in SUBSET DOMAIN q |->
                      IF t = {} THEN st
                      ELSE Receiver!Free(h[t \ {Receiver!Max(t)}], q[Receiver!Max(t)].slot)]
           F(h) == [t \in SUBSET DOMAIN q |-> FoldStep("free", "none", st, q, h, t)]
<1>1. \A h : G(h) = F(h)
  BY ReceiverMax DEF FoldStep, Apply
<1>2. Receiver!FoldLeft(LAMBDA s, e : Receiver!Free(s, e.slot), st, q)
        = (CHOOSE h : h = G(h))[DOMAIN q]
  BY DEF Receiver!FoldLeft, Receiver!MapThenFoldSet
<1>3. Folded("free", "none", st, q) = (CHOOSE h : h = F(h))[DOMAIN q]
  BY DEF Folded, IsFold
<1> HIDE DEF F, G
<1>4. (CHOOSE h : h = G(h)) = (CHOOSE h : h = F(h))
  BY <1>1
<1> QED
  BY <1>2, <1>3, <1>4

\* The NAL units that are sent.
LEMMA FoldSend ==
    ASSUME NEW st, NEW q, NEW codec
    PROVE  Receiver!FoldLeft(LAMBDA s, e : s \o Receiver!Payloads(codec, e), st, q)
             = Folded("send", codec, st, q)
<1> DEFINE G(h) == [t \in SUBSET DOMAIN q |->
                      IF t = {} THEN st
                      ELSE h[t \ {Receiver!Max(t)}] \o Receiver!Payloads(codec, q[Receiver!Max(t)])]
           F(h) == [t \in SUBSET DOMAIN q |-> FoldStep("send", codec, st, q, h, t)]
<1>1. \A h : G(h) = F(h)
  BY ReceiverMax DEF FoldStep, Apply
<1>2. Receiver!FoldLeft(LAMBDA s, e : s \o Receiver!Payloads(codec, e), st, q)
        = (CHOOSE h : h = G(h))[DOMAIN q]
  BY DEF Receiver!FoldLeft, Receiver!MapThenFoldSet
<1>3. Folded("send", codec, st, q) = (CHOOSE h : h = F(h))[DOMAIN q]
  BY DEF Folded, IsFold
<1> HIDE DEF F, G
<1>4. (CHOOSE h : h = G(h)) = (CHOOSE h : h = F(h))
  BY <1>1
<1> QED
  BY <1>2, <1>3, <1>4

(* Packets and slots *)

\* More slots are no harm.
LEMMA ListedMore ==
    ASSUME NEW n \in Nat, NEW m \in Nat, n <= m, NEW q, Listed(q, n)
    PROVE  Listed(q, m)
BY DEF Listed, InSlots

\* What is counted of a depacketizer.
LEMMA KeptType ==
    ASSUME NEW st, Good(st), NEW s \in Nat
    PROVE  /\ Len(st.refs) \in Nat /\ Refs(st, s) \in Int
           /\ Waiting(st.queue, s) \in Nat /\ InSlice(st, s) \in {0, 1} /\ Kept(st, s) \in Nat
<1>1. PICK n \in Nat : n = Len(st.refs)
  BY DEF Good
<1>2. Waiting(st.queue, s) \in Nat
  BY <1>1, WaitingType DEF Good
<1>3. Refs(st, s) \in Int
  <2>1. s \in 1 .. n => st.refs[s] \in Int
    BY <1>1 DEF Good
  <2> QED
    BY <1>1, <2>1 DEF Refs
<1> QED
  BY <1>1, <1>2, <1>3 DEF InSlice, Kept

\* What touches neither packets nor slots keeps them.
LEMMA KeepsUntouched ==
    ASSUME NEW st, Good(st), NEW r, DOMAIN r = DepacketizerFields,
           r.queue = st.queue, r.slice = st.slice, r.refs = st.refs
    PROVE  Keeps(st, r)
<1>1. Good(r)
  BY DEF Good
<1>2. Len(st.refs) <= Len(r.refs)
  BY DEF Good
<1>3. \A s : Refs(r, s) = Refs(st, s) /\ Kept(r, s) = Kept(st, s)
  BY DEF Refs, Kept, InSlice
<1> QED
  BY <1>1, <1>2, <1>3 DEF Keeps

\* Two steps that keep them are one.
LEMMA KeepsTwice ==
    ASSUME NEW st, Good(st), NEW m, Keeps(st, m), NEW r, Keeps(m, r)
    PROVE  Keeps(st, r)
<1>1. Len(st.refs) \in Nat /\ Len(m.refs) \in Nat /\ Len(r.refs) \in Nat
  BY DEF Keeps, Good
<1>2. Len(st.refs) <= Len(r.refs)
  BY <1>1 DEF Keeps
<1> QED
  BY <1>2 DEF Keeps

\* The slot of a packet that is made.
LEMMA AllocRefs ==
    ASSUME NEW st, Good(st), NEW how, NEW a, a = Receiver!Alloc(st, how),
           NEW k, k = Receiver!SlotOf(st, how)
    PROVE  /\ DOMAIN a = DepacketizerFields /\ a.queue = st.queue /\ a.slice = st.slice
           /\ a.codec = st.codec /\ a.refs \in Seq(Int) /\ Len(st.refs) <= Len(a.refs)
           /\ k \in 0 .. Len(a.refs)
           /\ \A s \in Nat \ {0} : Refs(a, s) = Refs(st, s) + (IF s = k THEN 1 ELSE 0)
<1>1. PICK n \in Nat : n = Len(st.refs)
  BY DEF Good
<1>2. CASE how = "heap"
  <2>1. a = st /\ k = 0
    BY <1>2 DEF Receiver!Alloc, Receiver!SlotOf
  <2>2. \A s \in Nat : Refs(st, s) \in Int
    BY KeptType
  <2> QED
    BY <1>1, <2>1, <2>2 DEF Good
<1>3. CASE how # "heap"
  <2>1. a = [st EXCEPT !.refs = Append(@, 1)] /\ k = n + 1
    BY <1>1, <1>3 DEF Receiver!Alloc, Receiver!SlotOf
  <2>2. /\ DOMAIN a = DepacketizerFields /\ a.queue = st.queue /\ a.slice = st.slice
        /\ a.codec = st.codec /\ a.refs = Append(st.refs, 1)
    BY <2>1 DEF Good, DepacketizerFields
  <2>3. st.refs \in Seq(Int) /\ 1 \in Int
    BY DEF Good
  <2>4. /\ a.refs \in Seq(Int) /\ Len(a.refs) = n + 1
        /\ \A s \in 1 .. n : a.refs[s] = st.refs[s]
        /\ a.refs[n + 1] = 1
    BY <1>1, <2>2, <2>3, AppendProperties
  <2>5. ASSUME NEW s \in Nat \ {0}
        PROVE  Refs(a, s) = Refs(st, s) + (IF s = k THEN 1 ELSE 0)
    <3>1. CASE s \in 1 .. n
      <4>1. Refs(a, s) = st.refs[s] /\ Refs(st, s) = st.refs[s] /\ s # k
        BY <1>1, <2>1, <2>4, <3>1 DEF Refs
      <4>2. Refs(st, s) \in Int
        BY KeptType
      <4> QED
        BY <4>1, <4>2
    <3>2. CASE s = n + 1
      BY <1>1, <2>1, <2>4, <3>2 DEF Refs
    <3>3. CASE s \notin 1 .. n + 1
      <4>1. s \notin 1 .. n /\ s # n + 1
        BY <1>1, <3>3
      <4> QED
        BY <1>1, <2>1, <2>4, <3>3, <4>1 DEF Refs
    <3> QED
      BY <1>1, <3>1, <3>2, <3>3
  <2>6. Len(st.refs) <= Len(a.refs) /\ k \in 0 .. Len(a.refs)
    BY <1>1, <2>1, <2>4
  <2> QED
    BY <2>2, <2>4, <2>5, <2>6
<1> QED
  BY <1>2, <1>3

\* The slot of a packet that is released.
LEMMA FreeRefs ==
    ASSUME NEW st, DOMAIN st = DepacketizerFields, st.refs \in Seq(Int),
           NEW slot \in 0 .. Len(st.refs), NEW r, r = Receiver!Free(st, slot)
    PROVE  /\ DOMAIN r = DepacketizerFields /\ r.queue = st.queue /\ r.slice = st.slice
           /\ r.refs \in Seq(Int) /\ Len(r.refs) = Len(st.refs)
           /\ \A s \in Nat \ {0} : Refs(r, s) = Refs(st, s) - (IF s = slot THEN 1 ELSE 0)
<1>1. PICK n \in Nat : n = Len(st.refs) /\ DOMAIN st.refs = 1 .. n
  OBVIOUS
<1>2. \A s \in 1 .. n : st.refs[s] \in Int
  BY <1>1
<1>3. CASE slot = 0
  <2>1. r = st
    BY <1>3 DEF Receiver!Free
  <2>2. \A s \in Nat \ {0} : Refs(st, s) \in Int
    BY <1>1, <1>2 DEF Refs
  <2> QED
    BY <1>1, <1>3, <2>1, <2>2
<1>4. CASE slot # 0
  <2>1. r = [st EXCEPT !.refs[slot] = @ - 1]
    BY <1>4 DEF Receiver!Free
  <2>2. /\ DOMAIN r = DepacketizerFields /\ r.queue = st.queue /\ r.slice = st.slice
        /\ r.refs = [st.refs EXCEPT ![slot] = @ - 1]
    BY <2>1 DEF DepacketizerFields
  <2>3. slot \in 1 .. n
    BY <1>1, <1>4
  <2>4. /\ r.refs \in Seq(Int) /\ Len(r.refs) = n /\ r.refs[slot] = st.refs[slot] - 1
        /\ \A s \in 1 .. n : s # slot => r.refs[s] = st.refs[s]
    <3>1. st.refs[slot] - 1 \in Int
      BY <1>2, <2>3
    <3> QED
      BY <1>1, <2>2, <2>3, <3>1, ExceptSeq
  <2> QED
    BY <1>1, <1>2, <2>2, <2>3, <2>4 DEF Refs
<1> QED
  BY <1>3, <1>4

\* AddPacket makes a packet in a slot of its own.
LEMMA AddPacketKeeps ==
    ASSUME NEW st, Good(st), NEW data, NEW key, NEW how
    PROVE  Keeps(st, Receiver!AddPacket(st, data, key, how))
<1>1. PICK a, k, p, r : /\ a = Receiver!Alloc(st, how) /\ k = Receiver!SlotOf(st, how)
                        /\ p = Receiver!Packet(st, data, key, k)
                        /\ r = Receiver!AddPacket(st, data, key, how)
  OBVIOUS
<1>2. r = [a EXCEPT !.queue = Append(@, p)]
  BY <1>1 DEF Receiver!AddPacket
<1>3. /\ DOMAIN a = DepacketizerFields /\ a.queue = st.queue /\ a.slice = st.slice
      /\ a.refs \in Seq(Int) /\ Len(st.refs) <= Len(a.refs)
      /\ k \in 0 .. Len(a.refs)
      /\ \A s \in Nat \ {0} : Refs(a, s) = Refs(st, s) + (IF s = k THEN 1 ELSE 0)
  BY <1>1, AllocRefs
<1>4. PICK n \in Nat, m \in Nat : n = Len(st.refs) /\ m = Len(a.refs)
  BY <1>3 DEF Good
<1>5. InSlots(p, m) /\ p.slot = k
  BY <1>1, <1>3, <1>4 DEF Receiver!Packet, InSlots, PacketFields
<1>6. Listed(st.queue, m)
  BY <1>3, <1>4, ListedMore DEF Good
<1>7. /\ DOMAIN r = DepacketizerFields /\ r.queue = Append(st.queue, p)
      /\ r.slice = st.slice /\ r.refs = a.refs
  BY <1>2, <1>3 DEF DepacketizerFields
<1>8. /\ Listed(r.queue, m)
      /\ \A s : Waiting(r.queue, s) = Waiting(st.queue, s) + (IF k = s THEN 1 ELSE 0)
  BY <1>5, <1>6, <1>7, WaitingAppend
<1>9. Good(r)
  BY <1>3, <1>4, <1>7, <1>8 DEF Good, InSlots
<1>10. ASSUME NEW s \in Nat \ {0}
       PROVE  Refs(r, s) - Kept(r, s) = Refs(st, s) - Kept(st, s)
  <2>1. Refs(r, s) = Refs(st, s) + (IF s = k THEN 1 ELSE 0)
    BY <1>3, <1>7 DEF Refs
  <2>2. Kept(r, s) = (Waiting(st.queue, s) + (IF k = s THEN 1 ELSE 0)) + InSlice(st, s)
    BY <1>7, <1>8 DEF Kept, InSlice
  <2>3. /\ Refs(st, s) \in Int /\ Waiting(st.queue, s) \in Nat /\ InSlice(st, s) \in {0, 1}
        /\ Kept(st, s) = Waiting(st.queue, s) + InSlice(st, s)
    BY KeptType DEF Kept
  <2> QED
    BY <2>1, <2>2, <2>3
<1> QED
  BY <1>1, <1>3, <1>7, <1>9, <1>10 DEF Keeps

\* addPacket of H.265: the picture that was put together is queued, and another
\* begins in a slot of its own.
LEMMA AddSliceKeeps ==
    ASSUME NEW st, Good(st), NEW data, NEW key, NEW how
    PROVE  Keeps(st, Receiver!AddSlice(st, data, key, how))
<1>1. PICK a, k, p, r : /\ a = Receiver!Alloc(st, how) /\ k = Receiver!SlotOf(st, how)
                        /\ p = Receiver!Packet(st, data, key, k)
                        /\ r = Receiver!AddSlice(st, data, key, how)
  OBVIOUS
<1>2. r = [a EXCEPT !.queue = IF st.slice = Receiver!NoSlice THEN @ ELSE Append(@, st.slice),
                    !.slice = p]
  BY <1>1 DEF Receiver!AddSlice
<1>3. /\ DOMAIN a = DepacketizerFields /\ a.queue = st.queue /\ a.slice = st.slice
      /\ a.refs \in Seq(Int) /\ Len(st.refs) <= Len(a.refs)
      /\ k \in 0 .. Len(a.refs)
      /\ \A s \in Nat \ {0} : Refs(a, s) = Refs(st, s) + (IF s = k THEN 1 ELSE 0)
  BY <1>1, AllocRefs
<1>4. PICK n \in Nat, m \in Nat : n = Len(st.refs) /\ m = Len(a.refs)
  BY <1>3 DEF Good
<1>5. InSlots(p, m) /\ p.slot = k /\ p # Receiver!NoSlice
  BY <1>1, <1>3, <1>4 DEF Receiver!Packet, InSlots, PacketFields, Receiver!NoSlice
<1>6. Listed(st.queue, m)
  BY <1>3, <1>4, ListedMore DEF Good
<1>7. /\ DOMAIN r = DepacketizerFields
      /\ r.queue = IF st.slice = Receiver!NoSlice THEN st.queue ELSE Append(st.queue, st.slice)
      /\ r.slice = p /\ r.refs = a.refs
  BY <1>2, <1>3 DEF DepacketizerFields
<1>8. Listed(r.queue, m) /\ \A s : Waiting(r.queue, s) = Waiting(st.queue, s) + InSlice(st, s)
  <2>1. CASE st.slice = Receiver!NoSlice
    <3>1. \A s : Waiting(st.queue, s) \in Nat /\ InSlice(st, s) = 0
      BY <1>6, <2>1, WaitingType DEF InSlice
    <3> QED
      BY <1>6, <1>7, <2>1, <3>1
  <2>2. CASE st.slice # Receiver!NoSlice
    <3>1. InSlots(st.slice, m)
      BY <1>3, <1>4, <2>2 DEF Good, InSlots
    <3>2. r.queue = Append(st.queue, st.slice)
      BY <1>7, <2>2
    <3>3. \A s : InSlice(st, s) = IF st.slice.slot = s THEN 1 ELSE 0
      BY <2>2 DEF InSlice
    <3> QED
      BY <1>6, <3>1, <3>2, <3>3, WaitingAppend
  <2> QED
    BY <2>1, <2>2
<1>9. Good(r)
  BY <1>3, <1>4, <1>5, <1>7, <1>8 DEF Good
<1>10. ASSUME NEW s \in Nat \ {0}
       PROVE  Refs(r, s) - Kept(r, s) = Refs(st, s) - Kept(st, s)
  <2>1. Refs(r, s) = Refs(st, s) + (IF s = k THEN 1 ELSE 0)
    BY <1>3, <1>7 DEF Refs
  <2>2. Kept(r, s) = Kept(st, s) + (IF k = s THEN 1 ELSE 0)
    BY <1>5, <1>7, <1>8 DEF Kept, InSlice
  <2>3. Refs(st, s) \in Int /\ Kept(st, s) \in Nat
    BY KeptType
  <2> QED
    BY <2>1, <2>2, <2>3
<1> QED
  BY <1>1, <1>3, <1>7, <1>9, <1>10 DEF Keeps

\* appendToPacket: the picture that is put together grows, in its slot or in another
\* that is its own.
LEMMA AppendSliceKeeps ==
    ASSUME NEW st, Good(st), NEW data, NEW key, NEW how
    PROVE  Keeps(st, Receiver!AppendSlice(st, data, key, how))
<1>1. PICK r, g : r = Receiver!AppendSlice(st, data, key, how) /\ g = Receiver!Grown(st, how)
  OBVIOUS
<1>2. CASE st.slice = Receiver!NoSlice
  <2>1. r = st
    BY <1>1, <1>2 DEF Receiver!AppendSlice
  <2> QED
    BY <1>1, <2>1, KeepsUntouched DEF Good
<1>3. CASE st.slice # Receiver!NoSlice
  <2>1. PICK n \in Nat : n = Len(st.refs)
    BY DEF Good
  <2>2. DOMAIN st.slice = PacketFields /\ st.slice.slot \in 0 .. n
    BY <1>3, <2>1 DEF Good, InSlots
  <2>3. /\ DOMAIN g = DepacketizerFields /\ g.queue = st.queue /\ g.refs \in Seq(Int)
        /\ n <= Len(g.refs)
        /\ DOMAIN g.slice = PacketFields /\ g.slice.slot \in 0 .. Len(g.refs)
        /\ \A s \in Nat \ {0} :
              Refs(g, s) + (IF s = st.slice.slot THEN 1 ELSE 0)
                = Refs(st, s) + (IF s = g.slice.slot THEN 1 ELSE 0)
    <3>1. CASE st.slice.slot = 0 \/ how = "extend"
      <4>1. g = st
        BY <1>1, <3>1 DEF Receiver!Grown
      <4> QED
        BY <2>1, <2>2, <4>1 DEF Good
    <3>2. CASE st.slice.slot # 0 /\ how # "extend"
      <4>1. PICK a, k, c : /\ a = Receiver!Alloc(st, how) /\ k = Receiver!SlotOf(st, how)
                           /\ c = [a EXCEPT !.slice.slot = k]
        OBVIOUS
      <4>2. g = Receiver!Free(c, st.slice.slot)
        BY <1>1, <3>2, <4>1 DEF Receiver!Grown
      <4>3. /\ DOMAIN a = DepacketizerFields /\ a.queue = st.queue /\ a.slice = st.slice
            /\ a.refs \in Seq(Int) /\ Len(st.refs) <= Len(a.refs)
            /\ k \in 0 .. Len(a.refs)
            /\ \A s \in Nat \ {0} : Refs(a, s) = Refs(st, s) + (IF s = k THEN 1 ELSE 0)
        BY <4>1, AllocRefs
      <4>4. /\ DOMAIN c = DepacketizerFields /\ c.queue = st.queue /\ c.refs = a.refs
            /\ c.slice = [st.slice EXCEPT !.slot = k]
        BY <4>1, <4>3 DEF DepacketizerFields
      <4>5. DOMAIN c.slice = PacketFields /\ c.slice.slot = k
        BY <2>2, <4>4 DEF PacketFields
      <4>6. PICK m \in Nat : m = Len(a.refs)
        BY <4>3
      <4>7. PICK z \in 0 .. Len(c.refs) : z = st.slice.slot
        BY <2>1, <2>2, <4>3, <4>4, <4>6
      <4>12. c.refs \in Seq(Int) /\ g = Receiver!Free(c, z)
        BY <4>2, <4>3, <4>4, <4>7
      <4>8. /\ DOMAIN g = DepacketizerFields /\ g.queue = c.queue /\ g.slice = c.slice
            /\ g.refs \in Seq(Int) /\ Len(g.refs) = Len(c.refs)
            /\ \A s \in Nat \ {0} :
                  Refs(g, s) = Refs(c, s) - (IF s = z THEN 1 ELSE 0)
        BY <4>4, <4>12, FreeRefs
      <4>9. \A s \in Nat \ {0} : Refs(c, s) = Refs(a, s)
        BY <4>4 DEF Refs
      <4>10. \A s \in Nat \ {0} : Refs(st, s) \in Int
        BY KeptType
      <4>11. \A s \in Nat \ {0} :
                Refs(g, s) + (IF s = st.slice.slot THEN 1 ELSE 0)
                  = Refs(st, s) + (IF s = g.slice.slot THEN 1 ELSE 0)
        BY <4>3, <4>5, <4>7, <4>8, <4>9, <4>10
      <4> QED
        BY <2>1, <4>3, <4>4, <4>5, <4>8, <4>11
    <3> QED
      BY <3>1, <3>2
  <2>4. r = [g EXCEPT !.slice.data = @ \o data, !.slice.key = @ \/ key]
    BY <1>1, <1>3 DEF Receiver!AppendSlice
  <2>5. /\ DOMAIN r = DepacketizerFields /\ r.queue = st.queue /\ r.refs = g.refs
        /\ DOMAIN r.slice = PacketFields /\ r.slice.slot = g.slice.slot
    BY <2>3, <2>4 DEF DepacketizerFields, PacketFields
  <2>6. PICK m \in Nat : m = Len(g.refs)
    BY <2>3
  <2>7. InSlots(r.slice, m) /\ r.slice # Receiver!NoSlice
    BY <2>3, <2>5, <2>6 DEF InSlots, PacketFields, Receiver!NoSlice
  <2>8. Listed(r.queue, m)
    BY <2>1, <2>3, <2>5, <2>6, ListedMore DEF Good
  <2>9. Good(r)
    BY <2>3, <2>5, <2>6, <2>7, <2>8 DEF Good
  <2>10. ASSUME NEW s \in Nat \ {0}
         PROVE  Refs(r, s) - Kept(r, s) = Refs(st, s) - Kept(st, s)
    <3>1. Refs(r, s) = Refs(g, s)
      BY <2>5 DEF Refs
    <3>2. Kept(r, s) = Waiting(st.queue, s) + (IF s = g.slice.slot THEN 1 ELSE 0)
      BY <2>5, <2>7 DEF Kept, InSlice
    <3>3. Kept(st, s) = Waiting(st.queue, s) + (IF s = st.slice.slot THEN 1 ELSE 0)
      BY <1>3 DEF Kept, InSlice
    <3>4. PICK a \in Int, b \in Int, c \in Nat :
             a = Refs(st, s) /\ b = Refs(r, s) /\ c = Waiting(st.queue, s)
      BY <2>9, KeptType
    <3>5. PICK x \in {0, 1}, y \in {0, 1} : /\ x = (IF s = st.slice.slot THEN 1 ELSE 0)
                                            /\ y = (IF s = g.slice.slot THEN 1 ELSE 0)
      OBVIOUS
    <3>6. b + x = a + y
      BY <2>3, <3>1, <3>4, <3>5
    <3>7. Kept(r, s) = c + y /\ Kept(st, s) = c + x
      BY <3>2, <3>3, <3>4, <3>5
    <3> QED
      BY <3>4, <3>6, <3>7
  <2> QED
    BY <1>1, <2>1, <2>3, <2>5, <2>6, <2>9, <2>10 DEF Keeps
<1> QED
  BY <1>2, <1>3

\* A parameter set is no packet.
LEMMA UpdateSetKeeps ==
    ASSUME NEW st, Good(st), NEW s, NEW v
    PROVE  Keeps(st, Receiver!UpdateSet(st, s, v))
<1>1. PICK r : r = Receiver!UpdateSet(st, s, v)
  OBVIOUS
<1>2. PICK n : n = [st EXCEPT !.par[s] = v]
  OBVIOUS
<1>3. r = st \/ r = [n EXCEPT !.codec = n.par] \/ r = [n EXCEPT !.err = TRUE]
  BY <1>1, <1>2 DEF Receiver!UpdateSet
<1>4. DOMAIN n = DepacketizerFields /\ n.queue = st.queue /\ n.slice = st.slice /\ n.refs = st.refs
  BY <1>2 DEF Good, DepacketizerFields
<1>5. DOMAIN r = DepacketizerFields /\ r.queue = st.queue /\ r.slice = st.slice /\ r.refs = st.refs
  BY <1>3, <1>4 DEF Good, DepacketizerFields
<1> QED
  BY <1>1, <1>5, KeepsUntouched

\* One NAL unit of an H.264 payload, one of an H.265 payload, an access unit of audio.
LEMMA ApplyKeeps ==
    ASSUME NEW w \in {"h264", "h265", "audio"}, NEW how, NEW st, Good(st), NEW e
    PROVE  Keeps(st, Apply(w, how, st, e))
<1>1. Keeps(st, st)
  BY KeepsUntouched DEF Good
<1>2. CASE w = "h264"
  <2>1. Apply(w, how, st, e) = Receiver!Nal264(st, e, how)
    BY <1>2 DEF Apply
  <2>2. \/ Receiver!Nal264(st, e, how) = st
        \/ Receiver!Nal264(st, e, how) = Receiver!AddPacket(st, Receiver!Whole(e), e.key, how)
        \/ Receiver!Nal264(st, e, how) = Receiver!UpdateSet(st, e.k, e.ver)
    BY DEF Receiver!Nal264
  <2> QED
    BY <1>1, <2>1, <2>2, AddPacketKeeps, UpdateSetKeeps
<1>3. CASE w = "h265"
  <2>1. Apply(w, how, st, e) = Receiver!Nal265(st, e, how)
    BY <1>3 DEF Apply
  <2>2. PICK b, data : b = (e.first /\ e.key) /\ data = Receiver!Whole(e)
    OBVIOUS
  <2>3. \/ Receiver!Nal265(st, e, how) = st
        \/ Receiver!Nal265(st, e, how) = Receiver!AddSlice(st, data, b, how)
        \/ Receiver!Nal265(st, e, how) = Receiver!AppendSlice(st, data, b, how)
        \/ Receiver!Nal265(st, e, how) = Receiver!UpdateSet(st, e.k, e.ver)
    BY <2>2 DEF Receiver!Nal265, Receiver!Slice265
  <2> QED
    BY <1>1, <2>1, <2>3, AddSliceKeeps, AppendSliceKeeps, UpdateSetKeeps
<1>4. CASE w = "audio"
  BY <1>4, AddPacketKeeps DEF Apply
<1> QED
  BY <1>2, <1>3, <1>4

\* All of them.
LEMMA FoldsKeeps ==
    ASSUME NEW w \in {"h264", "h265", "audio"}, NEW how, NEW st, Good(st),
           NEW X, NEW q \in Seq(X), NEW r, Folds(w, how, st, q, r)
    PROVE  Keeps(st, r)
<1>1. PICK n \in Nat : n = Len(q)
  OBVIOUS
<1>2. PICK g : /\ g[0] = st /\ r = g[n]
               /\ \A k \in 0 .. n - 1 : g[k + 1] = Apply(w, how, g[k], q[k + 1])
  BY <1>1 DEF Folds
<1> DEFINE G == {k \in Nat : k <= n => Keeps(st, g[k])}
<1>3. 0 \in G
  BY <1>2, KeepsUntouched DEF Good
<1>4. ASSUME NEW k \in G
      PROVE  k + 1 \in G
  <2>1. SUFFICES ASSUME k + 1 <= n PROVE Keeps(st, g[k + 1])
    OBVIOUS
  <2>2. PICK m, e, t : m = g[k] /\ e = q[k + 1] /\ t = g[k + 1]
    OBVIOUS
  <2>3. Keeps(st, m) /\ t = Apply(w, how, m, e)
    BY <1>2, <2>1, <2>2
  <2>4. Keeps(m, t)
    BY <2>3, ApplyKeeps DEF Keeps
  <2> QED
    BY <2>2, <2>3, <2>4, KeepsTwice
<1>5. n \in G
  <2>1. G \in SUBSET Nat
    OBVIOUS
  <2> HIDE DEF G
  <2> QED
    BY <1>3, <1>4, <2>1, InductionOnNat
<1> QED
  BY <1>2, <1>5

(* What a depacketizer makes of a payload *)

\* A payload lists what it carries.
Listing(u) == \E X : u.nals \in Seq(X)

\* A fold over what a payload carries.
LEMMA FoldedKeeps ==
    ASSUME NEW w \in {"h264", "h265", "audio"}, NEW how, NEW st, Good(st), NEW u, Listing(u)
    PROVE  Keeps(st, Folded(w, how, st, u.nals))
<1>1. PICK X : u.nals \in Seq(X)
  BY DEF Listing
<1>2. PICK q, r : q = u.nals /\ r = Folded(w, how, st, q)
  OBVIOUS
<1>3. q \in Seq(X) /\ Folds(w, how, st, q, r)
  BY <1>1, <1>2, FoldedFolds
<1> QED
  BY <1>2, <1>3, FoldsKeeps

\* The end of a fragmented NAL unit of H.264.
LEMMA FinalizeKeeps ==
    ASSUME NEW st, Good(st), NEW how
    PROVE  Keeps(st, Receiver!FinalizeFUA(st, how))
<1>1. PICK done : done = [st EXCEPT !.started = FALSE]
  OBVIOUS
<1>2. Good(st) /\ Keeps(st, done)
  <2>1. /\ DOMAIN done = DepacketizerFields /\ done.queue = st.queue
        /\ done.slice = st.slice /\ done.refs = st.refs
    BY <1>1 DEF Good, DepacketizerFields
  <2> QED
    BY <2>1, KeepsUntouched
<1>3. PICK stub : stub = Receiver!UpdateSet(done, "sps", 0)
  OBVIOUS
<1>4. Keeps(done, stub)
  BY <1>2, <1>3, UpdateSetKeeps DEF Keeps
<1>5. Keeps(st, stub)
  BY <1>2, <1>4, KeepsTwice
<1>6. PICK key, no : key = (Head(st.fu).nal.k = "slice" /\ Head(st.fu).nal.key) /\ no = FALSE
  OBVIOUS
<1>7. PICK whole, nested : /\ whole = Receiver!AddPacket(done, st.fu, key, how)
                           /\ nested = Receiver!AddPacket(stub, st.fu, no, how)
  OBVIOUS
<1>8. Receiver!FinalizeFUA(st, how) \in {whole, stub, nested}
  BY <1>1, <1>3, <1>6, <1>7 DEF Receiver!FinalizeFUA
<1>9. Keeps(done, whole) /\ Keeps(stub, nested)
  BY <1>2, <1>5, <1>7, AddPacketKeeps DEF Keeps
<1>10. Keeps(st, whole) /\ Keeps(st, nested)
  BY <1>2, <1>5, <1>9, KeepsTwice
<1> QED
  BY <1>5, <1>8, <1>10

\* An H.264 payload.
LEMMA Read264Keeps ==
    ASSUME NEW st, Good(st), NEW u, Listing(u), NEW how
    PROVE  Keeps(st, Receiver!Read264(st, u, how))
<1>1. CASE u.k = "fu"
  <2>1. PICK fed : fed = [st EXCEPT
                   !.started = TRUE,
                   !.fu = (IF u.start
                           THEN <<Receiver!Piece(Head(u.nals), 0, Receiver!HeaderSize.h264)>>
                           ELSE @) \o <<Receiver!Piece(Head(u.nals), u.from, u.to)>>]
    OBVIOUS
  <2>2. \/ Receiver!Read264(st, u, how) = st
        \/ Receiver!Read264(st, u, how) = Receiver!FinalizeFUA(fed, how)
        \/ Receiver!Read264(st, u, how) = fed
    BY <1>1, <2>1 DEF Receiver!Read264, Receiver!Fua
  <2>3. /\ DOMAIN fed = DepacketizerFields /\ fed.queue = st.queue
        /\ fed.slice = st.slice /\ fed.refs = st.refs
    BY <2>1 DEF Good, DepacketizerFields
  <2>4. Keeps(st, fed)
    BY <2>3, KeepsUntouched
  <2>5. Keeps(fed, Receiver!FinalizeFUA(fed, how))
    BY <2>4, FinalizeKeeps DEF Keeps
  <2>6. Keeps(st, st)
    BY KeepsUntouched DEF Good
  <2> QED
    BY <2>2, <2>4, <2>5, <2>6, KeepsTwice
<1>2. CASE u.k # "fu"
  <2>1. Receiver!Read264(st, u, how)
          = Receiver!FoldLeft(LAMBDA s, nal : Receiver!Nal264(s, nal, how), st, u.nals)
    BY <1>2 DEF Receiver!Read264
  <2>2. Receiver!Read264(st, u, how) = Folded("h264", how, st, u.nals)
    BY <2>1, Fold264
  <2> QED
    BY <2>2, FoldedKeeps
<1> QED
  BY <1>1, <1>2

\* An H.265 payload.
LEMMA Read265Keeps ==
    ASSUME NEW st, Good(st), NEW u, Listing(u), NEW how
    PROVE  Keeps(st, Receiver!Read265(st, u, how))
<1>1. CASE u.k = "fu"
  <2>1. PICK nal, body, keyed : /\ nal = Head(u.nals) /\ body = Receiver!Piece(nal, u.from, u.to)
                                /\ keyed = [st EXCEPT !.key = @ \/ nal.key]
    OBVIOUS
  <2>2. PICK fed :
           fed = IF u.start
                 THEN [keyed EXCEPT !.fu = <<Receiver!Piece(nal, 0, Receiver!HeaderSize.h265), body>>]
                 ELSE [keyed EXCEPT !.fu = Append(@, body)]
    OBVIOUS
  <2>3. PICK first, key, data : first = Head(fed.fu).nal.first /\ key = fed.key /\ data = fed.fu
    OBVIOUS
  <2>4. PICK m : m = Receiver!Slice265(fed, data, first, key, how)
    OBVIOUS
  <2>5. \/ Receiver!Read265(st, u, how) = fed
        \/ Receiver!Read265(st, u, how) = [m EXCEPT !.key = FALSE]
    BY <1>1, <2>1, <2>2, <2>3, <2>4 DEF Receiver!Read265, Receiver!Fu265
  <2>6. /\ DOMAIN keyed = DepacketizerFields /\ keyed.queue = st.queue
        /\ keyed.slice = st.slice /\ keyed.refs = st.refs
    BY <2>1 DEF Good, DepacketizerFields
  <2>7. /\ DOMAIN fed = DepacketizerFields /\ fed.queue = st.queue
        /\ fed.slice = st.slice /\ fed.refs = st.refs
    BY <2>2, <2>6 DEF DepacketizerFields
  <2>8. Keeps(st, fed)
    BY <2>7, KeepsUntouched
  <2>9. \/ m = Receiver!AddSlice(fed, data, key, how)
        \/ m = Receiver!AppendSlice(fed, data, key, how)
    BY <2>4 DEF Receiver!Slice265
  <2>10. Keeps(fed, m)
    BY <2>8, <2>9, AddSliceKeeps, AppendSliceKeeps DEF Keeps
  <2>11. PICK r : r = [m EXCEPT !.key = FALSE]
    OBVIOUS
  <2>12. /\ DOMAIN r = DepacketizerFields /\ r.queue = m.queue
         /\ r.slice = m.slice /\ r.refs = m.refs
    BY <2>10, <2>11 DEF Keeps, Good, DepacketizerFields
  <2>13. Keeps(m, r)
    BY <2>10, <2>12, KeepsUntouched DEF Keeps
  <2>14. Keeps(st, r)
    BY <2>8, <2>10, <2>13, KeepsTwice
  <2> QED
    BY <2>5, <2>8, <2>11, <2>14
<1>2. CASE u.k # "fu"
  <2>1. Receiver!Read265(st, u, how)
          = Receiver!FoldLeft(LAMBDA s, nal : Receiver!Nal265(s, nal, how), st, u.nals)
    BY <1>2 DEF Receiver!Read265
  <2>2. Receiver!Read265(st, u, how) = Folded("h265", how, st, u.nals)
    BY <2>1, Fold265
  <2> QED
    BY <2>2, FoldedKeeps
<1> QED
  BY <1>1, <1>2

\* An MJPEG frame that is put together is a packet; one with a gap gives its slot back.
LEMMA AssembleKeeps ==
    ASSUME NEW st, Good(st), NEW how
    PROVE  Keeps(st, Receiver!Assemble(st, how))
<1>1. PICK frags, none : frags = Receiver!ByOffset(st.frags) /\ none = [st EXCEPT !.frags = <<>>]
  OBVIOUS
<1>2. PICK a, k, gap : /\ a = Receiver!Alloc(none, how) /\ k = Receiver!SlotOf(none, how)
                       /\ gap = Receiver!Free(a, k)
  OBVIOUS
<1>3. PICK data : data = <<Receiver!Piece(st.head, 0, 0)>> \o frags
  OBVIOUS
<1>4. PICK m, r : m = Receiver!AddPacket(none, data, TRUE, how) /\ r = [m EXCEPT !.restart = 0]
  OBVIOUS
<1>5. Receiver!Assemble(st, how) \in {none, gap, r}
  BY <1>1, <1>2, <1>3, <1>4 DEF Receiver!Assemble
<1>6. Keeps(st, none)
  <2>1. /\ DOMAIN none = DepacketizerFields /\ none.queue = st.queue
        /\ none.slice = st.slice /\ none.refs = st.refs
    BY <1>1 DEF Good, DepacketizerFields
  <2> QED
    BY <2>1, KeepsUntouched
<1>7. Good(none)
  BY <1>6 DEF Keeps
<1>8. Keeps(none, gap)
  <2>1. /\ DOMAIN a = DepacketizerFields /\ a.queue = none.queue /\ a.slice = none.slice
        /\ a.refs \in Seq(Int) /\ Len(none.refs) <= Len(a.refs)
        /\ k \in 0 .. Len(a.refs)
        /\ \A s \in Nat \ {0} : Refs(a, s) = Refs(none, s) + (IF s = k THEN 1 ELSE 0)
    BY <1>2, <1>7, AllocRefs
  <2>2. /\ DOMAIN gap = DepacketizerFields /\ gap.queue = a.queue /\ gap.slice = a.slice
        /\ gap.refs \in Seq(Int) /\ Len(gap.refs) = Len(a.refs)
        /\ \A s \in Nat \ {0} : Refs(gap, s) = Refs(a, s) - (IF s = k THEN 1 ELSE 0)
    BY <1>2, <2>1, FreeRefs
  <2>3. PICK n \in Nat, m0 \in Nat : n = Len(none.refs) /\ m0 = Len(gap.refs) /\ n <= m0
    BY <1>7, <2>1, <2>2 DEF Good
  <2>4. Listed(gap.queue, m0)
    BY <1>7, <2>1, <2>2, <2>3, ListedMore DEF Good
  <2>5. gap.slice = Receiver!NoSlice \/ InSlots(gap.slice, m0)
    BY <1>7, <2>1, <2>2, <2>3 DEF Good, InSlots
  <2>6. Good(gap)
    BY <2>2, <2>3, <2>4, <2>5 DEF Good
  <2>7. ASSUME NEW s \in Nat \ {0}
        PROVE  Refs(gap, s) - Kept(gap, s) = Refs(none, s) - Kept(none, s)
    <3>1. Kept(gap, s) = Kept(none, s)
      BY <2>1, <2>2 DEF Kept, InSlice
    <3>2. Refs(none, s) \in Int
      BY <1>7, KeptType
    <3> QED
      BY <2>1, <2>2, <3>1, <3>2
  <2> QED
    BY <2>3, <2>6, <2>7 DEF Keeps
<1>9. Keeps(none, m)
  BY <1>4, <1>7, AddPacketKeeps
<1>10. Keeps(m, r)
  <2>1. /\ DOMAIN r = DepacketizerFields /\ r.queue = m.queue
        /\ r.slice = m.slice /\ r.refs = m.refs
    BY <1>4, <1>9 DEF Keeps, Good, DepacketizerFields
  <2> QED
    BY <1>9, <2>1, KeepsUntouched DEF Keeps
<1>11. Keeps(st, gap)
  BY <1>6, <1>8, KeepsTwice
<1>12. Keeps(none, r)
  BY <1>7, <1>9, <1>10, KeepsTwice
<1>13. Keeps(st, r)
  BY <1>6, <1>12, KeepsTwice
<1> QED
  BY <1>5, <1>6, <1>11, <1>13

\* An MJPEG payload.
LEMMA ReadMjpegKeeps ==
    ASSUME NEW st, Good(st), NEW u, NEW how
    PROVE  Keeps(st, Receiver!ReadMjpeg(st, u, how))
<1>1. PICK nal, look, parsed : /\ nal = Head(u.nals) /\ look = nal.look
                               /\ parsed = Receiver!Parsed(st, u, look)
  OBVIOUS
<1>2. PICK size, made : /\ size = <<8 * look.width, 8 * look.height>>
                        /\ made = Receiver!Headers(look.type, look.width, look.height, look.q,
                                           parsed.restart, Receiver!TablesOf(st, u, look))
  OBVIOUS
<1>3. PICK begun : begun = IF u.from # 0 THEN parsed
                           ELSE [parsed EXCEPT !.frags = <<>>, !.ts = nal.id, !.codec = size,
                                               !.head = made]
  OBVIOUS
<1>4. PICK fed : fed = [begun EXCEPT !.frags = Append(@, Receiver!Piece(nal, u.from, u.to))]
  OBVIOUS
<1>5. PICK bad, drop : bad = [st EXCEPT !.err = TRUE] /\ drop = [begun EXCEPT !.frags = <<>>]
  OBVIOUS
<1>6. Receiver!ReadMjpeg(st, u, how) \in {bad, drop, fed, Receiver!Assemble(fed, how)}
  BY <1>1, <1>2, <1>3, <1>4, <1>5 DEF Receiver!ReadMjpeg
<1>7. /\ DOMAIN parsed = DepacketizerFields /\ parsed.queue = st.queue
      /\ parsed.slice = st.slice /\ parsed.refs = st.refs
  BY <1>1 DEF Receiver!Parsed, Good, DepacketizerFields
<1>8. /\ DOMAIN begun = DepacketizerFields /\ begun.queue = st.queue
      /\ begun.slice = st.slice /\ begun.refs = st.refs
  BY <1>3, <1>7 DEF DepacketizerFields
<1>9. ASSUME NEW r \in {bad, drop, fed}
      PROVE  Keeps(st, r)
  <2>1. /\ DOMAIN r = DepacketizerFields /\ r.queue = st.queue
        /\ r.slice = st.slice /\ r.refs = st.refs
    BY <1>4, <1>5, <1>8 DEF Good, DepacketizerFields
  <2> QED
    BY <2>1, KeepsUntouched
<1>10. Keeps(st, fed)
  BY <1>9
<1>11. Keeps(fed, Receiver!Assemble(fed, how))
  BY <1>10, AssembleKeeps DEF Keeps
<1>12. Keeps(st, Receiver!Assemble(fed, how))
  BY <1>10, <1>11, KeepsTwice
<1> QED
  BY <1>6, <1>9, <1>12

\* An audio payload.
LEMMA ReadAudioKeeps ==
    ASSUME NEW st, Good(st), NEW u, Listing(u), NEW how
    PROVE  Keeps(st, Receiver!ReadAudio(st, u, how))
<1>1. CASE u.k = "bad"
  <2>1. PICK r : r = [st EXCEPT !.err = TRUE]
    OBVIOUS
  <2>2. /\ DOMAIN r = DepacketizerFields /\ r.queue = st.queue
        /\ r.slice = st.slice /\ r.refs = st.refs
    BY <2>1 DEF Good, DepacketizerFields
  <2>3. Receiver!ReadAudio(st, u, how) = r
    BY <1>1, <2>1 DEF Receiver!ReadAudio
  <2> QED
    BY <2>2, <2>3, KeepsUntouched
<1>2. CASE u.k # "bad"
  <2>1. Receiver!ReadAudio(st, u, how)
          = Receiver!FoldLeft(LAMBDA s, e : Receiver!AddPacket(s, Receiver!Whole(e), FALSE, how),
                              st, u.nals)
    BY <1>2 DEF Receiver!ReadAudio
  <2>2. Receiver!ReadAudio(st, u, how) = Folded("audio", how, st, u.nals)
    BY <2>1, FoldAudio
  <2> QED
    BY <2>2, FoldedKeeps
<1> QED
  BY <1>1, <1>2

(* The invariant *)

\* The payloads on their way are lists of lists.
Carries(p) == \E X : p \in Seq(X) /\ \A x \in X : Listing(x)

\* How many of a list of slots are s.
Taken(q, s) == CountIn(q, {s})

ReceiverInv ==
    /\ kind \in Codecs
    /\ Good(d)
    /\ held \in Seq(Nat \ {0})
    /\ Carries(net)
    /\ \A s \in Nat \ {0} : Refs(d, s) = Kept(d, s) + Taken(held, s)

\* It is a number.
LEMMA TakenType ==
    ASSUME NEW q \in Seq(Nat \ {0}), NEW s
    PROVE  Taken(q, s) \in Nat
BY CountType DEF Taken

\* At first there is nothing.
LEMMA ReceiverStart ==
    ASSUME Receiver!ReceiverInit
    PROVE  ReceiverInv
<1>1. /\ kind \in Codecs /\ net = <<>> /\ held = <<>> /\ DOMAIN d = DepacketizerFields
      /\ d.queue = <<>> /\ d.slice = Receiver!NoSlice /\ d.refs = <<>>
  BY DEF Receiver!ReceiverInit, DepacketizerFields
<1>2. \A X : << >> \in Seq(X)
  OBVIOUS
<1>3. Carries(net)
  BY <1>1, <1>2 DEF Carries
<1>4. PICK n \in Nat : n = 0 /\ n = Len(d.refs)
  BY <1>1
<1>5. Listed(d.queue, n)
  <2>1. d.queue \in Seq({}) /\ \A x \in {} : InSlots(x, n)
    BY <1>1, <1>2
  <2> QED
    BY <2>1 DEF Listed
<1>6. Good(d)
  BY <1>1, <1>4, <1>5 DEF Good
<1>7. \A s \in Nat \ {0} : Refs(d, s) = Kept(d, s) + Taken(held, s)
  <2>1. ASSUME NEW s \in Nat \ {0}
        PROVE  Refs(d, s) = 0 /\ Kept(d, s) = 0 /\ Taken(held, s) = 0
    <3>1. {i \in DOMAIN d.queue : d.queue[i].slot = s} = {} /\ PlacesIn(held, {s}) = {}
      BY <1>1 DEF PlacesIn
    <3>2. Waiting(d.queue, s) = 0 /\ Taken(held, s) = 0
      BY <3>1, FS_EmptySet DEF Waiting, Taken, CountIn
    <3> QED
      BY <1>1, <1>4, <3>2 DEF Kept, InSlice, Refs
  <2> QED
    BY <2>1
<1> QED
  BY <1>1, <1>3, <1>6, <1>7 DEF ReceiverInv

\* A step that keeps the packets and the slots of the caller keeps the references.
LEMMA ReadStep ==
    ASSUME ReceiverInv, NEW st, Keeps(d, st)
    PROVE  Good(st) /\ \A s \in Nat \ {0} : Refs(st, s) = Kept(st, s) + Taken(held, s)
<1>1. Good(st)
  BY DEF Keeps
<1>2. ASSUME NEW s \in Nat \ {0}
      PROVE  Refs(st, s) = Kept(st, s) + Taken(held, s)
  <2>1. PICK a \in Int, b \in Nat, x \in Int, y \in Nat, z \in Nat :
           /\ a = Refs(d, s) /\ b = Kept(d, s) /\ x = Refs(st, s) /\ y = Kept(st, s)
           /\ z = Taken(held, s)
    BY <1>1, KeptType, TakenType DEF ReceiverInv
  <2>2. x - y = a - b /\ a = b + z
    BY <2>1 DEF Keeps, ReceiverInv
  <2> QED
    BY <2>1, <2>2
<1> QED
  BY <1>1, <1>2

\* The first packet goes to the caller, with its slot.
LEMMA DeliverStep ==
    ASSUME ReceiverInv, NEW st, Keeps(d, st), Receiver!Deliver(st), UNCHANGED kind, Carries(net')
    PROVE  ReceiverInv'
<1>1. Good(st) /\ \A s \in Nat \ {0} : Refs(st, s) = Kept(st, s) + Taken(held, s)
  BY ReadStep
<1>2. held \in Seq(Nat \ {0}) /\ kind' \in Codecs
  BY DEF ReceiverInv
<1>3. SUFFICES /\ Good(d') /\ held' \in Seq(Nat \ {0})
               /\ \A s \in Nat \ {0} : Refs(d', s) = Kept(d', s) + Taken(held', s)
  <2>1. Good(d)' <=> Good(d')
    BY DEF Good
  <2>2. \A s : (Refs(d, s)' = Refs(d', s)) /\ (Kept(d, s)' = Kept(d', s))
                 /\ (Taken(held, s)' = Taken(held', s))
    BY DEF Refs, Kept, InSlice, Waiting, Taken
  <2>3. Carries(net)' <=> Carries(net')
    BY DEF Carries
  <2> QED
    BY <1>2, <2>1, <2>2, <2>3 DEF ReceiverInv
<1>4. CASE st.queue = <<>>
  <2>1. d' = st /\ held' = held
    BY <1>4 DEF Receiver!Deliver
  <2> QED
    BY <1>1, <1>2, <2>1
<1>5. CASE st.queue # <<>>
  <2>1. PICK p, q, r : p = Head(st.queue) /\ q = Tail(st.queue) /\ r = d'
    OBVIOUS
  <2>2. r = [st EXCEPT !.queue = q] /\ held' = IF p.slot = 0 THEN held ELSE Append(held, p.slot)
    BY <1>5, <2>1, Zenon DEF Receiver!Deliver
  <2>3. PICK n \in Nat : n = Len(st.refs)
    BY <1>1 DEF Good
  <2>4. /\ Listed(q, n) /\ InSlots(p, n)
        /\ \A s : Waiting(st.queue, s) = (IF p.slot = s THEN 1 ELSE 0) + Waiting(q, s)
    BY <1>1, <1>5, <2>1, <2>3, WaitingTail DEF Good
  <2>5. DOMAIN r = DepacketizerFields /\ r.queue = q /\ r.slice = st.slice /\ r.refs = st.refs
    BY <1>1, <2>2 DEF Good, DepacketizerFields
  <2>6. Good(r)
    BY <1>1, <2>3, <2>4, <2>5 DEF Good
  <2>7. PICK k \in Nat : k = p.slot
    BY <2>4 DEF InSlots
  <2>8. /\ held' \in Seq(Nat \ {0})
        /\ \A s \in Nat \ {0} : Taken(held', s) = Taken(held, s) + (IF k = s THEN 1 ELSE 0)
    <3>1. CASE k = 0
      <4>1. \A s : Taken(held, s) \in Nat
        BY <1>2, TakenType
      <4> QED
        BY <1>2, <2>2, <2>7, <3>1, <4>1
    <3>2. CASE k # 0
      <4>1. held' = Append(held, k) /\ k \in Nat \ {0}
        BY <2>2, <2>7, <3>2
      <4>2. PICK h : h = held'
        OBVIOUS
      <4>3. h \in Seq(Nat \ {0})
        BY <1>2, <4>1, <4>2, AppendProperties
      <4>4. ASSUME NEW s
            PROVE  Taken(h, s) = Taken(held, s) + (IF k = s THEN 1 ELSE 0)
        <5>1. PICK S : S = {s}
          OBVIOUS
        <5>2. CountIn(h, S) = CountIn(held, S) + (IF k \in S THEN 1 ELSE 0)
          BY <1>2, <4>1, <4>2, CountAppend
        <5> QED
          BY <5>1, <5>2 DEF Taken
      <4> QED
        BY <4>2, <4>3, <4>4
    <3> QED
      BY <3>1, <3>2
  <2>9. ASSUME NEW s \in Nat \ {0}
        PROVE  Refs(r, s) = Kept(r, s) + Taken(held', s)
    <3>1. Refs(r, s) = Refs(st, s) /\ InSlice(r, s) = InSlice(st, s)
      BY <2>5 DEF Refs, InSlice
    <3>2. PICK w \in Nat, x \in Nat, z \in Nat :
             w = Waiting(q, s) /\ x = InSlice(st, s) /\ z = Taken(held, s)
      BY <1>1, <1>2, <2>3, <2>4, WaitingType, KeptType, TakenType
    <3>3. PICK y \in {0, 1} : y = (IF k = s THEN 1 ELSE 0)
      OBVIOUS
    <3>4. Kept(st, s) = (y + w) + x /\ Kept(r, s) = w + x
      BY <2>4, <2>5, <2>7, <3>1, <3>2, <3>3 DEF Kept
    <3>5. Taken(held', s) = z + y
      BY <2>8, <3>2, <3>3
    <3>6. Refs(st, s) = ((y + w) + x) + z
      BY <1>1, <3>2, <3>4
    <3> QED
      BY <3>1, <3>2, <3>3, <3>4, <3>5, <3>6
  <2> QED
    BY <2>1, <2>6, <2>8, <2>9
<1> QED
  BY <1>4, <1>5

\* The caller releases a packet.
LEMMA CallerReleaseStep ==
    ASSUME ReceiverInv, NEW i \in DOMAIN held, Receiver!Release(i)
    PROVE  ReceiverInv'
<1>1. PICK n \in Nat : n = Len(held) /\ DOMAIN held = 1 .. n
  BY DEF ReceiverInv
<1>2. PICK k \in Nat \ {0} : k = held[i]
  BY <1>1 DEF ReceiverInv
<1>3. PICK r, h : r = d' /\ h = held'
  OBVIOUS
<1>4. r = Receiver!Free(d, k) /\ h = RemoveAt(held, i) /\ kind' = kind /\ net' = net
  BY <1>2, <1>3 DEF Receiver!Release, Receiver!RemoveAt, RemoveAt
<1>5. held \in Seq(Nat \ {0}) /\ i \in 1 .. Len(held) /\ Good(d)
  BY <1>1 DEF ReceiverInv
<1>6. h \in Seq(Nat \ {0})
  BY <1>4, <1>5, RemoveAtProperties
<1>7. ASSUME NEW s
      PROVE  Taken(held, s) = Taken(h, s) + (IF k = s THEN 1 ELSE 0)
  <2>1. PICK S : S = {s}
    OBVIOUS
  <2>2. CountIn(held, S) = CountIn(h, S) + (IF held[i] \in S THEN 1 ELSE 0)
    BY <1>4, <1>5, CountRemove
  <2> QED
    BY <1>2, <2>1, <2>2 DEF Taken
<1>8. PICK m \in Nat : m = Len(d.refs)
  BY <1>5 DEF Good
<1>9. k \in 0 .. Len(d.refs)
  <2>1. PICK a \in Nat, b \in Nat : a = Kept(d, k) /\ b = Taken(h, k)
    BY <1>5, <1>6, KeptType, TakenType
  <2>2. Refs(d, k) = a + (b + 1)
    BY <1>2, <1>7, <2>1 DEF ReceiverInv
  <2>3. Refs(d, k) # 0
    BY <2>2
  <2>4. k \in 1 .. m
    BY <1>8, <2>3 DEF Refs
  <2> QED
    BY <1>8, <2>4
<1>10. /\ DOMAIN r = DepacketizerFields /\ r.queue = d.queue /\ r.slice = d.slice
       /\ r.refs \in Seq(Int) /\ Len(r.refs) = Len(d.refs)
       /\ \A s \in Nat \ {0} : Refs(r, s) = Refs(d, s) - (IF s = k THEN 1 ELSE 0)
  <2>1. DOMAIN d = DepacketizerFields /\ d.refs \in Seq(Int)
    BY <1>5 DEF Good
  <2> QED
    BY <1>4, <1>9, <2>1, FreeRefs
<1>11. Good(r)
  BY <1>5, <1>10 DEF Good
<1>12. ASSUME NEW s \in Nat \ {0}
       PROVE  Refs(r, s) = Kept(r, s) + Taken(h, s)
  <2>1. Kept(r, s) = Kept(d, s)
    BY <1>10 DEF Kept, InSlice
  <2>2. PICK a \in Nat, b \in Nat : a = Kept(d, s) /\ b = Taken(h, s)
    BY <1>5, <1>6, KeptType, TakenType
  <2>3. PICK x \in {0, 1} : x = (IF k = s THEN 1 ELSE 0)
    OBVIOUS
  <2>4. Refs(d, s) = a + (b + x)
    BY <1>7, <2>2, <2>3 DEF ReceiverInv
  <2>5. Refs(r, s) = Refs(d, s) - x
    BY <1>10, <2>3
  <2> QED
    BY <2>1, <2>2, <2>3, <2>4, <2>5
<1>13. Good(d)' /\ \A s : /\ Refs(d, s)' = Refs(r, s) /\ Kept(d, s)' = Kept(r, s)
                          /\ Taken(held, s)' = Taken(h, s)
  BY <1>3, <1>11 DEF Good, Refs, Kept, InSlice, Waiting, Taken
<1>14. Carries(net)'
  BY <1>4 DEF ReceiverInv, Carries
<1> QED
  BY <1>3, <1>4, <1>6, <1>12, <1>13, <1>14 DEF ReceiverInv

(* Close *)

\* The queued packets are released, each once.
LEMMA EmptiedRefs ==
    ASSUME NEW st, Good(st), NEW r, r = Receiver!Emptied(st)
    PROVE  /\ DOMAIN r = DepacketizerFields /\ r.queue = <<>> /\ r.slice = st.slice
           /\ r.refs \in Seq(Int) /\ Len(r.refs) = Len(st.refs)
           /\ \A s \in Nat \ {0} : Refs(r, s) = Refs(st, s) - Waiting(st.queue, s)
<1>1. PICK q, f : q = st.queue /\ f = Folded("free", "none", st, q)
  OBVIOUS
<1>2. r = [f EXCEPT !.queue = <<>>]
  <2>1. r = [Receiver!FoldLeft(LAMBDA s, p : Receiver!Free(s, p.slot), st, q) EXCEPT !.queue = <<>>]
    BY <1>1 DEF Receiver!Emptied
  <2>2. Receiver!FoldLeft(LAMBDA s, p : Receiver!Free(s, p.slot), st, q) = f
    BY <1>1, FoldFree
  <2> QED
    BY <2>1, <2>2
<1>3. PICK l \in Nat : l = Len(st.refs)
  BY DEF Good
<1>4. PICK X : q \in Seq(X) /\ \A x \in X : InSlots(x, l)
  BY <1>1, <1>3 DEF Good, Listed
<1>5. PICK n \in Nat : n = Len(q)
  BY <1>4
<1>6. Folds("free", "none", st, q, f)
  BY <1>1, <1>4, FoldedFolds
<1>7. PICK g : /\ g[0] = st /\ f = g[n]
               /\ \A k \in 0 .. n - 1 : g[k + 1] = Apply("free", "none", g[k], q[k + 1])
  BY <1>5, <1>6 DEF Folds
<1> DEFINE Freed(m, u) ==
             /\ DOMAIN m = DepacketizerFields /\ m.slice = st.slice
             /\ m.refs \in Seq(Int) /\ Len(m.refs) = l
             /\ \A s \in Nat \ {0} : Refs(m, s) = Refs(st, s) - Waiting(u, s)
           G == {k \in Nat : k <= n => Freed(g[k], SubSeq(q, 1, k))}
<1>8. \A k \in 0 .. n : /\ SubSeq(q, 1, k) \in Seq(X) /\ Len(SubSeq(q, 1, k)) = k
                        /\ \A j \in 1 .. k : SubSeq(q, 1, k)[j] = q[j]
  <2>1. TAKE k \in 0 .. n
  <2>2. k \in Nat /\ \A j \in 1 .. k : q[j] \in X
    BY <1>4, <1>5, ElementOfSeq
  <2>3. PICK u : u = SubSeq(q, 1, k)
    OBVIOUS
  <2>4. /\ u \in Seq(X) /\ Len(u) = IF 1 <= k THEN k - 1 + 1 ELSE 0
        /\ \A j \in 1 .. k - 1 + 1 : u[j] = q[1 + j - 1]
    BY <2>2, <2>3, SubSeqProperties
  <2> QED
    BY <2>2, <2>3, <2>4
<1>9. 0 \in G
  <2>1. SubSeq(q, 1, 0) = <<>>
    BY <1>8
  <2>2. \A s : Waiting(<<>>, s) = 0
    <3>1. \A s : {i \in DOMAIN <<>> : <<>>[i].slot = s} = {}
      OBVIOUS
    <3> QED
      BY <3>1, FS_EmptySet DEF Waiting
  <2>3. \A s \in Nat : Refs(st, s) \in Int
    BY KeptType
  <2>4. Freed(st, <<>>)
    BY <1>3, <2>2, <2>3 DEF Good
  <2> QED
    BY <1>7, <2>1, <2>4
<1>10. ASSUME NEW k \in G
       PROVE  k + 1 \in G
  <2>1. SUFFICES ASSUME k + 1 <= n PROVE Freed(g[k + 1], SubSeq(q, 1, k + 1))
    OBVIOUS
  <2>2. PICK m, t, u, v, p : /\ m = g[k] /\ t = g[k + 1] /\ u = SubSeq(q, 1, k)
                             /\ v = SubSeq(q, 1, k + 1) /\ p = q[k + 1]
    OBVIOUS
  <2>3. k \in Nat /\ k \in 0 .. n - 1 /\ k \in 0 .. n /\ k + 1 \in 0 .. n /\ k + 1 \in 1 .. n
    BY <2>1
  <2>4. Freed(m, u) /\ t = Receiver!Free(m, p.slot)
    BY <1>7, <2>2, <2>3 DEF Apply
  <2>5. p \in X /\ InSlots(p, l)
    BY <1>4, <1>5, <2>2, <2>3, ElementOfSeq
  <2>6. PICK z \in 0 .. l : z = p.slot
    BY <2>5 DEF InSlots
  <2>7. /\ DOMAIN t = DepacketizerFields /\ t.slice = m.slice
        /\ t.refs \in Seq(Int) /\ Len(t.refs) = Len(m.refs)
        /\ \A s \in Nat \ {0} : Refs(t, s) = Refs(m, s) - (IF s = z THEN 1 ELSE 0)
    BY <2>4, <2>6, FreeRefs
  <2>8. v = Append(u, p)
    <3>1. /\ u \in Seq(X) /\ Len(u) = k /\ \A j \in 1 .. k : u[j] = q[j]
          /\ v \in Seq(X) /\ Len(v) = k + 1 /\ \A j \in 1 .. k + 1 : v[j] = q[j]
      BY <1>8, <2>2, <2>3
    <3>2. PICK w : w = Append(u, p)
      OBVIOUS
    <3>3. /\ w \in Seq(X) /\ Len(w) = k + 1 /\ w[k + 1] = p
          /\ \A j \in 1 .. k : w[j] = u[j]
      BY <2>5, <3>1, <3>2, AppendProperties
    <3>4. \A j \in 1 .. k + 1 : v[j] = w[j]
      <4>1. \A j \in 1 .. k + 1 : j \in 1 .. k \/ j = k + 1
        BY <2>3
      <4> QED
        BY <2>2, <3>1, <3>3, <4>1
    <3> QED
      BY <3>1, <3>2, <3>3, <3>4, SeqEqual
  <2>9. Listed(u, l)
    BY <1>4, <1>8, <2>2, <2>3 DEF Listed
  <2>10. ASSUME NEW s \in Nat \ {0}
         PROVE  Refs(t, s) = Refs(st, s) - Waiting(v, s)
    <3>1. Waiting(v, s) = Waiting(u, s) + (IF p.slot = s THEN 1 ELSE 0)
      BY <2>5, <2>8, <2>9, WaitingAppend
    <3>2. PICK a \in Int, b \in Nat : a = Refs(st, s) /\ b = Waiting(u, s)
      BY <2>9, KeptType, WaitingType
    <3>3. PICK x \in {0, 1} : x = (IF s = z THEN 1 ELSE 0)
      OBVIOUS
    <3>4. Waiting(v, s) = b + x
      BY <2>6, <3>1, <3>2, <3>3
    <3>5. Refs(m, s) = a - b
      BY <2>4, <3>2
    <3>6. Refs(t, s) = (a - b) - x
      BY <2>7, <3>3, <3>5
    <3> QED
      BY <3>2, <3>3, <3>4, <3>6
  <2> QED
    BY <2>2, <2>4, <2>7, <2>10
<1>11. n \in G
  <2>1. G \in SUBSET Nat
    OBVIOUS
  <2> HIDE DEF G
  <2> QED
    BY <1>9, <1>10, <2>1, InductionOnNat
<1>12. Freed(f, q)
  <2>1. PICK u : u = SubSeq(q, 1, n)
    OBVIOUS
  <2>2. u \in Seq(X) /\ Len(u) = n /\ \A j \in 1 .. n : u[j] = q[j]
    BY <1>8, <2>1
  <2>3. u = q
    BY <1>4, <1>5, <2>2, SeqEqual
  <2>4. Freed(g[n], SubSeq(q, 1, n))
    BY <1>11
  <2>5. SubSeq(q, 1, n) = q
    BY <2>1, <2>3
  <2> HIDE DEF Freed, G
  <2> QED
    BY <1>7, <2>4, <2>5
<1>13. DOMAIN r = DepacketizerFields /\ r.queue = <<>> /\ r.slice = f.slice /\ r.refs = f.refs
  BY <1>2, <1>12 DEF DepacketizerFields
<1>14. \A s : Refs(r, s) = Refs(f, s)
  BY <1>13 DEF Refs
<1> QED
  BY <1>1, <1>3, <1>12, <1>13, <1>14

\* And so is the picture that is put together: what the caller holds is left.
LEMMA CloseStep ==
    ASSUME ReceiverInv, Receiver!CloseReceiver
    PROVE  ReceiverInv'
<1>1. PICK e, r : e = Receiver!Emptied(d) /\ r = d'
  OBVIOUS
<1>2. r = IF e.slice = Receiver!NoSlice THEN e
          ELSE [Receiver!Free(e, e.slice.slot) EXCEPT !.slice = Receiver!NoSlice]
  BY <1>1 DEF Receiver!CloseReceiver, Receiver!CloseAll
<1>3. kind' = kind /\ net' = net /\ held' = held
  BY DEF Receiver!CloseReceiver
<1>4. Good(d) /\ held \in Seq(Nat \ {0})
  BY DEF ReceiverInv
<1>5. /\ DOMAIN e = DepacketizerFields /\ e.queue = <<>> /\ e.slice = d.slice
      /\ e.refs \in Seq(Int) /\ Len(e.refs) = Len(d.refs)
      /\ \A s \in Nat \ {0} : Refs(e, s) = Refs(d, s) - Waiting(d.queue, s)
  BY <1>1, <1>4, EmptiedRefs
<1>6. PICK n \in Nat : n = Len(d.refs) /\ n = Len(e.refs)
  BY <1>5
<1>7. /\ DOMAIN r = DepacketizerFields /\ r.queue = <<>> /\ r.slice = Receiver!NoSlice
      /\ r.refs \in Seq(Int) /\ Len(r.refs) = n
      /\ \A s \in Nat \ {0} : Refs(r, s) = Refs(e, s) - InSlice(d, s)
  <2>1. CASE d.slice = Receiver!NoSlice
    <3>1. r = e
      BY <1>2, <1>5, <2>1
    <3>2. \A s : InSlice(d, s) = 0
      BY <2>1 DEF InSlice
    <3>3. \A s \in Nat \ {0} : Refs(e, s) \in Int
      BY <1>5, <1>6 DEF Refs
    <3> QED
      BY <1>5, <1>6, <2>1, <3>1, <3>2, <3>3
  <2>2. CASE d.slice # Receiver!NoSlice
    <3>1. PICK z \in 0 .. Len(e.refs) : z = d.slice.slot
      BY <1>4, <1>6, <2>2 DEF Good, InSlots
    <3>2. PICK f : f = Receiver!Free(e, z)
      OBVIOUS
    <3>3. r = [f EXCEPT !.slice = Receiver!NoSlice]
      BY <1>2, <1>5, <2>2, <3>1, <3>2
    <3>4. /\ DOMAIN f = DepacketizerFields /\ f.queue = e.queue
          /\ f.refs \in Seq(Int) /\ Len(f.refs) = Len(e.refs)
          /\ \A s \in Nat \ {0} : Refs(f, s) = Refs(e, s) - (IF s = z THEN 1 ELSE 0)
      BY <1>5, <3>2, FreeRefs
    <3>5. /\ DOMAIN r = DepacketizerFields /\ r.queue = <<>>
          /\ r.slice = Receiver!NoSlice /\ r.refs = f.refs
      BY <1>5, <3>3, <3>4 DEF DepacketizerFields
    <3>6. \A s : Refs(r, s) = Refs(f, s) /\ InSlice(d, s) = IF s = z THEN 1 ELSE 0
      BY <2>2, <3>1, <3>5 DEF Refs, InSlice
    <3> QED
      BY <1>6, <3>4, <3>5, <3>6
  <2> QED
    BY <2>1, <2>2
<1>8. Good(r)
  <2>1. r.queue \in Seq({}) /\ \A x \in {} : InSlots(x, n)
    BY <1>7
  <2>2. Listed(r.queue, n)
    BY <2>1 DEF Listed
  <2> QED
    BY <1>7, <2>2 DEF Good
<1>9. ASSUME NEW s \in Nat \ {0}
      PROVE  Refs(r, s) = Kept(r, s) + Taken(held, s)
  <2>1. PICK w \in Nat, x \in Nat, z \in Nat :
           w = Waiting(d.queue, s) /\ x = InSlice(d, s) /\ z = Taken(held, s)
    BY <1>4, KeptType, TakenType
  <2>2. Refs(d, s) = (w + x) + z
    BY <2>1 DEF ReceiverInv, Kept
  <2>3. Refs(r, s) = (((w + x) + z) - w) - x
    BY <1>5, <1>7, <2>1, <2>2
  <2>4. Kept(r, s) = 0
    <3>1. {i \in DOMAIN r.queue : r.queue[i].slot = s} = {}
      BY <1>7
    <3>2. Waiting(r.queue, s) = 0
      BY <3>1, FS_EmptySet DEF Waiting
    <3> QED
      BY <1>7, <3>2 DEF Kept, InSlice
  <2> QED
    BY <2>1, <2>3, <2>4
<1>10. Good(d)' /\ \A s : /\ Refs(d, s)' = Refs(r, s) /\ Kept(d, s)' = Kept(r, s)
                          /\ Taken(held, s)' = Taken(held, s)
  BY <1>1, <1>3, <1>8 DEF Good, Refs, Kept, InSlice, Waiting, Taken
<1>11. Carries(net)'
  BY <1>3 DEF ReceiverInv, Carries
<1> QED
  BY <1>3, <1>4, <1>9, <1>10, <1>11 DEF ReceiverInv

(* The sender and the network *)

\* NAL units of some length.
Measured(q) == \E X : q \in Seq(X) /\ \A x \in X : x.len \in Int

\* Payloads after payloads.
LEMMA CarriesConcat ==
    ASSUME NEW p, Carries(p), NEW q, Carries(q)
    PROVE  Carries(p \o q)
<1>1. PICK X : p \in Seq(X) /\ \A x \in X : Listing(x)
  BY DEF Carries
<1>2. PICK Y : q \in Seq(Y) /\ \A x \in Y : Listing(x)
  BY DEF Carries
<1>3. PICK Z : Z = X \cup Y
  OBVIOUS
<1>4. p \in Seq(Z) /\ q \in Seq(Z) /\ \A x \in Z : Listing(x)
  BY <1>1, <1>2, <1>3
<1>5. p \o q \in Seq(Z)
  BY <1>4, ConcatProperties
<1> QED
  BY <1>4, <1>5 DEF Carries

\* One payload, alone or after others.
LEMMA CarriesOne ==
    ASSUME NEW u, Listing(u)
    PROVE  Carries(<<u>>) /\ \A p : Carries(p) => Carries(Append(p, u))
<1>1. PICK X : X = {u}
  OBVIOUS
<1>2. <<u>> \in Seq(X) /\ \A x \in X : Listing(x)
  BY <1>1
<1>3. Carries(<<u>>)
  BY <1>2 DEF Carries
<1>4. ASSUME NEW p, Carries(p)
      PROVE  Carries(Append(p, u))
  <2>1. PICK Y : p \in Seq(Y) /\ \A x \in Y : Listing(x)
    BY <1>4 DEF Carries
  <2>2. PICK Z : Z = X \cup Y
    OBVIOUS
  <2>3. p \in Seq(Z) /\ u \in Z /\ \A x \in Z : Listing(x)
    BY <1>1, <1>2, <2>1, <2>2
  <2>4. Append(p, u) \in Seq(Z)
    BY <2>3, AppendProperties
  <2> QED
    BY <2>3, <2>4 DEF Carries
<1> QED
  BY <1>3, <1>4

\* Payloads that are made one by one.
LEMMA CarriesMade ==
    ASSUME NEW n \in Int, NEW p, DOMAIN p = 1 .. n, p = [i \in 1 .. n |-> p[i]],
           \A i \in 1 .. n : Listing(p[i])
    PROVE  Carries(p)
<1>1. PICK X : X = {p[i] : i \in 1 .. n}
  OBVIOUS
<1>2. \A x \in X : Listing(x)
  BY <1>1
<1>3. p \in Seq(X)
  <2>1. PICK m \in Nat : 1 .. n = 1 .. m
    <3>1. CASE n \in Nat
      BY <3>1
    <3>2. CASE n \notin Nat
      <4>1. 1 .. n = {} /\ 1 .. 0 = {} /\ 0 \in Nat
        BY <3>2
      <4> QED
        BY <4>1
    <3> QED
      BY <3>1, <3>2
  <2>2. p \in [1 .. m -> X]
    BY <1>1, <2>1
  <2> QED
    BY <2>1, <2>2
<1> QED
  BY <1>2, <1>3 DEF Carries

\* The fragments of a NAL unit.
LEMMA FragmentsCarry ==
    ASSUME Mtu \in Nat, Mtu > 3, NEW codec \in {"h264", "h265"}, NEW nal, nal.len \in Int
    PROVE  Carries(Receiver!Fragments(codec, nal))
<1>1. PICK hdr \in Nat, room \in Nat \ {0} :
         hdr = Receiver!HeaderSize[codec] /\ room = Receiver!Room(codec)
  BY DEF Receiver!HeaderSize, Receiver!Room, Receiver!FragmentHeaderSize
<1>2. PICK n \in Int : n = (nal.len - hdr + room - 1) \div room
  BY <1>1
<1>3. PICK p : p = Receiver!Fragments(codec, nal)
  OBVIOUS
<1>4. p = [i \in 1 .. n |-> Receiver!Fragment(codec, nal, hdr + (i - 1) * room)]
  BY <1>1, <1>2, <1>3 DEF Receiver!Fragments
<1>5. \A i \in 1 .. n : p[i].nals = <<nal>>
  BY <1>4 DEF Receiver!Fragment
<1>6. \A i \in 1 .. n : Listing(p[i])
  <2>1. <<nal>> \in Seq({nal})
    OBVIOUS
  <2> QED
    BY <1>5, <2>1 DEF Listing
<1> QED
  BY <1>3, <1>4, <1>6, CarriesMade

\* A NAL unit in one payload or in fragments.
LEMMA PayloadsCarry ==
    ASSUME Mtu \in Nat, Mtu > 3, NEW codec \in {"h264", "h265"}, NEW nal, nal.len \in Int
    PROVE  Carries(Receiver!Payloads(codec, nal))
<1>1. CASE nal.len <= Mtu
  <2>1. PICK u : u = Receiver!Single(nal)
    OBVIOUS
  <2>2. u.nals = <<nal>> /\ <<nal>> \in Seq({nal})
    BY <2>1 DEF Receiver!Single
  <2>3. Listing(u)
    BY <2>2 DEF Listing
  <2>4. Receiver!Payloads(codec, nal) = <<u>>
    BY <1>1, <2>1 DEF Receiver!Payloads
  <2> QED
    BY <2>3, <2>4, CarriesOne
<1>2. CASE ~(nal.len <= Mtu)
  BY <1>2, FragmentsCarry DEF Receiver!Payloads
<1> QED
  BY <1>1, <1>2

\* What WritePacket makes of an access unit.
LEMMA WritePacketCarries ==
    ASSUME Mtu \in Nat, Mtu > 3, NEW codec \in {"h264", "h265"}, NEW key, NEW sets, NEW nals,
           NEW q, q = Receiver!WithSets(key, sets, nals), Measured(q)
    PROVE  Carries(Receiver!WritePacket(codec, key, sets, nals))
<1>1. PICK X : q \in Seq(X) /\ \A x \in X : x.len \in Int
  BY DEF Measured
<1>2. PICK n \in Nat : n = Len(q)
  BY <1>1
<1>3. PICK base : base = <<>>
  OBVIOUS
<1>4. PICK r : r = Folded("send", codec, base, q)
  OBVIOUS
<1>5. Receiver!WritePacket(codec, key, sets, nals) = r
  <2>1. Receiver!WritePacket(codec, key, sets, nals)
          = Receiver!FoldLeft(LAMBDA s, e : s \o Receiver!Payloads(codec, e), base, q)
    BY <1>3 DEF Receiver!WritePacket
  <2> QED
    BY <1>4, <2>1, FoldSend
<1>6. Folds("send", codec, base, q, r)
  BY <1>1, <1>4, FoldedFolds
<1>7. PICK g : /\ g[0] = base /\ r = g[n]
               /\ \A k \in 0 .. n - 1 : g[k + 1] = Apply("send", codec, g[k], q[k + 1])
  BY <1>2, <1>6 DEF Folds
<1> DEFINE G == {k \in Nat : k <= n => Carries(g[k])}
<1>8. 0 \in G
  <2>1. base \in Seq({})
    BY <1>3
  <2>2. Carries(base)
    BY <2>1 DEF Carries
  <2> QED
    BY <1>7, <2>2
<1>9. ASSUME NEW k \in G
      PROVE  k + 1 \in G
  <2>1. SUFFICES ASSUME k + 1 <= n PROVE Carries(g[k + 1])
    OBVIOUS
  <2>2. k \in Nat /\ k \in 0 .. n - 1 /\ k + 1 \in 1 .. n
    BY <2>1
  <2>3. PICK p, nal : p = g[k] /\ nal = q[k + 1]
    OBVIOUS
  <2>7. Carries(p)
    BY <2>1, <2>2, <2>3
  <2>8. g[k + 1] = Apply("send", codec, p, nal)
    BY <1>7, <2>2, <2>3
  <2>4. Carries(p) /\ g[k + 1] = p \o Receiver!Payloads(codec, nal)
    BY <2>7, <2>8 DEF Apply
  <2>5. nal.len \in Int
    BY <1>1, <1>2, <2>2, <2>3, ElementOfSeq
  <2>6. Carries(Receiver!Payloads(codec, nal))
    BY <2>5, PayloadsCarry
  <2> QED
    BY <2>4, <2>6, CarriesConcat
<1>10. n \in G
  <2>1. G \in SUBSET Nat
    OBVIOUS
  <2> HIDE DEF G
  <2> QED
    BY <1>8, <1>9, <2>1, InductionOnNat
<1> QED
  BY <1>5, <1>7, <1>10

\* An access unit of video.
LEMMA SendVideoCarries ==
    ASSUME Mtu \in Nat, Mtu > 3, NEW codec \in {"h264", "h265"}, Receiver!SendVideo(codec)
    PROVE  \E p : Carries(p) /\ net' = net \o p
<1>1. PICK key \in BOOLEAN, lens \in {<<3>>, <<9>>, <<9, 3>>, <<3, 9>>}, v \in 1 .. 2,
           stap \in BOOLEAN :
         LET sets == IF codec = "h265" THEN Receiver!Params(v) ELSE Tail(Receiver!Params(v))
             nals == Receiver!Slices(lens, key)
             old  == IF expected = <<>> THEN 1 ELSE Receiver!Last(expected).codec.sps
         IN  /\ key \/ v = old
             /\ stap => key /\ codec = "h264"
             /\ net' = net \o (IF stap
                               THEN <<Receiver!Aggregate(sets)>>
                                    \o Receiver!WritePacket(codec, FALSE, <<>>, nals)
                               ELSE Receiver!WritePacket(codec, key, sets, nals))
             /\ expected' = expected \o
                  (IF codec = "h265"
                   THEN <<Receiver!Frame(Receiver!Data(nals), key, v)>>
                   ELSE [i \in DOMAIN nals |-> Receiver!Frame(Receiver!Whole(nals[i]), key, v)])
  BY DEF Receiver!SendVideo
<1>2. PICK params, sets, nals, no, empty :
         /\ params = Receiver!Params(v) /\ sets = IF codec = "h265" THEN params ELSE Tail(params)
         /\ nals = Receiver!Slices(lens, key) /\ no = FALSE /\ empty = <<>>
  OBVIOUS
<1>3. PICK u, single, whole :
         /\ u = Receiver!Aggregate(sets)
         /\ single = Receiver!WritePacket(codec, no, empty, nals)
         /\ whole = Receiver!WritePacket(codec, key, sets, nals)
  OBVIOUS
<1>4. net' = net \o (IF stap THEN <<u>> \o single ELSE whole)
  BY <1>1, <1>2, <1>3
<1>5. PICK X : X = {x \in {params[i] : i \in 1 .. 3} \cup {nals[i] : i \in DOMAIN nals} :
                      x.len \in Int}
  OBVIOUS
<1>6. \A x \in X : x.len \in Int
  BY <1>5
<1>7. nals \in Seq(X)
  <2>1. lens \in Seq({3, 9})
    <3>1. /\ <<3>> \in Seq({3, 9}) /\ <<9>> \in Seq({3, 9})
          /\ <<9, 3>> \in Seq({3, 9}) /\ <<3, 9>> \in Seq({3, 9})
      OBVIOUS
    <3> QED
      BY <1>1, <3>1
  <2>2. PICK n \in Nat : DOMAIN lens = 1 .. n
    BY <2>1
  <2>3. nals = [i \in 1 .. n |-> Receiver!Nal("slice", lens[i], key, i = 1, i)]
    BY <1>2, <2>2 DEF Receiver!Slices
  <2>4. \A i \in 1 .. n : nals[i].len = lens[i] /\ lens[i] \in Int
    BY <2>1, <2>2, <2>3 DEF Receiver!Nal
  <2>5. \A i \in 1 .. n : nals[i] \in X
    BY <1>5, <2>3, <2>4
  <2>6. nals \in [1 .. n -> X]
    BY <2>3, <2>5
  <2> QED
    BY <2>6
<1>8. sets \in Seq(X)
  <2>1. PICK n \in Nat : n = 3
    OBVIOUS
  <2>2. params = [i \in 1 .. n |-> Receiver!Nal(<<"vps", "sps", "pps">>[i], 4, FALSE, FALSE, v)]
    BY <1>2, <2>1 DEF Receiver!Params
  <2>3. \A i \in 1 .. n : params[i].len = 4
    BY <2>2 DEF Receiver!Nal
  <2>4. \A i \in 1 .. n : params[i] \in X
    BY <1>5, <2>1, <2>3
  <2>5. params \in [1 .. n -> X]
    BY <2>2, <2>4
  <2>6. params \in Seq(X) /\ DOMAIN params = 1 .. n
    BY <2>5
  <2>7. params # <<>>
    <3>1. Len(params) = 3
      BY <2>1, <2>6
    <3> QED
      BY <2>6, <3>1, EmptySeq
  <2>8. Tail(params) \in Seq(X)
    BY <2>6, <2>7, HeadTailProperties
  <2> QED
    BY <1>2, <2>6, <2>8
<1>9. ASSUME NEW b, NEW s \in Seq(X)
      PROVE  Carries(Receiver!WritePacket(codec, b, s, nals))
  <2>1. PICK q : q = Receiver!WithSets(b, s, nals)
    OBVIOUS
  <2>2. q \in Seq(X)
    <3>1. s \o nals \in Seq(X)
      BY <1>7, ConcatProperties
    <3> QED
      BY <1>7, <2>1, <3>1 DEF Receiver!WithSets
  <2>3. Measured(q)
    BY <1>6, <2>2 DEF Measured
  <2> QED
    BY <2>1, <2>3, WritePacketCarries
<1>10. Carries(whole)
  BY <1>3, <1>8, <1>9
<1>11. Carries(<<u>> \o single)
  <2>1. empty \in Seq(X)
    BY <1>2
  <2>2. Carries(single)
    BY <1>3, <1>9, <2>1
  <2>3. u.nals = sets
    BY <1>3 DEF Receiver!Aggregate
  <2>4. Listing(u)
    BY <1>8, <2>3 DEF Listing
  <2> QED
    BY <2>2, <2>4, CarriesOne, CarriesConcat
<1> QED
  BY <1>4, <1>10, <1>11

\* A camera's wrapper.
LEMMA SendWrapperCarries ==
    ASSUME Mtu \in Nat, Mtu > 3, Receiver!SendWrapper
    PROVE  \E p : Carries(p) /\ net' = net \o p
<1>1. PICK nal, codec : nal = Receiver!Nal("sps", 9, TRUE, TRUE, 1) /\ codec = "h264"
  OBVIOUS
<1>2. PICK p : p = Receiver!Fragments(codec, nal)
  OBVIOUS
<1>3. net' = net \o p
  BY <1>1, <1>2 DEF Receiver!SendWrapper
<1>4. nal.len \in Int
  BY <1>1 DEF Receiver!Nal
<1>5. Carries(p)
  BY <1>1, <1>2, <1>4, FragmentsCarry
<1> QED
  BY <1>3, <1>5

\* The fragments of an MJPEG frame, or a payload that cannot be read.
LEMMA SendMjpegCarries ==
    ASSUME Receiver!SendMjpeg
    PROVE  \E p : Carries(p) /\ (net' = net \o p \/ \E u : Listing(u) /\ net' = Append(net, u))
<1>1. PICK X : X = {}
  OBVIOUS
<1>2. PICK bad, none : bad = Receiver!BadPayload /\ none = <<>>
  OBVIOUS
<1>3. Listing(bad) /\ Carries(none)
  <2>1. bad.nals = none /\ none \in Seq(X)
    BY <1>2 DEF Receiver!BadPayload
  <2> QED
    BY <1>1, <2>1 DEF Listing, Carries
<1>4. CASE net' = Append(net, bad)
  BY <1>3, <1>4
<1>5. CASE net' # Append(net, bad)
  <2>1. PICK look \in {Receiver!Plain, Receiver!Restart, Receiver!Tables, Receiver!Known,
                        Receiver!Wide}, n \in {1, 2, 4} :
              LET nal == [look |-> look] @@ Receiver!Nal("jpeg", n, TRUE, TRUE, 1)
              IN  net' = net \o [i \in 1 .. n |-> [k |-> "jpeg", nals |-> <<nal>>, from |-> i - 1,
                                                   to |-> i, start |-> i = 1, end |-> i = n]]
    BY <1>2, <1>5, Zenon DEF Receiver!SendMjpeg
  <2>2. PICK nal : nal = [look |-> look] @@ Receiver!Nal("jpeg", n, TRUE, TRUE, 1)
    OBVIOUS
  <2>3. PICK p : p = [i \in 1 .. n |-> [k |-> "jpeg", nals |-> <<nal>>, from |-> i - 1,
                                        to |-> i, start |-> i = 1, end |-> i = n]]
    OBVIOUS
  <2>4. net' = net \o p
    BY <2>1, <2>2, <2>3
  <2>5. \A i \in 1 .. n : p[i].nals = <<nal>>
    BY <2>3
  <2>6. <<nal>> \in Seq({nal})
    OBVIOUS
  <2>7. \A i \in 1 .. n : Listing(p[i])
    BY <2>5, <2>6 DEF Listing
  <2>8. n \in Int /\ DOMAIN p = 1 .. n /\ p = [i \in 1 .. n |-> p[i]]
    BY <2>1, <2>3
  <2>9. Carries(p)
    BY <2>7, <2>8, CarriesMade
  <2> QED
    BY <2>4, <2>9
<1> QED
  BY <1>4, <1>5

\* Some audio, or a payload that cannot be read.
LEMMA SendAudioCarries ==
    ASSUME Receiver!SendAudio
    PROVE  \E u : Listing(u) /\ net' = Append(net, u)
<1>1. PICK X : X = {}
  OBVIOUS
<1>2. PICK bad : bad = Receiver!BadPayload
  OBVIOUS
<1>3. Listing(bad)
  <2>1. bad.nals \in Seq(X)
    BY <1>2 DEF Receiver!BadPayload
  <2> QED
    BY <2>1 DEF Listing
<1>4. CASE net' = Append(net, bad)
  BY <1>3, <1>4
<1>5. CASE net' # Append(net, bad)
  <2>1. PICK n :
           /\ n \in 1 .. 3
           /\ LET nals == [i \in 1 .. n |-> Receiver!Nal("au", i, FALSE, TRUE, 1)]
              IN  net' = Append(net, [k |-> "aus", nals |-> nals])
    BY <1>2, <1>5, Zenon DEF Receiver!SendAudio
  <2>2. PICK nals : nals = [i \in 1 .. n |-> Receiver!Nal("au", i, FALSE, TRUE, 1)]
    OBVIOUS
  <2>3. PICK u : u = [k |-> "aus", nals |-> nals]
    OBVIOUS
  <2>4. net' = Append(net, u) /\ u.nals = nals
    BY <2>1, <2>2, <2>3
  <2>5. PICK Y : Y = {nals[i] : i \in 1 .. n}
    OBVIOUS
  <2>9. n \in Nat
    BY <2>1
  <2>6. nals \in [1 .. n -> Y]
    BY <2>2, <2>5
  <2>7. nals \in Seq(Y)
    BY <2>6, <2>9
  <2>8. Listing(u)
    BY <2>4, <2>7 DEF Listing
  <2> QED
    BY <2>4, <2>8
<1> QED
  BY <1>4, <1>5

\* What is sent is added to the payloads on their way.
LEMMA SendStep ==
    ASSUME Mtu \in Nat, Mtu > 3, Codecs \subseteq {"h264", "h265", "mjpeg", "audio"},
           ReceiverInv, Receiver!Send
    PROVE  ReceiverInv'
<1>1. Carries(net) /\ kind \in {"h264", "h265", "mjpeg", "audio"}
  BY DEF ReceiverInv
<1>2. kind' = kind /\ d' = d /\ held' = held
  BY DEF Receiver!Send
<1>3. PICK w : w = net'
  OBVIOUS
<1>4. \/ Receiver!SendVideo("h264") \/ Receiver!SendWrapper \/ Receiver!SendVideo("h265")
      \/ Receiver!SendMjpeg \/ Receiver!SendAudio
  BY <1>1 DEF Receiver!Send
<1>5. \/ \E p : Carries(p) /\ w = net \o p
      \/ \E u : Listing(u) /\ w = Append(net, u)
  BY <1>3, <1>4, SendVideoCarries, SendWrapperCarries, SendMjpegCarries, SendAudioCarries
<1>6. Carries(w)
  BY <1>1, <1>5, CarriesConcat, CarriesOne
<1>7. Carries(net)'
  BY <1>3, <1>6 DEF Carries
<1> QED
  BY <1>2, <1>7 DEF ReceiverInv, Good, Refs, Kept, InSlice, Waiting, Taken

\* A payload is lost or overtaken: what is left are payloads.
LEMMA FaultStep ==
    ASSUME ReceiverInv, Receiver!Fault
    PROVE  ReceiverInv'
<1>1. PICK X : net \in Seq(X) /\ \A x \in X : Listing(x)
  BY DEF ReceiverInv, Carries
<1>2. kind' = kind /\ d' = d /\ held' = held /\ net # <<>>
  BY DEF Receiver!Fault
<1>3. PICK w : w = net'
  OBVIOUS
<1>4. w \in Seq(X)
  <2>1. CASE w = Tail(net)
    BY <1>1, <1>2, <2>1, HeadTailProperties
  <2>2. CASE w # Tail(net)
    <3>1. w = <<net[2], net[1]>> \o SubSeq(net, 3, Len(net)) /\ Len(net) > 1
      BY <1>3, <2>2 DEF Receiver!Fault
    <3>2. PICK n \in Nat : n = Len(net)
      BY <1>1
    <3>3. PICK a, b : a = net[1] /\ b = net[2]
      OBVIOUS
    <3>4. 1 \in 1 .. n /\ 2 \in 1 .. n
      BY <3>1, <3>2
    <3>5. a \in X /\ b \in X
      BY <1>1, <3>2, <3>3, <3>4, ElementOfSeq
    <3>6. PICK u, v : u = <<b, a>> /\ v = SubSeq(net, 3, n)
      OBVIOUS
    <3>7. u \in Seq(X)
      BY <3>5, <3>6
    <3>8. v \in Seq(X)
      <4>1. \A i \in 3 .. n : net[i] \in X
        BY <1>1, <3>2, ElementOfSeq
      <4> QED
        BY <3>2, <3>6, <4>1, SubSeqProperties
    <3>9. w = u \o v
      BY <3>1, <3>2, <3>3, <3>6
    <3> QED
      BY <3>7, <3>8, <3>9, ConcatProperties
  <2> QED
    BY <2>1, <2>2
<1>5. Carries(net)'
  BY <1>1, <1>3, <1>4 DEF Carries
<1> QED
  BY <1>2, <1>5 DEF ReceiverInv, Good, Refs, Kept, InSlice, Waiting, Taken

\* A payload is read.
LEMMA ReceiveStep ==
    ASSUME Codecs \subseteq {"h264", "h265", "mjpeg", "audio"}, ReceiverInv, Receiver!ReceivePayload
    PROVE  ReceiverInv'
<1>1. PICK X : net \in Seq(X) /\ \A x \in X : Listing(x)
  BY DEF ReceiverInv, Carries
<1>2. /\ kind \in {"h264", "h265", "mjpeg", "audio"} /\ Good(d) /\ held \in Seq(Nat \ {0})
  BY DEF ReceiverInv
<1>3. net # <<>> /\ net' = Tail(net) /\ kind' = kind
  BY DEF Receiver!ReceivePayload
<1>4. PICK u, w : u = Head(net) /\ w = net'
  OBVIOUS
<1>5. Listing(u) /\ Carries(w)
  <2>1. u \in X /\ w \in Seq(X)
    BY <1>1, <1>3, <1>4, HeadTailProperties
  <2> QED
    BY <1>1, <2>1 DEF Carries
<1>6. Carries(net')
  BY <1>4, <1>5
<1>7. PICK how, st : /\ st = Receiver!Read(u, how)
                     /\ IF st.err THEN d' = st /\ UNCHANGED <<held, out>> ELSE Receiver!Deliver(st)
  BY <1>4 DEF Receiver!ReceivePayload
<1>8. Keeps(d, st)
  <2>1. \/ st = Receiver!Read264(d, u, how) \/ st = Receiver!Read265(d, u, how)
        \/ st = Receiver!ReadMjpeg(d, u, how) \/ st = Receiver!ReadAudio(d, u, how)
    BY <1>2, <1>7 DEF Receiver!Read
  <2> QED
    BY <1>2, <1>5, <2>1, Read264Keeps, Read265Keeps, ReadMjpegKeeps, ReadAudioKeeps
<1>9. CASE st.err
  <2>1. d' = st /\ held' = held
    BY <1>7, <1>9
  <2>2. Good(st) /\ \A s \in Nat \ {0} : Refs(st, s) = Kept(st, s) + Taken(held, s)
    BY <1>8, ReadStep
  <2>3. Good(d)' /\ \A s : /\ Refs(d, s)' = Refs(st, s) /\ Kept(d, s)' = Kept(st, s)
                           /\ Taken(held, s)' = Taken(held, s)
    BY <2>1, <2>2 DEF Good, Refs, Kept, InSlice, Waiting, Taken
  <2>4. Carries(net)'
    BY <1>6 DEF Carries
  <2> QED
    BY <1>2, <1>3, <2>1, <2>2, <2>3, <2>4 DEF ReceiverInv
<1>10. CASE ~st.err
  BY <1>3, <1>6, <1>7, <1>8, <1>10, DeliverStep
<1> QED
  BY <1>9, <1>10

\* Every slot has as many references as it has packets, in the queue, put together
\* or with the caller, whatever is sent, lost and overtaken, and whenever the
\* depacketizer is closed: for every number of units and faults and every MTU that
\* has room for a fragment.
THEOREM ReceiverOwnsSlots ==
    ASSUME Mtu \in Nat, Mtu > 3, Codecs \subseteq {"h264", "h265", "mjpeg", "audio"}
    PROVE  Receiver!ReceiverSpec => []Receiver!SlotsOwnedOnce
<1>1. Receiver!ReceiverInit => ReceiverInv
  BY ReceiverStart
<1>2. ReceiverInv /\ [Receiver!ReceiverNext]_(Receiver!receiverVars) => ReceiverInv'
  <2> SUFFICES ASSUME ReceiverInv, [Receiver!ReceiverNext]_(Receiver!receiverVars)
               PROVE  ReceiverInv'
    OBVIOUS
  <2>1. CASE Receiver!ReceiveQueued
    <3>1. Keeps(d, d)
      BY KeepsUntouched DEF ReceiverInv, Good
    <3>2. Receiver!Deliver(d) /\ kind' = kind /\ net' = net
      BY <2>1 DEF Receiver!ReceiveQueued
    <3>3. Carries(net')
      BY <3>2 DEF ReceiverInv
    <3> QED
      BY <3>1, <3>2, <3>3, DeliverStep
  <2>2. CASE UNCHANGED Receiver!receiverVars
    BY <2>2 DEF Receiver!receiverVars, ReceiverInv, Good, Refs, Kept, InSlice, Waiting,
                Taken, Carries
  <2>3. CASE \E i \in DOMAIN held : Receiver!Release(i)
    BY <2>3, CallerReleaseStep
  <2> QED
    BY <2>1, <2>2, <2>3, ReceiveStep, CloseStep, SendStep, FaultStep DEF Receiver!ReceiverNext
<1>3. ReceiverInv => Receiver!SlotsOwnedOnce
  <2> SUFFICES ASSUME ReceiverInv, NEW s \in DOMAIN d.refs
               PROVE  d.refs[s] = Receiver!Owners(s)
    BY DEF Receiver!SlotsOwnedOnce
  <2>1. PICK n \in Nat : n = Len(d.refs) /\ DOMAIN d.refs = 1 .. n
    BY DEF ReceiverInv, Good
  <2>2. s \in Nat \ {0} /\ Refs(d, s) = d.refs[s]
    BY <2>1 DEF Refs
  <2>3. d.refs[s] = Kept(d, s) + Taken(held, s)
    BY <2>2 DEF ReceiverInv
  <2>4. {i \in DOMAIN held : held[i] = s} = PlacesIn(held, {s})
    BY DEF PlacesIn
  <2>5. Taken(held, s) = Receiver!Cardinality({i \in DOMAIN held : held[i] = s})
    BY <2>4, ReceiverCardinality DEF Taken, CountIn
  <2>6. Waiting(d.queue, s) = Receiver!Cardinality({i \in DOMAIN d.queue : d.queue[i].slot = s})
    BY ReceiverCardinality DEF Waiting
  <2>7. PICK a \in Nat, b \in Nat, c \in {0, 1} :
           a = Waiting(d.queue, s) /\ b = Taken(held, s) /\ c = InSlice(d, s)
    BY <2>2, KeptType, TakenType DEF ReceiverInv
  <2>8. d.refs[s] = (a + c) + b
    BY <2>3, <2>7 DEF Kept
  <2>9. Receiver!Owners(s) = (a + b) + c
    BY <2>5, <2>6, <2>7 DEF Receiver!Owners, InSlice
  <2> QED
    BY <2>7, <2>8, <2>9
<1> QED
  BY <1>1, <1>2, <1>3, PTL DEF Receiver!ReceiverSpec
=============================================================================
