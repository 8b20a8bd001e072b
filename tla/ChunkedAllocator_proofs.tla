----------------------- MODULE ChunkedAllocator_proofs -----------------------
(***************************************************************************)
(* Proofs about ChunkedAllocator, for every chunk size from two and every  *)
(* number of chunks: the bookkeeping of chunks and free_chunks_ is         *)
(* consistent, allocation never fails, and the allocator implements        *)
(* SlotPool.                                                               *)
(***************************************************************************)
EXTENDS ChunkedAllocator, FiniteSetTheorems, TLAPS

\* A set of slots is finite and has at most ChunkSize elements.
LEMMA SlotSets ==
  ASSUME NEW S \in SUBSET Slots
  PROVE  /\ IsFiniteSet(S)
         /\ Cardinality(S) \in Nat
         /\ Cardinality(S) <= ChunkSize
         /\ Cardinality(S) = 0 <=> S = {}
         /\ Cardinality(S) = ChunkSize <=> S = Slots
<1>1. IsFiniteSet(Slots) /\ Cardinality(Slots) = ChunkSize
  BY ChunkSizeAssumption, FS_Interval DEF Slots
<1>2. IsFiniteSet(S) /\ Cardinality(S) <= Cardinality(Slots)
      /\ (Cardinality(Slots) = Cardinality(S) => Slots = S)
  BY <1>1, FS_Subset
<1> QED
  BY <1>1, <1>2, FS_EmptySet, FS_CardinalityType

\* What the allocator's decisions rest on: the slots, the use counts and the
\* list of usable chunks agree.
Inv == TypeOK /\ NeverNull /\ ListedChunks /\ SlotsConsistent

\* The empty allocator satisfies the inductive invariant.
LEMMA InvInit == Init => Inv
<1> SUFFICES ASSUME Init PROVE Inv
  OBVIOUS
<1>1. Cardinality(Slots) = ChunkSize
  BY SlotSets
<1>2. TypeOK
  <2>1. counter \in 0..(2 * ChunkSize - 1)
    BY ChunkSizeAssumption DEF Init
  <2> QED
    BY <2>1 DEF Init, TypeOK, Addresses
<1>3. SlotsConsistent
  BY <1>1, ChunkSizeAssumption DEF Init, SlotsConsistent
<1> QED
  BY <1>2, <1>3, ChunkSizeAssumption DEF Init, Inv, NeverNull, ListedChunks

\* Taking a slot of a chunk that has one succeeds, and yields a fresh address.
LEMMA TakeSlotFresh ==
  ASSUME Inv, NEW c \in ChunkIds, used[c] < ChunkSize, TakeSlot(c)
  PROVE  /\ nullptr' = FALSE
         /\ \E s \in Slots : /\ s \in free[c] 
                             /\ <<c, s>> \notin live
                             /\ live' = live \cup {<<c, s>>}
                             /\ free' = [free EXCEPT ![c] = @ \ {s}]
                             /\ used' = [used EXCEPT ![c] = @ + 1]
<1>1. free[c] \in SUBSET Slots /\ used[c] = ChunkSize - Cardinality(free[c])
  BY DEF Inv, TypeOK, SlotsConsistent
<1>2. free[c] # {}
  BY <1>1, SlotSets, ChunkSizeAssumption
<1>3. \A s \in free[c] : <<c, s>> \notin live
  BY DEF Inv, SlotsConsistent
<1> QED
  BY <1>1, <1>2, <1>3 DEF TakeSlot, is_full, Inv, NeverNull, TypeOK

\* The chunks a cleanup destroys hold no live object but the one that is being
\* deallocated.
LEMMA DeallocateEndsOne ==
  ASSUME Inv, NEW c \in ChunkIds, NEW s \in Slots, Deallocate(c, s)
  PROVE  live' = live \ {<<c, s>>}
<1> DEFINE usedNow == [used EXCEPT ![c] = @ - 1]
           gone == IF Tick THEN EmptyChunks(usedNow) ELSE {}
<1>1. live' = {a \in live : a # <<c, s>> /\ a[1] \notin gone}
  BY DEF Deallocate
<1>2. TypeOK /\ SlotsConsistent
  BY DEF Inv
<1>3. ASSUME NEW d \in ChunkIds, d \in gone, NEW t \in Slots, <<d, t>> \in live
      PROVE  d = c /\ t = s
  <2>1. usedNow[d] = 0
    BY <1>3 DEF EmptyChunks
  <2>2. /\ free[d] \in SUBSET Slots /\ t \notin free[d]
        /\ used[d] = ChunkSize - Cardinality(free[d])
    BY <1>2, <1>3 DEF TypeOK, SlotsConsistent
  <2>3. Cardinality(free[d]) \in Nat /\ (Cardinality(free[d]) = ChunkSize => free[d] = Slots)
    BY <2>2, SlotSets
  <2>4. CASE d # c
    <3>1. used[d] = 0
      BY <1>2, <2>1, <2>4 DEF TypeOK
    <3> QED
      BY <1>3, <2>2, <2>3, <3>1, ChunkSizeAssumption
  <2>5. CASE d = c
    <3>1. used[c] = 1
      BY <1>2, <2>1, <2>5 DEF TypeOK
    <3>2. s \notin free[c] /\ free[c] \in SUBSET Slots
      BY <1>2 DEF Deallocate, TypeOK, SlotsConsistent
    <3>3. Cardinality(free[c] \cup {s}) = Cardinality(free[c]) + 1
      BY <3>2, SlotSets, FS_AddElement
    <3>4. Cardinality(free[c] \cup {s}) = ChunkSize
      BY <2>2, <2>3, <2>5, <3>1, <3>3, ChunkSizeAssumption
    <3>5. free[c] \cup {s} = Slots
      <4>1. free[c] \cup {s} \in SUBSET Slots
        BY <3>2
      <4> QED
        BY <3>4, <4>1, SlotSets
    <3> QED
      BY <1>3, <2>2, <2>5, <3>5
  <2> QED
    BY <2>4, <2>5
<1>4. live \subseteq ChunkIds \X Slots
  BY <1>2 DEF TypeOK, Addresses
<1> HIDE DEF gone
<1> QED
  <2>1. ASSUME NEW a \in live PROVE a[1] \in gone => a = <<c, s>>
    BY <1>3, <1>4
  <2> QED
    BY <1>1, <2>1

\* A chunk without used slots is all free, and nothing lives there.
LEMMA UnusedChunk ==
  ASSUME Inv, NEW d \in ChunkIds, used[d] = 0
  PROVE  free[d] = Slots /\ \A a \in live : a[1] # d
<1>1. free[d] \in SUBSET Slots /\ used[d] = ChunkSize - Cardinality(free[d])
  BY DEF Inv, TypeOK, SlotsConsistent
<1>2. Cardinality(free[d]) \in Nat
  BY <1>1, SlotSets
<1>3. Cardinality(free[d]) = ChunkSize
  BY <1>1, <1>2, ChunkSizeAssumption
<1>4. free[d] = Slots
  BY <1>1, <1>3, SlotSets
<1>5. free[d] = {s \in Slots : <<d, s>> \notin live} /\ live \subseteq ChunkIds \X Slots
  BY DEF Inv, TypeOK, Addresses, SlotsConsistent
<1>6. ASSUME NEW a \in live, a[1] = d PROVE FALSE
  <2>1. a[2] \in Slots /\ a = <<d, a[2]>>
    BY <1>5, <1>6
  <2> QED
    BY <1>4, <1>5, <2>1
<1> QED
  BY <1>4, <1>6

\* cleanup() destroys unused chunks and delists them, and nothing else changes.
LEMMA CleanUpEffect ==
  ASSUME Inv, CleanUp
  PROVE  LET gone == EmptyChunks(used)
         IN  /\ \A d \in gone : d \in chunks /\ used[d] = 0
             /\ chunks' = chunks \ gone
             /\ \A d \in ChunkIds : listed'[d] = IF d \in gone THEN 0 ELSE listed[d]
             /\ listed' \in [ChunkIds -> Nat]
             /\ UNCHANGED <<free, used, counter, live, nullptr>>
<1> DEFINE gone == EmptyChunks(used)
<1>1. \A d \in gone : d \in chunks /\ used[d] = 0
  BY DEF EmptyChunks
<1>2. /\ chunks' = chunks \ gone
      /\ free' = [d \in ChunkIds |-> IF d \in gone THEN Slots ELSE free[d]]
      /\ listed' = [d \in ChunkIds |-> IF d \in gone THEN 0 ELSE listed[d]]
      /\ live' = {a \in live : a[1] \notin gone}
      /\ UNCHANGED <<used, counter, nullptr>>
  BY DEF CleanUp
<1> HIDE DEF gone
<1>3. /\ chunks \subseteq ChunkIds /\ listed \in [ChunkIds -> Nat]
      /\ free \in [ChunkIds -> SUBSET Slots]
  BY DEF Inv, TypeOK
<1>4. ASSUME NEW d \in gone PROVE free[d] = Slots /\ \A a \in live : a[1] # d
  <2>1. d \in ChunkIds /\ used[d] = 0
    BY <1>1, <1>3
  <2> QED
    BY <2>1, UnusedChunk
<1>5. free' = free
  BY <1>2, <1>3, <1>4
<1>6. live' = live
  BY <1>2, <1>4
<1> QED
  BY <1>1, <1>2, <1>3, <1>5, <1>6 DEF gone

\* One slot of one chunk becomes live: the slots stay consistent.
LEMMA TakeSlotConsistent ==
  ASSUME Inv, NEW c \in ChunkIds, used[c] < ChunkSize, TakeSlot(c),
         c \in chunks', chunks \subseteq chunks', chunks' \subseteq ChunkIds
  PROVE  /\ free' \in [ChunkIds -> SUBSET Slots]
         /\ used' \in [ChunkIds -> Nat]
         /\ live' \subseteq Addresses
         /\ nullptr' = FALSE
         /\ SlotsConsistent'
<1>1. PICK s \in Slots :
        /\ s \in free[c]
        /\ <<c, s>> \notin live
        /\ live' = live \cup {<<c, s>>}
        /\ free' = [free EXCEPT ![c] = @ \ {s}]
        /\ used' = [used EXCEPT ![c] = @ + 1]
  BY TakeSlotFresh
<1>2. TypeOK
  BY DEF Inv
<1>3. \A d \in ChunkIds : /\ free'[d] = IF d = c THEN free[d] \ {s} ELSE free[d]
                          /\ used'[d] = IF d = c THEN used[d] + 1 ELSE used[d]
  BY <1>1, <1>2 DEF TypeOK
<1>4. \A d \in ChunkIds : free'[d] = {t \in Slots : <<d, t>> \notin live'}
  BY <1>1, <1>3 DEF Inv, SlotsConsistent
<1>5. Cardinality(free[c] \ {s}) = Cardinality(free[c]) - 1
  <2>1. IsFiniteSet(free[c])
    BY <1>2, SlotSets DEF TypeOK
  <2> QED
    BY <1>1, <2>1, FS_RemoveElement
<1>6. \A d \in ChunkIds : used'[d] = ChunkSize - Cardinality(free'[d])
  <2>1. ASSUME NEW d \in ChunkIds PROVE used'[d] = ChunkSize - Cardinality(free'[d])
    <3>1. free[d] \in SUBSET Slots /\ used[d] = ChunkSize - Cardinality(free[d])
      BY <1>2 DEF Inv, TypeOK, SlotsConsistent
    <3>2. Cardinality(free[d]) \in Nat
      BY <3>1, SlotSets
    <3>3. CASE d = c
      <4>1. used'[d] = used[c] + 1 /\ Cardinality(free'[d]) = Cardinality(free[c] \ {s})
        BY <1>3, <3>3, Zenon
      <4> QED
        BY <1>5, <3>1, <3>2, <3>3, <4>1, ChunkSizeAssumption
    <3>4. CASE d # c
      <4>1. used'[d] = used[d] /\ Cardinality(free'[d]) = Cardinality(free[d])
        BY <1>3, <3>4, Zenon
      <4> QED
        BY <3>1, <4>1
    <3> QED
      BY <3>3, <3>4
  <2> QED
    BY <2>1
<1>7. \A d \in ChunkIds : d \notin chunks' => used'[d] = 0
  BY <1>3 DEF Inv, SlotsConsistent
<1>8. /\ free' \in [ChunkIds -> SUBSET Slots] /\ used' \in [ChunkIds -> Nat]
      /\ live' \subseteq Addresses
  BY <1>1, <1>2 DEF TypeOK, Addresses
<1> QED
  BY <1>4, <1>6, <1>7, <1>8, TakeSlotFresh DEF SlotsConsistent

\* create, destroy and the sweep keep it.
LEMMA InvStep == Inv /\ [Next]_vars => Inv'
<1> SUFFICES ASSUME Inv, [Next]_vars PROVE Inv'
  OBVIOUS
<1>0. TypeOK /\ ListedChunks
  BY DEF Inv
<1>1. ASSUME NEW c \in ChunkIds, AllocateFromListed(c) PROVE Inv'
  <2>1. /\ c \in chunks /\ used[c] < ChunkSize /\ listed[c] = 1
        /\ chunks' = chunks /\ counter' = counter
    BY <1>0, <1>1 DEF AllocateFromListed, ListedChunks, TypeOK
  <2>2. TakeSlot(c)
    BY <1>1 DEF AllocateFromListed
  <2>3. /\ free' \in [ChunkIds -> SUBSET Slots] /\ used' \in [ChunkIds -> Nat]
        /\ live' \subseteq Addresses /\ nullptr' = FALSE /\ SlotsConsistent'
    BY <1>0, <2>1, <2>2, TakeSlotConsistent DEF TypeOK
  <2>4. used' = [used EXCEPT ![c] = @ + 1]
    BY <2>1, <2>2, TakeSlotFresh
  <2>5. /\ listed' \in [ChunkIds -> Nat]
        /\ \A d \in ChunkIds : listed'[d] =
             IF d # c THEN listed[d] ELSE IF used[c] + 1 >= ChunkSize THEN 0 ELSE 1
    BY <1>0, <1>1, <2>1 DEF AllocateFromListed, TypeOK
  <2>6. ListedChunks'
    BY <1>0, <2>1, <2>4, <2>5, ChunkSizeAssumption DEF ListedChunks, TypeOK
  <2>7. TypeOK'
    BY <1>0, <2>1, <2>3, <2>5, ChunkSizeAssumption DEF TypeOK
  <2> QED
    BY <2>3, <2>6, <2>7 DEF Inv, NeverNull
<1>2. ASSUME NEW c \in ChunkIds, AllocateFromNew(c) PROVE Inv'
  <2>1. /\ used[c] = 0 /\ c \notin chunks
        /\ chunks' = chunks \cup {c} /\ counter' = counter
    BY <1>2 DEF AllocateFromNew, Inv, SlotsConsistent
  <2>2. TakeSlot(c) /\ used[c] < ChunkSize
    BY <1>2, <2>1, ChunkSizeAssumption DEF AllocateFromNew
  <2>3. /\ free' \in [ChunkIds -> SUBSET Slots] /\ used' \in [ChunkIds -> Nat]
        /\ live' \subseteq Addresses /\ nullptr' = FALSE /\ SlotsConsistent'
    <3>1. c \in chunks' /\ chunks \subseteq chunks' /\ chunks' \subseteq ChunkIds
      BY <1>0, <2>1 DEF TypeOK
    <3> QED
      BY <2>2, <3>1, TakeSlotConsistent
  <2>4. used' = [used EXCEPT ![c] = @ + 1]
    BY <2>2, TakeSlotFresh
  <2>5. /\ listed' \in [ChunkIds -> Nat]
        /\ \A d \in ChunkIds : listed'[d] = IF d = c THEN 1 ELSE 0
    BY <1>0, <1>2 DEF AllocateFromNew, TypeOK
  <2>6. ListedChunks'
    BY <1>0, <2>1, <2>4, <2>5, ChunkSizeAssumption DEF ListedChunks, TypeOK
  <2>7. TypeOK'
    BY <1>0, <2>1, <2>3, <2>5, ChunkSizeAssumption DEF TypeOK
  <2> QED
    BY <2>3, <2>6, <2>7 DEF Inv, NeverNull
<1>3. ASSUME NEW c \in ChunkIds, NEW s \in Slots, Deallocate(c, s) PROVE Inv'
  <2> DEFINE usedNow == [used EXCEPT ![c] = @ - 1]
             freeNow == [free EXCEPT ![c] = @ \cup {s}]
             tick == counter + 1 >= 2 * ChunkSize
             gone == IF tick THEN EmptyChunks(usedNow) ELSE {}
             relist == ~tick /\ usedNow[c] = ChunkSize - 1
  <2>1. /\ <<c, s>> \in live /\ c \in chunks
        /\ counter' = IF tick THEN 0 ELSE counter + 1
        /\ chunks' = chunks \ gone
        /\ used' = usedNow
        /\ free' = [d \in ChunkIds |-> IF d \in gone THEN Slots ELSE freeNow[d]]
        /\ listed' = [d \in ChunkIds |->
                        IF d \in gone THEN 0
                        ELSE IF d = c /\ relist THEN listed[d] + 1 ELSE listed[d]]
        /\ live' = live \ {<<c, s>>}
        /\ nullptr' = nullptr
    BY <1>3, DeallocateEndsOne DEF Deallocate, Tick, Relists
  <2>2. \A d \in gone : d \in chunks /\ usedNow[d] = 0
    BY DEF EmptyChunks
  <2>3. relist => usedNow[c] = ChunkSize - 1 /\ ~tick
    OBVIOUS
  <2>4. counter' \in 0..(2 * ChunkSize - 1)
    BY <1>0, <2>1, ChunkSizeAssumption DEF TypeOK
  <2>5. s \notin free[c] /\ free[c] \in SUBSET Slots
        /\ used[c] = ChunkSize - Cardinality(free[c])
    BY <1>0, <2>1 DEF Inv, SlotsConsistent, TypeOK
  <2>6. used[c] \in Nat /\ used[c] > 0 /\ used[c] <= ChunkSize
    <3>1. free[c] # Slots
      BY <2>5
    <3> QED
      BY <2>5, <3>1, SlotSets, ChunkSizeAssumption
  <2>7. Cardinality(free[c] \cup {s}) = Cardinality(free[c]) + 1
    BY <2>5, SlotSets, FS_AddElement
  <2>8. /\ \A d \in ChunkIds : usedNow[d] = IF d = c THEN used[d] - 1 ELSE used[d]
        /\ \A d \in ChunkIds : freeNow[d] = IF d = c THEN free[d] \cup {s} ELSE free[d]
        /\ usedNow \in [ChunkIds -> Nat]
        /\ freeNow \in [ChunkIds -> SUBSET Slots]
    <3>1. used \in [ChunkIds -> Nat] /\ free \in [ChunkIds -> SUBSET Slots]
      BY <1>0 DEF TypeOK
    <3>2. used[c] - 1 \in Nat
      BY <2>6
    <3> QED
      BY <3>1, <3>2
  <2>9. \A d \in ChunkIds : usedNow[d] = ChunkSize - Cardinality(freeNow[d])
    <3>1. ASSUME NEW d \in ChunkIds, d # c
          PROVE  usedNow[d] = ChunkSize - Cardinality(freeNow[d])
      <4>1. usedNow[d] = used[d] /\ Cardinality(freeNow[d]) = Cardinality(free[d])
        BY <2>8, <3>1, Zenon
      <4> QED
        BY <4>1 DEF Inv, SlotsConsistent
    <3>2. usedNow[c] = ChunkSize - Cardinality(freeNow[c])
      <4>1. usedNow[c] = used[c] - 1 /\ Cardinality(freeNow[c]) = Cardinality(free[c] \cup {s})
        BY <2>8, Zenon
      <4>2. Cardinality(free[c]) \in Nat
        BY <2>5, SlotSets
      <4> QED
        BY <2>5, <2>7, <4>1, <4>2, ChunkSizeAssumption
    <3> QED
      BY <3>1, <3>2
  <2>10. \A d \in ChunkIds : freeNow[d] = {t \in Slots : <<d, t>> \notin live'}
    <3>1. \A d \in ChunkIds : free[d] = {t \in Slots : <<d, t>> \notin live}
      BY DEF Inv, SlotsConsistent
    <3> QED
      BY <2>1, <2>8, <3>1
  <2> HIDE DEF usedNow, freeNow, tick, gone, relist
  <2>11. \A d \in gone : d \in ChunkIds /\ freeNow[d] = Slots
    <3>1. ASSUME NEW d \in gone PROVE freeNow[d] = Slots
      <4>1. d \in ChunkIds /\ usedNow[d] = 0
        BY <1>0, <2>2 DEF TypeOK
      <4>2. Cardinality(freeNow[d]) = ChunkSize
        <5>1. freeNow[d] \in SUBSET Slots
          BY <2>8, <4>1
        <5>2. Cardinality(freeNow[d]) \in Nat /\ 0 = ChunkSize - Cardinality(freeNow[d])
          BY <2>9, <4>1, <5>1, SlotSets
        <5> QED
          BY <5>2, ChunkSizeAssumption
      <4> QED
        BY <2>8, <4>1, <4>2, SlotSets
    <3> QED
      BY <1>0, <2>2, <3>1 DEF TypeOK
  <2>12. \A d \in ChunkIds : free'[d] = freeNow[d]
    BY <2>1, <2>11
  <2>13. SlotsConsistent'
    <3>1. \A d \in ChunkIds : d \notin chunks' => used'[d] = 0
      <4>1. ASSUME NEW d \in ChunkIds, d \notin chunks' PROVE usedNow[d] = 0
        BY <2>1, <2>2, <2>8, <4>1 DEF Inv, SlotsConsistent
      <4> QED
        BY <2>1, <4>1
    <3> QED
      BY <2>1, <2>9, <2>10, <2>12, <3>1 DEF SlotsConsistent
  <2>14. ListedChunks'
    <3>1. ASSUME NEW d \in ChunkIds
          PROVE  listed'[d] <= 1 /\ (listed'[d] = 1 => d \in chunks' /\ used'[d] < ChunkSize)
      <4>1. CASE d \in gone
        BY <2>1, <4>1
      <4>2. CASE d \notin gone /\ d = c /\ relist
        <5>1. used[c] = ChunkSize
          BY <2>3, <2>6, <2>8, <4>2, ChunkSizeAssumption
        <5>2. listed[c] = 0
          BY <1>0, <5>1, ChunkSizeAssumption DEF ListedChunks, TypeOK
        <5> QED
          BY <2>1, <2>3, <4>2, <5>2, ChunkSizeAssumption
      <4>3. CASE d \notin gone /\ ~(d = c /\ relist)
        <5>1. listed'[d] = listed[d] /\ used'[d] <= used[d]
          <6>1. listed'[d] = listed[d]
            BY <2>1, <4>3
          <6>2. used[d] \in Nat /\ usedNow[d] \in Nat
            BY <1>0, <2>8 DEF TypeOK
          <6> QED
            BY <2>1, <2>8, <6>1, <6>2
        <5>2. d \in chunks => d \in chunks'
          BY <2>1, <4>3
        <5> QED
          BY <1>0, <2>1, <2>8, <5>1, <5>2, ChunkSizeAssumption DEF ListedChunks, TypeOK
      <4> QED
        BY <4>1, <4>2, <4>3
    <3> QED
      BY <3>1 DEF ListedChunks
  <2>15. TypeOK'
    <3>1. free' \in [ChunkIds -> SUBSET Slots]
      BY <2>1, <2>8
    <3>2. used' \in [ChunkIds -> Nat]
      BY <1>0, <2>1, <2>6 DEF usedNow, TypeOK
    <3>3. listed' \in [ChunkIds -> Nat]
      BY <1>0, <2>1 DEF TypeOK
    <3> QED
      BY <1>0, <2>1, <2>4, <3>1, <3>2, <3>3 DEF TypeOK
  <2> QED
    BY <2>1, <2>13, <2>14, <2>15 DEF Inv, NeverNull
<1>4. CASE CleanUp
  <2> DEFINE gone == EmptyChunks(used)
  <2>1. /\ \A d \in gone : d \in chunks /\ used[d] = 0
        /\ chunks' = chunks \ gone
        /\ \A d \in ChunkIds : listed'[d] = IF d \in gone THEN 0 ELSE listed[d]
        /\ listed' \in [ChunkIds -> Nat]
        /\ UNCHANGED <<free, used, counter, live, nullptr>>
    BY <1>4, CleanUpEffect
  <2> HIDE DEF gone
  <2>2. TypeOK'
    BY <1>0, <2>1 DEF TypeOK
  <2>3. ListedChunks'
    BY <1>0, <2>1 DEF ListedChunks, TypeOK
  <2>4. SlotsConsistent'
    BY <2>1 DEF Inv, SlotsConsistent
  <2> QED
    BY <2>1, <2>2, <2>3, <2>4 DEF Inv, NeverNull
<1>5. CASE UNCHANGED vars
  BY <1>5 DEF vars, Inv, TypeOK, NeverNull, ListedChunks, SlotsConsistent
<1> QED
  BY <1>1, <1>2, <1>3, <1>4, <1>5 DEF Next

\* So it always holds.
LEMMA InvCorrect == Spec => []Inv
BY InvInit, InvStep, PTL DEF Spec

\* The allocator's state keeps its types; the cleanup counter never passes twice
\* the chunk size.
THEOREM TypeCorrect == Spec => []TypeOK
<1>1. Inv => TypeOK
  BY DEF Inv
<1> QED
  BY <1>1, InvCorrect, PTL

\* get_available_chunk never chooses a full chunk: allocate() always returns
\* memory, for every chunk size from two.
THEOREM NeverNullCorrect == Spec => []NeverNull
<1>1. Inv => NeverNull
  BY DEF Inv
<1> QED
  BY <1>1, InvCorrect, PTL

\* free_chunks_ lists existing chunks with free slots, each once.
THEOREM ListedChunksCorrect == Spec => []ListedChunks
<1>1. Inv => ListedChunks
  BY DEF Inv
<1> QED
  BY <1>1, InvCorrect, PTL

\* Live and free slots partition every chunk, and no destroyed chunk had a
\* live slot.
THEOREM SlotsConsistentCorrect == Spec => []SlotsConsistent
<1>1. Inv => SlotsConsistent
  BY DEF Inv
<1> QED
  BY <1>1, InvCorrect, PTL

----------------------------------------------------------------------------
(* Steps *)

\* The empty allocator is an empty pool of slots.
LEMMA RefinesInit == Init => Pool!Init
BY DEF Init, Pool!Init

\* An allocation acquires one address, a deallocation gives one back.
LEMMA RefinesStep == Inv /\ [Next]_vars => [Pool!Next]_live
<1> SUFFICES ASSUME Inv, [Next]_vars PROVE [Pool!Next]_live
  OBVIOUS
<1>0. TypeOK /\ ListedChunks
  BY DEF Inv
<1>1. ASSUME NEW c \in ChunkIds, used[c] < ChunkSize, TakeSlot(c) PROVE Pool!Acquire
  BY <1>1, TakeSlotFresh DEF Pool!Acquire, Addresses
<1>2. ASSUME NEW c \in ChunkIds, AllocateFromListed(c) PROVE Pool!Next
  <2>1. used[c] < ChunkSize /\ TakeSlot(c)
    BY <1>0, <1>2 DEF AllocateFromListed, ListedChunks, TypeOK
  <2> QED
    BY <1>1, <2>1 DEF Pool!Next
<1>3. ASSUME NEW c \in ChunkIds, AllocateFromNew(c) PROVE Pool!Next
  <2>1. used[c] = 0
    BY <1>3 DEF AllocateFromNew, Inv, SlotsConsistent
  <2>2. used[c] < ChunkSize /\ TakeSlot(c)
    BY <1>3, <2>1, ChunkSizeAssumption DEF AllocateFromNew
  <2> QED
    BY <1>1, <2>2 DEF Pool!Next
<1>4. ASSUME NEW c \in ChunkIds, NEW s \in Slots, Deallocate(c, s) PROVE Pool!Next
  BY <1>4, DeallocateEndsOne DEF Deallocate, Pool!Next, Pool!GiveBack
<1>5. CASE CleanUp
  BY <1>5, CleanUpEffect
<1>6. CASE UNCHANGED vars
  BY <1>6 DEF vars
<1> QED
  BY <1>2, <1>3, <1>4, <1>5, <1>6 DEF Next

\* Whatever the order of allocations, deallocations and cleanups, an address
\* is handed out only while no live object has it.
THEOREM Refinement == Spec => ImplementsSlotPool
BY RefinesInit, RefinesStep, InvCorrect, PTL DEF Spec, ImplementsSlotPool, Pool!Spec

\* Capacity drops out of free_chunks_ only when the first deallocation of a
\* full chunk is the one that triggers the cleanup.
THEOREM LossOnlyAtCleanup == Spec => LostOnlyAtCleanup
<1> USE DEF Usable
<1>1. Inv /\ [Next]_vars =>
        [\A c \in chunks \cap chunks' : Usable(c) /\ ~Usable(c)'
           => used[c] = ChunkSize /\ counter = 2 * ChunkSize - 1]_vars
  <2> SUFFICES ASSUME Inv, Next, NEW c \in chunks, c \in chunks', Usable(c), ~Usable(c)'
               PROVE  used[c] = ChunkSize /\ counter = 2 * ChunkSize - 1
    BY DEF vars
  <2>0. TypeOK /\ ListedChunks /\ c \in ChunkIds
    BY DEF Inv, TypeOK
  <2>1. ASSUME NEW d \in ChunkIds, AllocateFromListed(d) PROVE FALSE
    <3>1. used[d] < ChunkSize /\ TakeSlot(d) /\ used[d] \in Nat
      BY <2>0, <2>1 DEF AllocateFromListed, ListedChunks, TypeOK
    <3>2. used' = [used EXCEPT ![d] = @ + 1]
      BY <3>1, TakeSlotFresh
    <3>3. used'[c] = (IF c = d THEN used[c] + 1 ELSE used[c])
      BY <2>0, <3>2 DEF TypeOK
    <3>4. listed'[c] = (IF c = d /\ used[c] + 1 >= ChunkSize THEN listed[c] - 1 ELSE listed[c])
      BY <2>0, <2>1 DEF AllocateFromListed, TypeOK
    <3> QED
      BY <2>0, <3>1, <3>3, <3>4, ChunkSizeAssumption DEF TypeOK
  <2>2. ASSUME NEW d \in ChunkIds, AllocateFromNew(d) PROVE FALSE
    <3>1. used[d] = 0 /\ d # c
      BY <2>2 DEF AllocateFromNew, Inv, SlotsConsistent
    <3>2. used[d] < ChunkSize /\ TakeSlot(d)
      BY <2>2, <3>1, ChunkSizeAssumption DEF AllocateFromNew
    <3>3. used' = [used EXCEPT ![d] = @ + 1]
      BY <3>2, TakeSlotFresh
    <3>4. used'[c] = used[c] /\ listed'[c] = listed[c]
      BY <2>0, <2>2, <3>1, <3>3 DEF AllocateFromNew, TypeOK
    <3> QED
      BY <3>4
  <2>3. ASSUME NEW d \in ChunkIds, NEW s \in Slots, Deallocate(d, s)
        PROVE  used[c] = ChunkSize /\ counter = 2 * ChunkSize - 1
    <3> DEFINE usedNow == [used EXCEPT ![d] = @ - 1]
               tick == counter + 1 >= 2 * ChunkSize
               gone == IF tick THEN EmptyChunks(usedNow) ELSE {}
               relist == ~tick /\ usedNow[d] = ChunkSize - 1
    <3>1. /\ used' = usedNow /\ chunks' = chunks \ gone
          /\ listed' = [e \in ChunkIds |->
                          IF e \in gone THEN 0
                          ELSE IF e = d /\ relist THEN listed[e] + 1 ELSE listed[e]]
      BY <2>3 DEF Deallocate, Tick, Relists
    <3>2. usedNow[c] = IF c = d THEN used[c] - 1 ELSE used[c]
      BY <2>0 DEF TypeOK
    <3> HIDE DEF usedNow, gone
    <3>3. c \notin gone
      BY <3>1
    <3>4. listed'[c] = IF c = d /\ relist THEN listed[c] + 1 ELSE listed[c]
      BY <2>0, <3>1, <3>3
    <3>5. listed[c] \in Nat /\ counter \in 0..(2 * ChunkSize - 1)
      BY <2>0 DEF TypeOK
    <3>6. used[c] = ChunkSize /\ c = d /\ ~relist
      BY <3>1, <3>2, <3>4, <3>5
    <3>7. tick
      BY <3>2, <3>6, ChunkSizeAssumption
    <3> QED
      BY <3>5, <3>6, <3>7, ChunkSizeAssumption
  <2>4. CASE CleanUp
    <3>1. used'[c] = used[c] /\ (c \in chunks' => listed'[c] = listed[c])
      BY <2>0, <2>4, CleanUpEffect
    <3> QED
      BY <3>1
  <2> QED
    BY <2>1, <2>2, <2>3, <2>4 DEF Next
<1> HIDE DEF Usable
<1> QED
  BY <1>1, InvCorrect, PTL DEF Spec, LostOnlyAtCleanup
=============================================================================
