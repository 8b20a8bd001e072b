-------------------------- MODULE ChunkedAllocator --------------------------
(***************************************************************************)
(* ChunkedAllocator: the allocator behind the lists of heap cells and of   *)
(* upvalue cells.  Memory comes in chunks of ChunkSize slots; free_chunks_ *)
(* names the chunks an allocation may use; every 2 * ChunkSize             *)
(* deallocations the empty chunks are destroyed.                           *)
(*                                                                         *)
(* Abstracted: a chunk's free list is the set of its free slots (an        *)
(* allocation takes any of them instead of the one freed last) and         *)
(* free_chunks_ is the number of times it lists each chunk (an allocation  *)
(* takes any listed chunk instead of the one listed last).                 *)
(***************************************************************************)
EXTENDS Integers, FiniteSets

CONSTANTS
  ChunkIds,   \* addresses chunks are created at: bounds how many exist at once
  ChunkSize   \* slots of a chunk (1024 in the code)

ASSUME ChunkSizeAssumption == ChunkSize \in Nat /\ ChunkSize >= 2

VARIABLES
  chunks,     \* chunks_
  free,       \* the slots of each chunk's free_list
  used,       \* Chunk::used
  listed,     \* how often free_chunks_ lists each chunk
  counter,    \* cleanup_counter
  live,       \* the slots the list holds
  nullptr     \* has allocate() returned nullptr?

vars == <<chunks, free, used, listed, counter, live, nullptr>>

Slots == 1..ChunkSize
Addresses == ChunkIds \X Slots

Init ==
  /\ chunks = {}
  /\ free = [c \in ChunkIds |-> Slots]
  /\ used = [c \in ChunkIds |-> 0]
  /\ listed = [c \in ChunkIds |-> 0]
  /\ counter = 0
  /\ live = {}
  /\ nullptr = FALSE

----------------------------------------------------------------------------
(* Chunk *)

is_full(c) == free[c] = {}

\* Chunk::allocate
TakeSlot(c) ==
  IF is_full(c)
  THEN nullptr' = TRUE /\ UNCHANGED <<free, used, live>>
  ELSE \E s \in free[c] :
         /\ free' = [free EXCEPT ![c] = @ \ {s}]
         /\ used' = [used EXCEPT ![c] = @ + 1]
         /\ live' = live \cup {<<c, s>>}
         /\ UNCHANGED nullptr

----------------------------------------------------------------------------
(* allocate(1) *)

\* Mutant: the chunk is delisted one allocation late.
AllocateFromListedLate(c) ==
  /\ listed[c] > 0
  /\ listed' = [listed EXCEPT ![c] = IF used[c] + 1 > ChunkSize THEN @ - 1 ELSE @]
  /\ TakeSlot(c)
  /\ UNCHANGED <<chunks, counter>>

\* get_available_chunk takes a listed chunk, and delists it with its last slot.
AllocateFromListed(c) ==
  /\ listed[c] > 0
  /\ listed' = [listed EXCEPT ![c] = IF used[c] + 1 >= ChunkSize THEN @ - 1 ELSE @]
  /\ TakeSlot(c)
  /\ UNCHANGED <<chunks, counter>>

\* get_available_chunk creates and lists a chunk when none is listed.
AllocateFromNew(c) ==
  /\ \A d \in ChunkIds : listed[d] = 0
  /\ c \in ChunkIds \ chunks
  /\ chunks' = chunks \cup {c}
  /\ listed' = [listed EXCEPT ![c] = @ + 1]
  /\ TakeSlot(c)
  /\ UNCHANGED counter

----------------------------------------------------------------------------
(* deallocate(ptr, 1) *)

\* Mutant: a chunk with one used slot counts as empty.
AlmostEmptyChunks(usedNow) ==
  IF Cardinality(chunks) <= 1 THEN {} ELSE {d \in chunks : usedNow[d] <= 1}

\* The chunks cleanup_empty_chunks destroys, given the updated use counts.
EmptyChunks(usedNow) ==
  IF Cardinality(chunks) <= 1 THEN {} ELSE {d \in chunks : usedNow[d] = 0}

\* Mutants: the cleanup comes one deallocation late; every deallocation lists
\* its chunk again; none does.
TickLate == counter + 1 > 2 * ChunkSize
RelistsAlways(n) == TRUE
RelistsNever(n) == n = ChunkSize

\* Does this deallocation clean up?
Tick == counter + 1 >= 2 * ChunkSize

\* Was the chunk, of which n slots remain in use, full until now?
Relists(n) == n = ChunkSize - 1

\* Every 2 * ChunkSize-th deallocation, over all chunks, cleans up instead of
\* looking whether the chunk has to be listed again.  What lies in a
\* destroyed chunk is gone; its memory is reset, as the constructor of the next
\* chunk there would do.
Deallocate(c, s) ==
  LET usedNow == [used EXCEPT ![c] = @ - 1]
      freeNow == [free EXCEPT ![c] = @ \cup {s}]
      gone == IF Tick THEN EmptyChunks(usedNow) ELSE {}
      relist == ~Tick /\ Relists(usedNow[c])
  IN  /\ <<c, s>> \in live
      /\ c \in chunks
      /\ counter' = IF Tick THEN 0 ELSE counter + 1
      /\ chunks' = chunks \ gone
      /\ used' = usedNow
      /\ free' = [d \in ChunkIds |-> IF d \in gone THEN Slots ELSE freeNow[d]]
      /\ listed' = [d \in ChunkIds |->
                      IF d \in gone THEN 0
                      ELSE IF d = c /\ relist THEN listed[d] + 1 ELSE listed[d]]
      /\ live' = {a \in live : a # <<c, s>> /\ a[1] \notin gone}
      /\ UNCHANGED nullptr

\* The public cleanup(), which the lists may call at any time.
CleanUp ==
  LET gone == EmptyChunks(used)
  IN  /\ chunks' = chunks \ gone
      /\ free' = [d \in ChunkIds |-> IF d \in gone THEN Slots ELSE free[d]]
      /\ listed' = [d \in ChunkIds |-> IF d \in gone THEN 0 ELSE listed[d]]
      /\ live' = {a \in live : a[1] \notin gone}
      /\ UNCHANGED <<used, counter, nullptr>>

Next ==
  \/ \E c \in ChunkIds : AllocateFromListed(c)
  \/ \E c \in ChunkIds : AllocateFromNew(c)
  \/ \E c \in ChunkIds, s \in Slots : Deallocate(c, s)
  \/ CleanUp

Spec == Init /\ [][Next]_vars

----------------------------------------------------------------------------
(* Properties *)

TypeOK ==
  /\ chunks \subseteq ChunkIds
  /\ free \in [ChunkIds -> SUBSET Slots]
  /\ used \in [ChunkIds -> Nat]
  /\ listed \in [ChunkIds -> Nat]
  /\ counter \in 0..(2 * ChunkSize - 1)
  /\ live \subseteq Addresses
  /\ nullptr \in BOOLEAN

\* allocate() never returns nullptr: get_available_chunk decides by the use
\* count, Chunk::allocate by the free list, and they never disagree.
NeverNull == ~nullptr

\* free_chunks_ lists existing chunks only, each at most once, and a chunk can
\* be listed only while it has a free slot: relisting in deallocate, delisting
\* in get_available_chunk and the erasure in cleanup_empty_chunks cancel out.
ListedChunks ==
  \A c \in ChunkIds :
    /\ listed[c] <= 1
    /\ listed[c] = 1 => c \in chunks /\ used[c] < ChunkSize

\* Every slot of an existing chunk is live or free, never both, its use count
\* is the number of live slots, and no live slot lies in a destroyed chunk:
\* cleanup_empty_chunks destroys no chunk the lists still use.
SlotsConsistent ==
  \A c \in ChunkIds :
    /\ free[c] = {s \in Slots : <<c, s>> \notin live}
    /\ used[c] = ChunkSize - Cardinality(free[c])
    /\ c \notin chunks => used[c] = 0

\* All of the chunk's capacity is in use or available to allocate().
Usable(c) == used[c] = ChunkSize \/ listed[c] > 0

\* A chunk with free slots drops out of free_chunks_ in one way only: it was
\* full and its first deallocation fell on the cleanup tick.
LostOnlyAtCleanup ==
  [][\A c \in chunks \cap chunks' :
       Usable(c) /\ ~Usable(c)' => used[c] = ChunkSize /\ counter = 2 * ChunkSize - 1]_vars

Pool == INSTANCE SlotPool

\* The allocator implements SlotPool: no address is handed out twice.
ImplementsSlotPool == Pool!Spec
=============================================================================
