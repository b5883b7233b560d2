------------------------ MODULE PersistentMemoryProofs ------------------------
(***************************************************************************)
(* Proofs about the persistent memory allocator, for any number of         *)
(* threads, any requests, any size of the segment and of its pages, and    *)
(* any writers killed at any step.  IndInv is inductive; it implies the    *)
(* invariants of PersistentMemory, and under it each step is a step of     *)
(* IterableLog or leaves the log alone.                                    *)
(***************************************************************************)
EXTENDS PersistentMemory, DataFacts, FiniteSetTheorems, TLAPS

kMinBlock == kBlockHeader + kAllocAlignment

(***************************************************************************)
(* The inductive invariant.  At is the place a writer works on, Extent the *)
(* bytes it has claimed there and not yet given a header.                  *)
(***************************************************************************)

At(t) == writer[t].freeptr
Pending == {t \in Writers : writer[t].pc \in {"waste", "fill"}}
Extent(t) == IF writer[t].pc = "waste" THEN PageFree(At(t)) ELSE writer[t].size
Used == {r \in Refs : block[r].cookie # "free"}

\* A value that freeptr has or had: a block always fits there, or a page ends.
Place(p) ==
    /\ kSharedMetadata <= p
    /\ p <= freeptr
    /\ p % kAllocAlignment = 0
    /\ PageFree(p) >= kMinBlock

Space ==
    /\ Place(freeptr)
    /\ freeptr <= mem_size
    /\ \A t \in Writers :
        /\ writer[t].pc \in {"get", "allocate", "try", "waste", "fill"} =>
            /\ writer[t].size >= AllocSize(t)
            /\ writer[t].size % kAllocAlignment = 0
        /\ writer[t].pc \in {"try", "waste", "fill"} => Place(At(t))
    /\ \A t \in Pending :
        /\ Extent(t) >= kMinBlock
        /\ Extent(t) <= PageFree(At(t))
        /\ At(t) + Extent(t) <= freeptr

Headers ==
    /\ \A r \in Refs :
        /\ block[r].cookie # "queue"
        /\ block[r].cookie = "free" => block[r] = FreeBlock
    /\ \A r \in Used :
        /\ block[r].size >= kMinBlock
        /\ block[r].size <= PageFree(r)
        /\ r + block[r].size <= freeptr

\* What has been claimed is claimed once.
Disjoint ==
    /\ \A r, s \in Used : r < s => r + block[r].size <= s
    /\ \A t \in Pending : \A r \in Used :
        r + block[r].size <= At(t) \/ At(t) + Extent(t) <= r
    /\ \A t, u \in Pending :
        t # u => At(t) + Extent(t) <= At(u) \/ At(u) + Extent(u) <= At(t)

\* From the filling of its header until it is linked, a block is its writer's.
Owning == {"store", "purge", "mark", "load_tail", "link", "help"}
Owned ==
    /\ \A t \in Writers : writer[t].pc \in Owning =>
        /\ writer[t].ref \in Refs
        /\ block[writer[t].ref].cookie = "allocated"
        /\ block[writer[t].ref].size >= AllocSize(t)
        /\ block[writer[t].ref].type = kType
        /\ block[writer[t].ref].next =
            IF writer[t].pc \in {"store", "purge", "mark"} THEN Null ELSE kReferenceQueue
        /\ \A i \in DOMAIN log : log[i] # writer[t].ref
    /\ \A t, u \in Writers :
        /\ writer[t].pc \in Owning /\ writer[u].pc \in Owning
        /\ t # u
        => writer[t].ref # writer[u].ref

\* A writer's idea of the tail is not ahead of the tail pointer.
Tails ==
    \A t \in Writers : writer[t].pc \in {"link", "help", "swing"} =>
        \E i, k \in 0 .. Len(log) :
            /\ i <= k
            /\ writer[t].tail = Node(i)
            /\ tailptr = Node(k)
            /\ writer[t].pc = "help" => i < Len(log) /\ writer[t].next = Node(i + 1)
            /\ writer[t].pc = "swing" => i < Len(log) /\ writer[t].ref = Node(i + 1)

\* A reader's idea of the last record is not ahead of the iterator's.
Lasts ==
    \A t \in Readers :
        /\ reader[t].due <= Len(log)
        /\ reader[t].pc = "end" => reader[t].due <= handed
        /\ reader[t].pc \in {"next", "advance"} =>
            \E i \in 0 .. handed :
                /\ reader[t].last = Node(i)
                /\ reader[t].pc = "advance" => i < Len(log) /\ reader[t].next = Node(i + 1)

\* The readers that have moved the iterator and not counted their record yet.
Checking == {t \in Readers : reader[t].pc = "check"}
Counts ==
    /\ IsFiniteSet(Checking)
    /\ record_count + Cardinality(Checking) = handed
    /\ \A t \in Readers : reader[t].count <= record_count

Delayed ==
    /\ reference # Null =>
        /\ block[reference].cookie = "allocated"
        /\ block[reference].type = kType
        /\ \A g \in Getters : block[reference].size >= AllocSize(g)
    /\ \A t \in Writers :
        /\ writer[t].pc \in {"get", "store", "purge"} => t \in Getters
        /\ writer[t].pc \in {"store", "purge"} => writer[t].ref # reference
        /\ writer[t].pc = "purge" => reference # Null
        /\ /\ t \in Getters
           /\ writer[t].pc \in {"mark", "load_tail", "link", "help", "swing", "done"}
           => reference # Null /\ writer[t].ref = reference
    /\ \A i \in DOMAIN log : block[log[i]].type = kType

IndInv ==
    /\ TypeOK
    /\ NeverCorrupt
    /\ Space
    /\ Headers
    /\ Disjoint
    /\ Owned
    /\ QueueIsLog
    /\ Tails
    /\ Lasts
    /\ Counts
    /\ Delayed

------------------------------------------------------------------------------
\* What is left of a page at p (AllocateImpl's page_free): it is aligned where p is,
\* a block within it does not cross the page's end, and the page ends in the segment.
LEMMA PageFreeFacts ==
    ASSUME NEW p \in Nat
    PROVE  /\ PageFree(p) \in 1 .. mem_page
           /\ p % kAllocAlignment = 0 => PageFree(p) % kAllocAlignment = 0
           /\ PageFree(p + PageFree(p)) = mem_page
           /\ \A s \in Nat : s < PageFree(p) => PageFree(p + s) = PageFree(p) - s
           /\ \A s \in Nat : 0 < s /\ s <= PageFree(p) =>
                 p \div mem_page = (p + s - 1) \div mem_page
           /\ p < mem_size => p + PageFree(p) <= mem_size
  <1>a. mem_page \in Nat \ {0} /\ mem_page % 8 = 0 /\ mem_size \in Nat /\ mem_size % mem_page = 0
    BY MemoryAssumption, PageAssumption DEF kAllocAlignment
  <1>1. PageFree(p) \in 1 .. mem_page
    BY <1>a DEF PageFree
  <1>2. ASSUME p % 8 = 0 PROVE PageFree(p) % 8 = 0
    <2> DEFINE q == p \div mem_page
    <2>1. p = mem_page * q + (p % mem_page) /\ p % mem_page \in Nat /\ q \in Nat
      BY <1>a, DivMod
    <2> HIDE DEF q
    <2>2. PICK k \in Nat : mem_page = 8 * k
      BY <1>a
    <2>3. mem_page * q = 8 * (k * q) /\ k * q \in Nat
      BY <2>1, <2>2
    <2>4. (p % mem_page) % 8 = 0
      BY <2>1, <2>3, <1>2
    <2> QED BY <2>4, <2>1, <1>a DEF PageFree
  <1>3. PageFree(p + PageFree(p)) = mem_page
    <2>1. (p + (mem_page - (p % mem_page))) % mem_page = 0
      BY <1>a, DivMod
    <2> QED BY <2>1, <1>a DEF PageFree
  <1>4. ASSUME NEW s \in Nat, s < PageFree(p) PROVE PageFree(p + s) = PageFree(p) - s
    <2>1. (p + s) % mem_page = (p % mem_page) + s
      BY <1>4, <1>a, DivMod DEF PageFree
    <2>2. p % mem_page \in Nat
      BY <1>a, DivMod
    <2> QED BY <2>1, <2>2, <1>a DEF PageFree
  <1>5. ASSUME NEW s \in Nat, 0 < s, s <= PageFree(p)
        PROVE  p \div mem_page = (p + s - 1) \div mem_page
    <2>1. s - 1 \in Nat /\ s - 1 < mem_page - (p % mem_page)
      BY <1>5, <1>1, <1>a DEF PageFree
    <2>2. (p + (s - 1)) \div mem_page = p \div mem_page
      BY <2>1, <1>a, DivMod
    <2> QED BY <2>2
  <1>6. ASSUME p < mem_size PROVE p + PageFree(p) <= mem_size
    <2> DEFINE q == p \div mem_page
               n == mem_size \div mem_page
    <2>1. /\ q \in Nat /\ n \in Nat
          /\ p = mem_page * q + (p % mem_page)
          /\ mem_size = mem_page * n
      BY <1>a, DivMod
    <2>2. p % mem_page \in Nat
      BY <1>a, DivMod
    <2> HIDE DEF q, n
    <2>3. mem_page * q < mem_page * n
      BY <2>1, <2>2, <1>6, <1>a
    <2>5. mem_page * (q + 1) <= mem_page * n
      BY <2>1, <2>3, <1>a, TimesLess
    <2>6. mem_page * (q + 1) = mem_page * q + mem_page /\ mem_page * q \in Nat
      BY <2>1, <1>a
    <2>7. p + PageFree(p) = mem_page * (q + 1)
      <3> DEFINE x == mem_page * q
                 r == p % mem_page
      <3>1. /\ x \in Nat /\ r \in Nat /\ p = x + r
            /\ PageFree(p) = mem_page - r /\ mem_page * (q + 1) = x + mem_page
        BY <2>1, <2>2, <2>6, <1>a DEF PageFree
      <3> HIDE DEF x, r
      <3> QED BY <3>1, <1>a
    <2> QED BY <2>1, <2>5, <2>7
  <1> QED BY <1>1, <1>2, <1>3, <1>4, <1>5, <1>6 DEF kAllocAlignment

\* The part of it that most steps need.
LEMMA PageFreeNat ==
    \A p \in Nat : PageFree(p) \in Nat /\ PageFree(p) <= mem_page
  <1> SUFFICES ASSUME NEW p \in Nat
               PROVE  PageFree(p) \in Nat /\ PageFree(p) <= mem_page
    OBVIOUS
  <1>1. PageFree(p) \in 1 .. mem_page
    BY PageFreeFacts
  <1> QED BY <1>1, MemoryAssumption

\* Requests are aligned and have room for a header and something in it.
LEMMA AllocSizeFacts ==
    ASSUME NEW t \in Writers
    PROVE  /\ AllocSize(t) \in Nat
           /\ AllocSize(t) >= kMinBlock
           /\ AllocSize(t) % kAllocAlignment = 0
  <1>1. ReqSize[t] \in Nat /\ ReqSize[t] > 0
    BY ThreadsAssumption
  <1> QED BY <1>1 DEF AllocSize, RoundUp, kMinBlock, kBlockHeader, kAllocAlignment

\* References lie behind the metadata, leave room for a header and are aligned.
LEMMA RefsFacts ==
    /\ Refs \subseteq Nat
    /\ kReferenceQueue \notin Refs
    /\ Null \notin Refs
    /\ Null # kReferenceQueue
    /\ \A r \in Nat : r \in Refs <=>
          /\ kSharedMetadata <= r
          /\ r + kBlockHeader <= mem_size
          /\ r % kAllocAlignment = 0
  BY MemoryAssumption DEF Refs, kReferenceQueue, kSharedMetadata, kBlockHeader,
     kAllocAlignment

\* What a reader's step leaves alone.
LEMMA ReaderFrame ==
    ASSUME IndInv, UNCHANGED <<freeptr, tailptr, block, reference, writer, log>>
    PROVE  /\ Space' /\ Headers' /\ Disjoint' /\ Owned' /\ Tails' /\ Delayed'
  <1>1. Space' /\ Headers' /\ Disjoint'
    BY DEF IndInv, Space, Headers, Disjoint, Place, Pending, Used, At, Extent
  <1>2. Owned' /\ Tails' /\ Delayed'
    BY DEF IndInv, Owned, Tails, Delayed, Node
  <1> QED BY <1>1, <1>2

\* A writer that is not concerned with the queue, before and after its step.
LEMMA Bystander ==
    ASSUME IndInv, NEW t \in Writers,
           \A u \in Writers : u # t => writer'[u] = writer[u],
           writer'[t].pc \notin Owning \cup {"get", "swing", "done"},
           UNCHANGED <<tailptr, block, reference, iterator, reader, history>>
    PROVE  /\ Owned' /\ QueueIsLog' /\ Tails' /\ Lasts' /\ Counts' /\ Delayed'
  <1>1. Owned'
    BY DEF IndInv, Owned, history, Owning
  <1>2. QueueIsLog' /\ Lasts'
    BY DEF IndInv, QueueIsLog, Lasts, Node, IsAllocated, iterator, history
  <1>3. Tails'
    BY DEF IndInv, Tails, Node, history, Owning
  <1>4. Counts'
    BY DEF IndInv, Counts, Checking, iterator, history
  <1>5. Delayed'
    BY DEF IndInv, Delayed, Owning, history
  <1> QED BY <1>1, <1>2, <1>3, <1>4, <1>5

\* What is claimed lies below freeptr.
LEMMA Ranges ==
    ASSUME IndInv
    PROVE  /\ freeptr \in Nat
           /\ \A t \in Writers : At(t) \in Nat
           /\ \A t \in Pending :
                /\ At(t) \in Nat /\ Extent(t) \in Nat
                /\ Extent(t) > 0
                /\ At(t) + Extent(t) <= freeptr
           /\ \A r \in Used :
                /\ r \in Nat /\ block[r].size \in Nat
                /\ block[r].size > 0
                /\ r + block[r].size <= freeptr
  <1>1. freeptr \in Nat /\ \A t \in Writers : At(t) \in Nat /\ writer[t].size \in Nat
    BY DEF IndInv, TypeOK, WriterRecord, At
  <1>2. ASSUME NEW t \in Pending
        PROVE  /\ At(t) \in Nat /\ Extent(t) \in Nat
               /\ Extent(t) > 0
               /\ At(t) + Extent(t) <= freeptr
    <2>1. At(t) \in Nat /\ Extent(t) \in Nat
      BY <1>1, PageFreeNat DEF Extent, Pending
    <2> QED BY <2>1 DEF IndInv, Space, kMinBlock, kBlockHeader, kAllocAlignment
  <1>3. ASSUME NEW r \in Used
        PROVE  /\ r \in Nat /\ block[r].size \in Nat
               /\ block[r].size > 0
               /\ r + block[r].size <= freeptr
    <2>1. r \in Nat /\ block[r].size \in Nat
      BY RefsFacts DEF Used, IndInv, TypeOK, BlockHeader
    <2> QED BY <2>1 DEF IndInv, Headers, kMinBlock, kBlockHeader, kAllocAlignment
  <1> QED BY <1>1, <1>2, <1>3

\* A writer loads freeptr, or an exchange that fails loads it.
LEMMA Reload ==
    ASSUME IndInv, NEW t \in Writers,
           \A u \in Writers : u # t => writer'[u] = writer[u],
           writer'[t].pc = "try",
           writer'[t].freeptr = freeptr,
           writer'[t].size >= AllocSize(t),
           writer'[t].size % kAllocAlignment = 0,
           UNCHANGED <<freeptr, block>>
    PROVE  Space' /\ Headers' /\ Disjoint'
  <1>1. Space'
    BY DEF IndInv, Space, Place, Pending, At, Extent
  <1>2. Headers' /\ Disjoint'
    BY DEF IndInv, Headers, Disjoint, Pending, Used, At, Extent
  <1> QED BY <1>1, <1>2

\* An exchange of freeptr claims the next e bytes.
LEMMA Claim ==
    ASSUME IndInv, NEW t \in Writers, NEW e \in Nat,
           \A u \in Writers : u # t => writer'[u] = writer[u],
           writer'[t].pc \in {"waste", "fill"},
           writer'[t].freeptr = freeptr,
           writer'[t].size >= AllocSize(t),
           writer'[t].size % kAllocAlignment = 0,
           Extent(t)' = e,
           e >= kMinBlock,
           e <= PageFree(freeptr),
           freeptr' = freeptr + e,
           freeptr' <= mem_size,
           freeptr' % kAllocAlignment = 0,
           PageFree(freeptr') >= kMinBlock,
           UNCHANGED block
    PROVE  Space' /\ Headers' /\ Disjoint'
  <1>1. At(t)' = freeptr /\ freeptr' \in Nat /\ freeptr < freeptr'
    BY Ranges DEF At, kMinBlock, kBlockHeader, kAllocAlignment
  <1>2. Space'
    <2>1. \A q \in Nat : Place(q) => Place(q)'
      BY <1>1, Ranges DEF Place
    <2>2. Place(freeptr)' /\ Place(freeptr)
      BY <1>1, Ranges DEF IndInv, Space, Place, kSharedMetadata
    <2>3. ASSUME NEW u \in Writers
          PROVE  /\ writer'[u].pc \in {"get", "allocate", "try", "waste", "fill"} =>
                     /\ writer'[u].size >= AllocSize(u)
                     /\ writer'[u].size % kAllocAlignment = 0
                 /\ writer'[u].pc \in {"try", "waste", "fill"} => Place(At(u))'
      <3>1. CASE u # t
        BY <3>1, <2>1, Ranges DEF IndInv, Space, At
      <3>2. CASE u = t
        BY <3>2, <1>1, <2>1, <2>2, Ranges DEF At
      <3> QED BY <3>1, <3>2
    <2>4. ASSUME NEW u \in Pending'
          PROVE  /\ Extent(u)' >= kMinBlock
                 /\ Extent(u)' <= PageFree(At(u)')
                 /\ At(u)' + Extent(u)' <= freeptr'
      <3>1. CASE u # t
        <4>1. u \in Pending /\ At(u)' = At(u) /\ Extent(u)' = Extent(u)
          BY <3>1 DEF Pending, At, Extent
        <4> QED BY <4>1, <1>1, Ranges DEF IndInv, Space
      <3>2. CASE u = t
        BY <3>2, <1>1, Ranges
      <3> QED BY <3>1, <3>2
    <2> QED BY <2>2, <2>3, <2>4 DEF Space
  <1>3. Used' = Used /\ block' = block
    BY DEF Used
  <1>4. Headers'
    BY <1>1, <1>3, Ranges DEF IndInv, Headers
  <1>5. Disjoint'
    <2>1. \A u \in Pending' : u # t =>
            u \in Pending /\ At(u)' = At(u) /\ Extent(u)' = Extent(u)
      BY DEF Pending, At, Extent
    <2> QED BY <1>1, <1>3, <2>1, Ranges DEF IndInv, Disjoint
  <1> QED BY <1>2, <1>4, <1>5

\* A writer has the fields of one.
LEMMA WriterTyped ==
    ASSUME IndInv, NEW t \in Writers
    PROVE  writer[t] \in WriterRecord
  BY DEF IndInv, TypeOK

\* AllocateImpl loads freeptr.
LEMMA LoadFreeptrStep ==
    ASSUME IndInv, NEW t \in Writers, LoadFreeptr(t)
    PROVE  IndInv'
  <1>0. [writer[t] EXCEPT !.pc = "try", !.freeptr = freeptr] \in WriterRecord
    BY WriterTyped DEF IndInv, TypeOK, WriterRecord
  <1>1. /\ \A u \in Writers : u # t => writer'[u] = writer[u]
        /\ writer'[t].pc = "try"
        /\ writer'[t].freeptr = freeptr
        /\ writer'[t].size = writer[t].size
        /\ writer[t].pc = "allocate"
        /\ UNCHANGED <<segment, iterator, reader, history>>
    BY DEF IndInv, TypeOK, WriterRecord, LoadFreeptr
  <1>2. TypeOK' /\ NeverCorrupt'
    <2>1. writer' \in [Writers -> WriterRecord]
      BY <1>0 DEF IndInv, TypeOK, LoadFreeptr
    <2> QED BY <1>1, <2>1 DEF IndInv, TypeOK, NeverCorrupt, IsCorrupt, segment, iterator, history
  <1>3. writer[t].size >= AllocSize(t) /\ writer[t].size % kAllocAlignment = 0
    BY <1>1 DEF IndInv, Space
  <1>4. Space' /\ Headers' /\ Disjoint'
    BY <1>1, <1>3, Reload DEF segment
  <1>5. Owned' /\ QueueIsLog' /\ Tails' /\ Lasts' /\ Counts' /\ Delayed'
    BY <1>1, Bystander DEF segment, Owning
  <1> QED BY <1>2, <1>4, <1>5 DEF IndInv

\* AllocateImpl fails for want of space only: the branches that set the corrupt flag
\* are never taken.
LEMMA AllocateFailsStep ==
    ASSUME IndInv, NEW t \in Writers, AllocateFails(t)
    PROVE  IndInv'
  <1>0. [writer[t] EXCEPT !.pc = "failed"] \in WriterRecord
    BY WriterTyped DEF WriterRecord
  <1>1. /\ \A u \in Writers : u # t => writer'[u] = writer[u]
        /\ writer'[t].pc = "failed"
        /\ writer[t].pc = "try"
        /\ UNCHANGED <<freeptr, tailptr, block, reference, iterator, reader, history>>
    BY DEF IndInv, TypeOK, WriterRecord, AllocateFails, Goto
  <1>2. flags' \in {flags, flags \cup {"full"}}
    <2>1. /\ At(t) \in Nat /\ writer[t].size \in Nat
          /\ writer[t].size >= kMinBlock /\ PageFree(At(t)) >= kMinBlock
      <3>1. At(t) \in Nat /\ writer[t].size \in Nat
        BY DEF IndInv, TypeOK, WriterRecord, At
      <3>2. writer[t].size >= AllocSize(t) /\ PageFree(At(t)) >= kMinBlock
        BY <1>1 DEF IndInv, Space, Place
      <3> QED BY <3>1, <3>2, AllocSizeFacts DEF kMinBlock, kBlockHeader, kAllocAlignment
    <2>2. PageFree(At(t)) \in Nat /\ mem_size \in Nat
      BY <2>1, PageFreeFacts, MemoryAssumption
    <2> QED BY <2>1, <2>2 DEF IndInv, NeverCorrupt, AllocateFails, TooBig, SetFlag, At,
               kMinBlock, kBlockHeader, kAllocAlignment
  <1>3. TypeOK' /\ NeverCorrupt'
    <2>1. writer' \in [Writers -> WriterRecord]
      BY <1>0 DEF IndInv, TypeOK, AllocateFails, Goto
    <2> QED BY <1>1, <1>2, <2>1 DEF IndInv, TypeOK, NeverCorrupt, IsCorrupt, iterator, history
  <1>4. Space' /\ Headers' /\ Disjoint'
    BY <1>1 DEF IndInv, Space, Place, Pending, At, Extent, Headers, Disjoint, Used
  <1>5. Owned' /\ QueueIsLog' /\ Tails' /\ Lasts' /\ Counts' /\ Delayed'
    BY <1>1, Bystander DEF Owning
  <1> QED BY <1>3, <1>4, <1>5 DEF IndInv

\* What a writer knows when its request fits into the segment.
LEMMA TryFacts ==
    ASSUME IndInv, NEW t \in Writers, writer[t].pc = "try", ~TooBig(t)
    PROVE  LET p == At(t) IN
           /\ p \in Nat /\ p >= kSharedMetadata /\ p % kAllocAlignment = 0
           /\ p + kBlockHeader <= mem_size /\ p \in Refs
           /\ writer[t].size \in Nat /\ writer[t].size >= kMinBlock
           /\ writer[t].size >= AllocSize(t)
           /\ writer[t].size % kAllocAlignment = 0
           /\ PageFree(p) \in Nat /\ PageFree(p) >= kMinBlock
           /\ PageFree(p) % kAllocAlignment = 0
           /\ p + PageFree(p) <= mem_size
           /\ PageFree(p + PageFree(p)) = mem_page /\ mem_page >= kMinBlock
           /\ mem_page \in Nat
  <1>1. At(t) \in Nat /\ writer[t].size \in Nat /\ mem_size \in Nat /\ mem_page \in Nat
    BY MemoryAssumption DEF IndInv, TypeOK, WriterRecord, At
  <1>2. /\ writer[t].size >= AllocSize(t) /\ writer[t].size % kAllocAlignment = 0
        /\ Place(At(t))
    BY DEF IndInv, Space
  <1>3. writer[t].size >= kMinBlock
    BY <1>1, <1>2, AllocSizeFacts DEF kMinBlock, kBlockHeader, kAllocAlignment
  <1>4. At(t) + writer[t].size <= mem_size
    BY <1>1 DEF TooBig, At
  <1>5. /\ PageFree(At(t)) \in Nat /\ PageFree(At(t)) <= mem_page
        /\ PageFree(At(t)) % kAllocAlignment = 0
        /\ PageFree(At(t) + PageFree(At(t))) = mem_page
        /\ At(t) < mem_size => At(t) + PageFree(At(t)) <= mem_size
    <2> DEFINE p == At(t)
    <2>1. p \in Nat /\ p % kAllocAlignment = 0
      BY <1>1, <1>2 DEF Place
    <2> HIDE DEF p
    <2>2. /\ PageFree(p) \in Nat /\ PageFree(p) <= mem_page
          /\ PageFree(p) % kAllocAlignment = 0
          /\ PageFree(p + PageFree(p)) = mem_page
          /\ p < mem_size => p + PageFree(p) <= mem_size
      BY <2>1, PageFreeFacts, PageFreeNat
    <2> QED BY <2>2 DEF p
  <1>6. At(t) + kBlockHeader <= mem_size /\ At(t) < mem_size
    BY <1>1, <1>3, <1>4 DEF kMinBlock, kBlockHeader, kAllocAlignment
  <1> QED BY <1>1, <1>2, <1>3, <1>5, <1>6, RefsFacts
          DEF Place, kMinBlock, kBlockHeader, kAllocAlignment

\* The rest of a page is claimed, to be marked as wasted.
LEMMA SkipPageStep ==
    ASSUME IndInv, NEW t \in Writers, SkipPage(t)
    PROVE  IndInv'
  <1>0. /\ [writer[t] EXCEPT !.pc = "waste"] \in WriterRecord
        /\ [writer[t] EXCEPT !.freeptr = freeptr] \in WriterRecord
    BY DEF IndInv, TypeOK, WriterRecord
  <1>1. /\ \A u \in Writers : u # t => writer'[u] = writer[u]
        /\ writer[t].pc = "try" /\ ~TooBig(t)
        /\ writer'[t].pc \in {"try", "waste"}
        /\ writer'[t].size = writer[t].size
        /\ UNCHANGED <<tailptr, flags, block, reference, iterator, reader, history>>
    BY DEF IndInv, TypeOK, WriterRecord, SkipPage, Goto
  <1>2. \/ /\ writer'[t].pc = "waste" /\ writer'[t].freeptr = freeptr
           /\ At(t) = freeptr
           /\ freeptr' = freeptr + PageFree(freeptr)
        \/ writer'[t].pc = "try" /\ writer'[t].freeptr = freeptr /\ freeptr' = freeptr
    BY DEF IndInv, TypeOK, WriterRecord, SkipPage, Goto, At
  <1>3. TypeOK' /\ NeverCorrupt'
    <2>1. writer' \in [Writers -> WriterRecord]
      BY <1>0 DEF IndInv, TypeOK, SkipPage, Goto
    <2>2. freeptr' \in Nat
      BY <1>2, Ranges, PageFreeNat
    <2> QED BY <1>1, <2>1, <2>2 DEF IndInv, TypeOK, NeverCorrupt, IsCorrupt, iterator, history
  <1>4. Space' /\ Headers' /\ Disjoint'
    <2>1. writer[t].size >= AllocSize(t) /\ writer[t].size % kAllocAlignment = 0
      BY <1>1, TryFacts
    <2>2. CASE writer'[t].pc = "waste"
      <3> DEFINE e == PageFree(freeptr)
      <3>1. /\ e \in Nat /\ e >= kMinBlock
            /\ freeptr' = freeptr + e
            /\ freeptr' <= mem_size
            /\ freeptr' % kAllocAlignment = 0
            /\ PageFree(freeptr') >= kMinBlock
            /\ writer'[t].freeptr = freeptr
        BY <2>2, <1>1, <1>2, TryFacts DEF kAllocAlignment
      <3>2. Extent(t)' = e /\ e <= PageFree(freeptr)
        BY <3>1, <2>2 DEF Extent, At
      <3> HIDE DEF e
      <3> QED BY <3>1, <3>2, <2>1, <2>2, <1>1, Claim
    <2>3. CASE writer'[t].pc = "try"
      BY <2>1, <2>3, <1>1, <1>2, Reload
    <2> QED BY <2>2, <2>3, <1>1
  <1>5. Owned' /\ QueueIsLog' /\ Tails' /\ Lasts' /\ Counts' /\ Delayed'
    BY <1>1, Bystander DEF Owning
  <1> QED BY <1>3, <1>4, <1>5 DEF IndInv

\* Space is claimed for a block, which may grow to the end of its page.
LEMMA ClaimSpaceStep ==
    ASSUME IndInv, NEW t \in Writers, ClaimSpace(t)
    PROVE  IndInv'
  <1> DEFINE p == At(t)
             e == Grown(writer[t].size, PageFree(p))
  <1>0. /\ writer[t].pc = "try" /\ ~TooBig(t)
        /\ writer[t].size <= PageFree(p)
    BY DEF ClaimSpace, At
  <1>1. /\ e \in Nat /\ e >= AllocSize(t) /\ e >= kMinBlock
        /\ e % kAllocAlignment = 0
        /\ e <= PageFree(p)
        /\ p + e <= mem_size
        /\ (p + e) % kAllocAlignment = 0
        /\ PageFree(p + e) >= kMinBlock
    <2>1. CASE e = PageFree(p)
      BY <2>1, <1>0, TryFacts, AllocSizeFacts DEF kAllocAlignment, kMinBlock, kBlockHeader
    <2>2. CASE e = writer[t].size /\ e < PageFree(p) /\ PageFree(p) - e >= kMinBlock
      <3>1. PageFree(p + e) = PageFree(p) - e
        <4>1. p \in Nat /\ e \in Nat
          BY <2>2, <1>0, TryFacts
        <4> HIDE DEF p, e
        <4> QED BY <4>1, <2>2, PageFreeFacts
      <3>2. /\ e \in Nat /\ e >= AllocSize(t) /\ e >= kMinBlock
            /\ e % kAllocAlignment = 0
            /\ p \in Nat /\ p % kAllocAlignment = 0
            /\ PageFree(p) \in Nat /\ p + PageFree(p) <= mem_size
            /\ mem_size \in Nat
        BY <2>2, <1>0, TryFacts, MemoryAssumption
      <3> HIDE DEF p, e
      <3> QED BY <2>2, <3>1, <3>2 DEF kAllocAlignment
    <2> QED BY <2>1, <2>2, <1>0, TryFacts DEF Grown, kAllocAlignment, kMinBlock, kBlockHeader
  <1> HIDE DEF e
  <1>2. /\ [writer[t] EXCEPT !.pc = "fill", !.size = e] \in WriterRecord
        /\ [writer[t] EXCEPT !.freeptr = freeptr, !.size = e] \in WriterRecord
    BY <1>1 DEF IndInv, TypeOK, WriterRecord
  <1>3. /\ IF freeptr = p
           THEN /\ freeptr' = freeptr + e
                /\ writer' = [writer EXCEPT ![t].pc = "fill", ![t].size = e]
           ELSE /\ writer' = [writer EXCEPT ![t].freeptr = freeptr, ![t].size = e]
                /\ UNCHANGED freeptr
        /\ UNCHANGED <<tailptr, flags, block, reference, iterator, reader, history>>
    BY DEF ClaimSpace, e, At
  <1>4. /\ \A u \in Writers : u # t => writer'[u] = writer[u]
        /\ writer'[t].pc \in {"try", "fill"}
        /\ writer'[t].size = e
        /\ writer'[t].freeptr = freeptr
        /\ writer'[t].pc = "fill" => p = freeptr /\ freeptr' = freeptr + e
        /\ writer'[t].pc = "try" => freeptr' = freeptr
    BY <1>0, <1>3 DEF IndInv, TypeOK, WriterRecord, At
  <1>5. TypeOK' /\ NeverCorrupt'
    <2>1. writer' \in [Writers -> WriterRecord]
      BY <1>2, <1>3 DEF IndInv, TypeOK
    <2>2. freeptr' \in Nat
      BY <1>1, <1>3, Ranges
    <2> QED BY <1>3, <2>1, <2>2 DEF IndInv, TypeOK, NeverCorrupt, IsCorrupt, iterator, history
  <1>6. Space' /\ Headers' /\ Disjoint'
    <2>1. CASE writer'[t].pc = "fill"
      <3>1. Extent(t)' = e
        BY <2>1, <1>4 DEF Extent
      <3> QED BY <3>1, <2>1, <1>1, <1>3, <1>4, Claim
    <2>2. CASE writer'[t].pc = "try"
      BY <2>2, <1>1, <1>3, <1>4, Reload
    <2> QED BY <2>1, <2>2, <1>4
  <1>7. Owned' /\ QueueIsLog' /\ Tails' /\ Lasts' /\ Counts' /\ Delayed'
    BY <1>3, <1>4, Bystander DEF Owning
  <1> QED BY <1>5, <1>6, <1>7 DEF IndInv

\* The header that a writer is about to fill in is free, and nobody's.
LEMMA PendingFacts ==
    ASSUME IndInv, NEW t \in Pending
    PROVE  /\ At(t) \in Refs /\ At(t) \notin Used
           /\ block[At(t)] = FreeBlock
           /\ \A u \in Writers : writer[u].pc \in Owning => writer[u].ref # At(t)
           /\ \A i \in DOMAIN log : log[i] # At(t)
           /\ reference # At(t)
  <1>1. t \in Writers /\ At(t) \in Nat /\ Extent(t) \in Nat /\ freeptr \in Nat
    BY Ranges DEF Pending
  <1>2. /\ kSharedMetadata <= At(t) /\ At(t) % kAllocAlignment = 0
        /\ Extent(t) >= kMinBlock
        /\ At(t) + Extent(t) <= freeptr /\ freeptr <= mem_size
    BY <1>1 DEF Pending, IndInv, Space, Place
  <1>3. At(t) \in Refs
    BY <1>1, <1>2, RefsFacts, MemoryAssumption DEF kMinBlock, kBlockHeader, kAllocAlignment
  <1>4. At(t) \notin Used
    BY <1>1, Ranges DEF IndInv, Disjoint
  <1>5. block[At(t)] = FreeBlock
    BY <1>3, <1>4 DEF Used, IndInv, Headers
  <1>6. block[At(t)].cookie = "free"
    BY <1>5 DEF FreeBlock
  <1>7. \A u \in Writers : writer[u].pc \in Owning => writer[u].ref # At(t)
    BY <1>6 DEF IndInv, Owned
  <1>8. \A i \in DOMAIN log : log[i] # At(t)
    BY <1>6 DEF IndInv, QueueIsLog, IsAllocated
  <1>9. reference # At(t)
    BY <1>3, <1>6, RefsFacts DEF IndInv, Delayed
  <1> QED BY <1>3, <1>4, <1>5, <1>7, <1>8, <1>9

\* The queue and the readers do not see a header that is not in the queue.
LEMMA QueueFrame ==
    ASSUME IndInv, NEW r \in Refs,
           \A i \in DOMAIN log : log[i] # r,
           \A s \in Refs \cup {kReferenceQueue} : s # r => block'[s] = block[s],
           UNCHANGED <<tailptr, iterator, reader, history>>
    PROVE  /\ QueueIsLog' /\ Lasts' /\ Counts'
           /\ \A i \in DOMAIN log : block'[log[i]] = block[log[i]]
  <1>1. \A i \in 0 .. Len(log) : Node(i) \in Refs \cup {kReferenceQueue} /\ Node(i) # r
    BY RefsFacts DEF Node, IndInv, TypeOK
  <1>2. \A i \in DOMAIN log : log[i] \in Refs /\ log[i] # r
    BY DEF IndInv, TypeOK
  <1>3. QueueIsLog'
    <2>1. \A i \in DOMAIN log : IsAllocated(log[i])'
      BY <1>2 DEF IndInv, QueueIsLog, IsAllocated, history
    <2>2. \A i \in 0 .. Len(log) : block'[Node(i)] = block[Node(i)]
      BY <1>1
    <2>3. \A i : Node(i)' = Node(i)
      BY DEF Node, history
    <2> QED BY <2>1, <2>2, <2>3 DEF IndInv, QueueIsLog, iterator, history
  <1>4. Lasts'
    BY DEF IndInv, Lasts, Node, history
  <1>5. Counts'
    BY DEF IndInv, Counts, Checking, iterator, history
  <1> QED BY <1>2, <1>3, <1>4, <1>5

\* The header of a claimed block is filled in.
LEMMA Settle ==
    ASSUME IndInv, NEW t \in Pending,
           \A u \in Writers : u # t => writer'[u] = writer[u],
           writer'[t].pc \notin {"waste", "fill", "get", "allocate"},
           writer'[t].pc = "try" => /\ writer'[t].freeptr = writer[t].freeptr
                                    /\ writer'[t].size = writer[t].size,
           NEW b \in BlockHeader,
           b.cookie \in {"wasted", "allocated"},
           b.size = Extent(t),
           block' = [block EXCEPT ![At(t)] = b],
           UNCHANGED freeptr
    PROVE  Space' /\ Headers' /\ Disjoint'
  <1> DEFINE r == At(t)
  <1>0. t \in Writers /\ r \in Refs /\ r \notin Used /\ r \in Nat
    BY PendingFacts, RefsFacts DEF Pending
  <1>1. /\ block'[r] = b
        /\ \A s \in Refs \cup {kReferenceQueue} : s # r => block'[s] = block[s]
    BY <1>0 DEF IndInv, TypeOK
  <1>2. Used' = Used \cup {r}
    BY <1>0, <1>1 DEF Used
  <1>3. \A u \in Pending' : /\ u \in Pending /\ u # t
                            /\ At(u)' = At(u) /\ Extent(u)' = Extent(u)
    BY DEF Pending, At, Extent
  <1>4. Space'
    <2>1. \A q : Place(q)' <=> Place(q)
      BY DEF Place
    <2>2. \A u \in Writers : u # t => At(u)' = At(u)
      BY DEF At
    <2>3. writer'[t].pc = "try" => At(t)' = At(t)
      BY DEF At
    <2> QED BY <1>0, <1>3, <2>1, <2>2, <2>3 DEF IndInv, Space, Pending, Place
  <1>5. Headers'
    <2>1. /\ b.size >= kMinBlock /\ b.size <= PageFree(r) /\ r + b.size <= freeptr
      BY DEF IndInv, Space
    <2> QED BY <1>0, <1>1, <1>2, <2>1 DEF IndInv, Headers, Used
  <1>6. Disjoint'
    <2>1. \A s \in Used : s + block[s].size <= r \/ r + Extent(t) <= s
      BY DEF IndInv, Disjoint
    <2>2. \A s \in Used : block'[s] = block[s]
      BY <1>0, <1>1 DEF Used
    <2>3. \A u \in Pending : u # t => At(t) + Extent(t) <= At(u) \/ At(u) + Extent(u) <= At(t)
      BY DEF IndInv, Disjoint
    <2>4. ASSUME NEW x \in Used', NEW y \in Used', x < y
          PROVE  x + block'[x].size <= y
      BY <2>1, <2>2, <2>4, <1>0, <1>1, <1>2, Ranges DEF IndInv, Disjoint
    <2>5. ASSUME NEW u \in Pending', NEW x \in Used'
          PROVE  x + block'[x].size <= At(u)' \/ At(u)' + Extent(u)' <= x
      BY <2>2, <2>3, <1>1, <1>2, <1>3 DEF IndInv, Disjoint
    <2>6. ASSUME NEW u \in Pending', NEW v \in Pending', u # v
          PROVE  At(u)' + Extent(u)' <= At(v)' \/ At(v)' + Extent(v)' <= At(u)'
      BY <2>6, <1>3 DEF IndInv, Disjoint
    <2> QED BY <2>4, <2>5, <2>6 DEF Disjoint
  <1> QED BY <1>4, <1>5, <1>6

\* The rest of a page gets its header.
LEMMA MarkWastedStep ==
    ASSUME IndInv, NEW t \in Writers, MarkWasted(t)
    PROVE  IndInv'
  <1> DEFINE r == At(t)
             b == [FreeBlock EXCEPT !.size = PageFree(r), !.cookie = "wasted"]
  <1>0. [writer[t] EXCEPT !.pc = "try"] \in WriterRecord
    BY WriterTyped DEF WriterRecord
  <1>1. /\ \A u \in Writers : u # t => writer'[u] = writer[u]
        /\ writer[t].pc = "waste"
        /\ writer'[t].pc = "try"
        /\ writer'[t].freeptr = writer[t].freeptr /\ writer'[t].size = writer[t].size
        /\ UNCHANGED <<freeptr, tailptr, flags, reference, iterator, reader, history>>
    BY DEF IndInv, TypeOK, WriterRecord, MarkWasted, Goto
  <1>2. t \in Pending /\ Extent(t) = PageFree(r)
    BY <1>1 DEF Pending, Extent
  <1>3. r \in Refs /\ PageFree(r) \in Nat
    BY <1>2, PendingFacts, PageFreeNat, RefsFacts
  <1>4. b \in BlockHeader /\ b.cookie = "wasted" /\ b.size = PageFree(r)
    BY <1>3 DEF BlockHeader, FreeBlock
  <1>5. block' = [block EXCEPT ![r] = b]
    BY <1>2, <1>3, PendingFacts DEF MarkWasted, At, IndInv, TypeOK
  <1>6. \A s \in Refs \cup {kReferenceQueue} : s # r => block'[s] = block[s]
    BY <1>5, <1>3 DEF IndInv, TypeOK
  <1> HIDE DEF b
  <1>7. TypeOK' /\ NeverCorrupt'
    <2>1. writer' \in [Writers -> WriterRecord]
      BY <1>0 DEF IndInv, TypeOK, MarkWasted, Goto
    <2>2. block' \in [Refs \cup {kReferenceQueue} -> BlockHeader]
      BY <1>3, <1>4, <1>5 DEF IndInv, TypeOK
    <2> QED BY <1>1, <2>1, <2>2 DEF IndInv, TypeOK, NeverCorrupt, IsCorrupt, iterator, history
  <1>8. Space' /\ Headers' /\ Disjoint'
    BY <1>1, <1>2, <1>4, <1>5, Settle
  <1>9. /\ QueueIsLog' /\ Lasts' /\ Counts'
        /\ \A i \in DOMAIN log : block'[log[i]] = block[log[i]]
    BY <1>1, <1>2, <1>3, <1>6, PendingFacts, QueueFrame
  <1>10. Owned'
    <2>1. \A u \in Writers : writer[u].pc \in Owning =>
             writer[u].ref \in Refs /\ block'[writer[u].ref] = block[writer[u].ref]
      BY <1>2, <1>6, PendingFacts DEF IndInv, Owned
    <2> QED BY <1>1, <2>1 DEF IndInv, Owned, Owning, history
  <1>11. Tails'
    BY <1>1 DEF IndInv, Tails, Node, history
  <1>12. Delayed'
    <2>1. reference # Null => block'[reference] = block[reference]
      BY <1>2, <1>6, PendingFacts DEF IndInv, TypeOK
    <2> QED BY <1>1, <1>9, <2>1 DEF IndInv, Delayed, history
  <1> QED BY <1>7, <1>8, <1>9, <1>10, <1>11, <1>12 DEF IndInv

\* A block gets its header: what was there is all zeros, whoever was killed before.
LEMMA FillHeaderStep ==
    ASSUME IndInv, NEW t \in Writers, FillHeader(t)
    PROVE  IndInv'
  <1> DEFINE r == At(t)
             b == [FreeBlock EXCEPT !.size = writer[t].size, !.cookie = "allocated", !.type = kType]
             pc == IF t \in Getters THEN "store" ELSE "mark"
  <1>1. writer[t].pc = "fill" /\ t \in Pending /\ Extent(t) = writer[t].size
    BY DEF FillHeader, Pending, Extent
  <1>2. r \in Refs /\ writer[t].size \in Nat
    BY <1>1, PendingFacts DEF IndInv, TypeOK, WriterRecord
  <1>p. \/ pc = "store" /\ t \in Getters
        \/ pc = "mark" /\ t \notin Getters
    OBVIOUS
  <1> HIDE DEF pc
  <1>3. [writer[t] EXCEPT !.ref = r, !.pc = pc] \in WriterRecord
    BY <1>p, <1>2, WriterTyped DEF WriterRecord
  <1>4. /\ block' = [block EXCEPT ![r].size = writer[t].size,
                                  ![r].cookie = "allocated", ![r].type = kType]
        /\ writer' = [writer EXCEPT ![t].ref = r, ![t].pc = pc]
        /\ UNCHANGED <<freeptr, tailptr, flags, reference, iterator, reader, history>>
    BY <1>1, PendingFacts DEF FillHeader, At, pc
  <1>5. /\ \A u \in Writers : u # t => writer'[u] = writer[u]
        /\ writer'[t].pc = pc /\ writer'[t].ref = r
        /\ writer'[t].pc \in {"store", "mark"}
        /\ UNCHANGED <<freeptr, tailptr, flags, reference, iterator, reader, history>>
    BY <1>p, <1>4 DEF IndInv, TypeOK, WriterRecord
  <1>6. /\ b \in BlockHeader /\ b.cookie = "allocated" /\ b.size = writer[t].size
        /\ b.type = kType /\ b.next = Null
    BY <1>2 DEF BlockHeader, FreeBlock
  <1>7. block' = [block EXCEPT ![r] = b]
    BY <1>1, <1>2, <1>4, PendingFacts DEF IndInv, TypeOK
  <1>8. /\ block'[r] = b
        /\ \A s \in Refs \cup {kReferenceQueue} : s # r => block'[s] = block[s]
    BY <1>7, <1>2 DEF IndInv, TypeOK
  <1> HIDE DEF b
  <1>9. TypeOK' /\ NeverCorrupt'
    <2>1. writer' \in [Writers -> WriterRecord]
      BY <1>3, <1>4 DEF IndInv, TypeOK
    <2>2. block' \in [Refs \cup {kReferenceQueue} -> BlockHeader]
      BY <1>2, <1>6, <1>7 DEF IndInv, TypeOK
    <2> QED BY <1>4, <2>1, <2>2 DEF IndInv, TypeOK, NeverCorrupt, IsCorrupt, iterator, history
  <1>10. Space' /\ Headers' /\ Disjoint'
    BY <1>1, <1>5, <1>6, <1>7, Settle
  <1>11. /\ QueueIsLog' /\ Lasts' /\ Counts'
         /\ \A i \in DOMAIN log : block'[log[i]] = block[log[i]]
    BY <1>1, <1>2, <1>4, <1>8, PendingFacts, QueueFrame
  <1>12. Owned'
    <2>1. \A u \in Writers : writer[u].pc \in Owning =>
             /\ writer[u].ref \in Refs /\ writer[u].ref # r
             /\ block'[writer[u].ref] = block[writer[u].ref]
      BY <1>1, <1>8, PendingFacts DEF IndInv, Owned
    <2>2. writer[t].size >= AllocSize(t) /\ \A i \in DOMAIN log : log[i] # r
      BY <1>1, PendingFacts DEF IndInv, Space
    <2>3. ASSUME NEW u \in Writers, writer'[u].pc \in Owning
          PROVE  /\ writer'[u].ref \in Refs
                 /\ block'[writer'[u].ref].cookie = "allocated"
                 /\ block'[writer'[u].ref].size >= AllocSize(u)
                 /\ block'[writer'[u].ref].type = kType
                 /\ block'[writer'[u].ref].next =
                      IF writer'[u].pc \in {"store", "purge", "mark"} THEN Null ELSE kReferenceQueue
                 /\ \A i \in DOMAIN log' : log'[i] # writer'[u].ref
      <3>1. CASE u = t
        BY <3>1, <1>2, <1>5, <1>6, <1>8, <2>2 DEF history
      <3>2. CASE u # t
        BY <3>2, <2>3, <2>1, <1>5 DEF IndInv, Owned, history
      <3> QED BY <3>1, <3>2
    <2> QED BY <1>5, <2>1, <2>3 DEF IndInv, Owned
  <1>13. Tails'
    BY <1>5 DEF IndInv, Tails, Node, history
  <1>14. Delayed'
    <2>1. reference # r /\ (reference # Null => block'[reference] = block[reference])
      BY <1>1, <1>8, PendingFacts DEF IndInv, TypeOK
    <2> QED BY <1>p, <1>5, <1>11, <2>1 DEF IndInv, Delayed, history
  <1> QED BY <1>9, <1>10, <1>11, <1>12, <1>13, <1>14 DEF IndInv

------------------------------------------------------------------------------
\* A step that claims nothing and leaves the sizes and cookies of blocks alone.
LEMMA SpaceFrame ==
    ASSUME IndInv, NEW t \in Writers,
           \A u \in Writers : u # t => writer'[u] = writer[u],
           writer'[t].pc \notin {"get", "try", "waste", "fill"},
           writer'[t].pc = "allocate" =>
               writer[t].pc = "get" /\ writer'[t].size = writer[t].size,
           \A r \in Refs : /\ block'[r].size = block[r].size
                           /\ block'[r].cookie = block[r].cookie
                           /\ block[r].cookie = "free" => block'[r] = block[r],
           UNCHANGED freeptr
    PROVE  Space' /\ Headers' /\ Disjoint'
  <1>1. \A u \in Pending' : /\ u \in Pending /\ u # t
                            /\ At(u)' = At(u) /\ Extent(u)' = Extent(u)
    BY DEF Pending, At, Extent
  <1>2. Used' = Used /\ \A r \in Used : r \in Refs
    BY DEF Used
  <1>3. Space'
    <2>1. \A q : Place(q)' <=> Place(q)
      BY DEF Place
    <2>2. \A u \in Writers : u # t => At(u)' = At(u)
      BY DEF At
    <2>3. Place(freeptr)' /\ freeptr' <= mem_size
      BY <2>1 DEF IndInv, Space, Place
    <2>4. \A u \in Pending' : /\ Extent(u)' >= kMinBlock
                              /\ Extent(u)' <= PageFree(At(u)')
                              /\ At(u)' + Extent(u)' <= freeptr'
      BY <1>1 DEF IndInv, Space
    <2> QED BY <2>1, <2>2, <2>3, <2>4 DEF IndInv, Space
  <1>4. Headers'
    BY <1>2 DEF IndInv, Headers
  <1>5. Disjoint'
    BY <1>1, <1>2 DEF IndInv, Disjoint
  <1> QED BY <1>3, <1>4, <1>5

\* The log is a sequence that is at least as long as what has been handed out.
LEMMA SeqFacts ==
    ASSUME IndInv
    PROVE  /\ log \in Seq(Refs) /\ Len(log) \in Nat /\ DOMAIN log = 1 .. Len(log)
           /\ handed \in Nat /\ handed <= Len(log)
  BY DEF IndInv, TypeOK, QueueIsLog

\* A block that is its writer's passes GetBlock's checks.
LEMMA OwnedIsAllocated ==
    ASSUME IndInv, NEW r \in Refs, block[r].cookie = "allocated"
    PROVE  IsAllocated(r) /\ r \in Used
  <1>1. r \in Used /\ r \in Nat
    BY RefsFacts DEF Used
  <1>2. block[r].size \in Nat /\ freeptr \in Nat /\ mem_size \in Nat
    BY <1>1, Ranges, MemoryAssumption
  <1>3. block[r].size >= kMinBlock /\ r + block[r].size <= freeptr /\ freeptr <= mem_size
    BY <1>1 DEF IndInv, Headers, Space
  <1> QED BY <1>1, <1>2, <1>3 DEF IsAllocated, kMinBlock, kBlockHeader, kAllocAlignment

\* The nodes of the queue.
LEMMA NodeFacts ==
    ASSUME IndInv
    PROVE  /\ \A i \in 1 .. Len(log) : Node(i) = log[i] /\ Node(i) \in Refs
           /\ \A i \in 0 .. Len(log) :
                /\ Node(i) \in Refs \cup {kReferenceQueue}
                /\ IsInQueue(Node(i))
                /\ block[Node(i)].next = kReferenceQueue <=> i = Len(log)
                /\ i < Len(log) => block[Node(i)].next = Node(i + 1)
           /\ \A i, j \in 0 .. Len(log) : Node(i) = Node(j) => i = j
  <1>1. \A i \in 1 .. Len(log) : Node(i) = log[i] /\ Node(i) \in Refs
    BY SeqFacts DEF Node
  <1>2. Node(0) = kReferenceQueue
    BY DEF Node
  <1>3. \A i \in 1 .. Len(log) : Node(i) # kReferenceQueue
    BY <1>1, RefsFacts
  <1>4. \A i \in 0 .. Len(log) : i = 0 \/ i \in 1 .. Len(log)
    BY SeqFacts
  <1>5. ASSUME NEW i \in 0 .. Len(log)
        PROVE  /\ Node(i) \in Refs \cup {kReferenceQueue}
               /\ IsInQueue(Node(i))
               /\ block[Node(i)].next = kReferenceQueue <=> i = Len(log)
               /\ i < Len(log) => block[Node(i)].next = Node(i + 1)
    <2>1. Node(i) \in Refs \cup {kReferenceQueue} /\ IsInQueue(Node(i))
      BY <1>1, <1>2, <1>4, SeqFacts DEF IsInQueue, IndInv, QueueIsLog
    <2>2. block[Node(i)].next = IF i = Len(log) THEN kReferenceQueue ELSE Node(i + 1)
      BY DEF IndInv, QueueIsLog
    <2>3. i # Len(log) => i + 1 \in 1 .. Len(log)
      <3>1. Len(log) \in Nat
        BY SeqFacts
      <3> QED BY <3>1
    <2> QED BY <2>1, <2>2, <2>3, <1>3, SeqFacts
  <1>6. ASSUME NEW i \in 0 .. Len(log), NEW j \in 0 .. Len(log), Node(i) = Node(j)
        PROVE  i = j
    <2>1. i \in 1 .. Len(log) /\ j \in 1 .. Len(log) => i = j
      BY <1>6, <1>1, SeqFacts DEF IndInv, QueueIsLog, IsInjective
    <2> QED BY <2>1, <1>2, <1>3, <1>4, <1>6
  <1> QED BY <1>1, <1>5, <1>6

\* MakeIterable's checks succeed, and the block ends a list.
LEMMA MarkAsTailStep ==
    ASSUME IndInv, NEW t \in Writers, MarkAsTail(t)
    PROVE  IndInv'
  <1> DEFINE r == writer[t].ref
  <1>0. [writer[t] EXCEPT !.pc = "load_tail"] \in WriterRecord
    BY WriterTyped DEF WriterRecord
  <1>1. /\ writer[t].pc = "mark"
        /\ r \in Refs /\ block[r].cookie = "allocated" /\ block[r].next = Null
        /\ block[r].size >= AllocSize(t) /\ block[r].type = kType
        /\ \A i \in DOMAIN log : log[i] # r
    BY DEF MarkAsTail, IndInv, Owned, Owning
  <1>2. IsAllocated(r)
    BY <1>1, OwnedIsAllocated
  <1>3. /\ block' = [block EXCEPT ![r].next = kReferenceQueue]
        /\ Goto(t, "load_tail")
        /\ UNCHANGED <<freeptr, tailptr, flags, reference, iterator, reader, history>>
    BY <1>1, <1>2 DEF MarkAsTail, IndInv, NeverCorrupt
  <1>4. /\ \A u \in Writers : u # t => writer'[u] = writer[u]
        /\ writer'[t].pc = "load_tail" /\ writer'[t].ref = r
    BY <1>3 DEF IndInv, TypeOK, WriterRecord, Goto
  <1>5. /\ \A s \in Refs \cup {kReferenceQueue} : s # r => block'[s] = block[s]
        /\ block'[r] = [block[r] EXCEPT !.next = kReferenceQueue]
        /\ block[r] \in BlockHeader
    BY <1>1, <1>3 DEF IndInv, TypeOK
  <1>6. /\ block'[r] \in BlockHeader
        /\ block'[r].size = block[r].size /\ block'[r].cookie = block[r].cookie
        /\ block'[r].type = block[r].type /\ block'[r].next = kReferenceQueue
    BY <1>5 DEF BlockHeader
  <1>7. TypeOK' /\ NeverCorrupt'
    <2>1. writer' \in [Writers -> WriterRecord]
      BY <1>0, <1>3 DEF IndInv, TypeOK, Goto
    <2>2. block' \in [Refs \cup {kReferenceQueue} -> BlockHeader]
      BY <1>1, <1>3, <1>5, <1>6 DEF IndInv, TypeOK
    <2> QED BY <1>3, <2>1, <2>2 DEF IndInv, TypeOK, NeverCorrupt, IsCorrupt, iterator, history
  <1>8. Space' /\ Headers' /\ Disjoint'
    <2>1. \A s \in Refs : /\ block'[s].size = block[s].size
                          /\ block'[s].cookie = block[s].cookie
                          /\ block[s].cookie = "free" => block'[s] = block[s]
      BY <1>1, <1>5, <1>6
    <2> QED BY <2>1, <1>3, <1>4, SpaceFrame
  <1>9. /\ QueueIsLog' /\ Lasts' /\ Counts'
        /\ \A i \in DOMAIN log : block'[log[i]] = block[log[i]]
    BY <1>1, <1>3, <1>5, QueueFrame
  <1>10. Owned'
    <2>1. ASSUME NEW u \in Writers, u # t, writer[u].pc \in Owning
          PROVE  block'[writer[u].ref] = block[writer[u].ref] /\ writer[u].ref # r
      BY <2>1, <1>1, <1>5 DEF IndInv, Owned, Owning
    <2>2. \A u \in Writers : writer'[u].pc \in Owning => writer[u].pc \in Owning
      BY <1>1, <1>4 DEF Owning
    <2>3. ASSUME NEW u \in Writers, writer'[u].pc \in Owning
          PROVE  /\ writer'[u].ref \in Refs
                 /\ block'[writer'[u].ref].cookie = "allocated"
                 /\ block'[writer'[u].ref].size >= AllocSize(u)
                 /\ block'[writer'[u].ref].type = kType
                 /\ block'[writer'[u].ref].next =
                      IF writer'[u].pc \in {"store", "purge", "mark"} THEN Null ELSE kReferenceQueue
                 /\ \A i \in DOMAIN log' : log'[i] # writer'[u].ref
      <3>1. CASE u = t
        BY <3>1, <1>1, <1>3, <1>4, <1>6 DEF history
      <3>2. CASE u # t
        BY <3>2, <2>1, <2>2, <2>3, <1>3, <1>4 DEF IndInv, Owned, history
      <3> QED BY <3>1, <3>2
    <2> QED BY <1>1, <1>4, <2>1, <2>2, <2>3 DEF IndInv, Owned
  <1>11. Tails'
    BY <1>3, <1>4 DEF IndInv, Tails, Node, history
  <1>12. Delayed'
    <2>1. reference # Null => /\ block'[reference].cookie = block[reference].cookie
                              /\ block'[reference].type = block[reference].type
                              /\ block'[reference].size = block[reference].size
      BY <1>5, <1>6 DEF IndInv, TypeOK
    <2> QED BY <1>1, <1>3, <1>4, <1>9, <2>1 DEF IndInv, Delayed, history
  <1> QED BY <1>7, <1>8, <1>9, <1>10, <1>11, <1>12 DEF IndInv

\* MakeIterable loads the tail pointer.
LEMMA LoadTailStep ==
    ASSUME IndInv, NEW t \in Writers, LoadTail(t)
    PROVE  IndInv'
  <1>0. [writer[t] EXCEPT !.pc = "link", !.tail = tailptr] \in WriterRecord
    BY WriterTyped DEF IndInv, TypeOK, WriterRecord
  <1>1. /\ \A u \in Writers : u # t => writer'[u] = writer[u]
        /\ writer[t].pc = "load_tail"
        /\ writer'[t].pc = "link" /\ writer'[t].tail = tailptr
        /\ writer'[t].ref = writer[t].ref
        /\ UNCHANGED <<freeptr, tailptr, flags, block, reference, iterator, reader, history>>
    BY DEF IndInv, TypeOK, WriterRecord, LoadTail, segment
  <1>2. TypeOK' /\ NeverCorrupt'
    <2>1. writer' \in [Writers -> WriterRecord]
      BY <1>0 DEF IndInv, TypeOK, LoadTail
    <2> QED BY <1>1, <2>1 DEF IndInv, TypeOK, NeverCorrupt, IsCorrupt, iterator, history
  <1>3. Space' /\ Headers' /\ Disjoint'
    BY <1>1, SpaceFrame
  <1>4. Owned'
    BY <1>1 DEF IndInv, Owned, Owning, history
  <1>5. QueueIsLog' /\ Lasts' /\ Counts'
    BY <1>1 DEF IndInv, QueueIsLog, Lasts, Counts, Checking, Node, IsAllocated, iterator, history
  <1>6. Tails'
    <2>1. \E i \in 0 .. Len(log) : tailptr = Node(i)
      BY SeqFacts DEF IndInv, QueueIsLog
    <2>2. \A i : Node(i)' = Node(i)
      BY <1>1 DEF Node, history
    <2>3. log' = log /\ tailptr' = tailptr
      BY <1>1 DEF history
    <2>4. ASSUME NEW u \in Writers, writer'[u].pc \in {"link", "help", "swing"}
          PROVE  \E i, k \in 0 .. Len(log) :
                   /\ i <= k
                   /\ writer'[u].tail = Node(i)
                   /\ tailptr = Node(k)
                   /\ writer'[u].pc = "help" => i < Len(log) /\ writer'[u].next = Node(i + 1)
                   /\ writer'[u].pc = "swing" => i < Len(log) /\ writer'[u].ref = Node(i + 1)
      <3>1. CASE u = t
        BY <3>1, <2>1, <1>1
      <3>2. CASE u # t
        BY <3>2, <2>4, <1>1 DEF IndInv, Tails
      <3> QED BY <3>1, <3>2
    <2> QED BY <2>2, <2>3, <2>4 DEF Tails
  <1>7. Delayed'
    BY <1>1 DEF IndInv, Delayed, history
  <1> QED BY <1>2, <1>3, <1>4, <1>5, <1>6, <1>7 DEF IndInv

\* What a writer that is about to link its block, or has linked it, knows.
LEMMA TailFacts ==
    ASSUME IndInv, NEW t \in Writers, writer[t].pc \in {"link", "help", "swing"}
    PROVE  \E i, k \in 0 .. Len(log) :
             /\ i <= k /\ k \in {Len(log), Len(log) - 1}
             /\ writer[t].tail = Node(i)
             /\ tailptr = Node(k)
             /\ writer[t].pc = "help" => i < Len(log) /\ writer[t].next = Node(i + 1)
             /\ writer[t].pc = "swing" => i < Len(log) /\ writer[t].ref = Node(i + 1)
             /\ writer[t].pc # "link" /\ tailptr = writer[t].tail => i = k /\ i + 1 = Len(log)
  <1>1. PICK i \in 0 .. Len(log), k \in 0 .. Len(log) :
             /\ i <= k
             /\ writer[t].tail = Node(i)
             /\ tailptr = Node(k)
             /\ writer[t].pc = "help" => i < Len(log) /\ writer[t].next = Node(i + 1)
             /\ writer[t].pc = "swing" => i < Len(log) /\ writer[t].ref = Node(i + 1)
    BY DEF IndInv, Tails
  <1>2. Len(log) \in Nat
    BY SeqFacts
  <1>3. PICK j \in {Len(log), Len(log) - 1} : j >= 0 /\ tailptr = Node(j)
    BY DEF IndInv, QueueIsLog
  <1>4. j \in 0 .. Len(log)
    BY <1>2, <1>3
  <1>5. k = j
    BY <1>1, <1>3, <1>4, NodeFacts
  <1>6. tailptr = writer[t].tail => i = k
    BY <1>1, NodeFacts
  <1>7. writer[t].pc # "link" /\ tailptr = writer[t].tail => i + 1 = Len(log)
    BY <1>1, <1>2, <1>3, <1>5, <1>6
  <1> QED BY <1>1, <1>3, <1>5, <1>6, <1>7

\* The tail pointer moves from the last node but one to the last.
LEMMA TailMoves ==
    ASSUME IndInv, NEW t \in Writers,
           \A u \in Writers : u # t => writer'[u] = writer[u],
           \/ tailptr' = tailptr
           \/ tailptr' = Node(Len(log)),
           UNCHANGED <<block, iterator, reader, history>>
    PROVE  /\ QueueIsLog' /\ Lasts' /\ Counts'
           /\ writer'[t].pc \notin {"link", "help", "swing"} => Tails'
           /\ /\ writer'[t].pc = "link"
              /\ writer'[t].tail = tailptr
              => Tails'
  <1>1. Len(log) \in Nat
    BY SeqFacts
  <1>2. \A i : Node(i)' = Node(i)
    BY DEF Node, history
  <1>3. log' = log /\ handed' = handed /\ last_record' = last_record /\ block' = block
    BY DEF history, iterator
  <1>4. \E i \in {Len(log), Len(log) - 1} : i >= 0 /\ tailptr' = Node(i)
    BY <1>1 DEF IndInv, QueueIsLog
  <1>5. QueueIsLog'
    <2>1. \A i \in DOMAIN log : IsAllocated(log[i])'
      BY <1>3 DEF IndInv, QueueIsLog, IsAllocated
    <2> QED BY <1>2, <1>3, <1>4, <2>1 DEF IndInv, QueueIsLog
  <1>6. Lasts' /\ Counts'
    BY DEF IndInv, Lasts, Counts, Checking, Node, iterator, history
  <1>7. ASSUME NEW i \in 0 .. Len(log), NEW k \in 0 .. Len(log), i <= k, tailptr = Node(k)
        PROVE  \E m \in 0 .. Len(log) : i <= m /\ tailptr' = Node(m)
    <2>1. CASE tailptr' = tailptr
      BY <2>1, <1>7
    <2>2. CASE tailptr' = Node(Len(log))
      BY <2>2, <1>1
    <2> QED BY <2>1, <2>2
  <1>8. ASSUME NEW u \in Writers, writer[u].pc \in {"link", "help", "swing"},
               writer'[u] = writer[u]
        PROVE  \E i, m \in 0 .. Len(log) :
             /\ i <= m
             /\ writer'[u].tail = Node(i)
             /\ tailptr' = Node(m)
             /\ writer'[u].pc = "help" => i < Len(log) /\ writer'[u].next = Node(i + 1)
             /\ writer'[u].pc = "swing" => i < Len(log) /\ writer'[u].ref = Node(i + 1)
    BY <1>7, <1>8, TailFacts
  <1>9. ASSUME writer'[t].pc \notin {"link", "help", "swing"}
        PROVE  Tails'
    BY <1>2, <1>3, <1>8, <1>9 DEF Tails
  <1>10. ASSUME writer'[t].pc = "link", writer'[t].tail = tailptr
         PROVE  Tails'
    <2>1. PICK k \in 0 .. Len(log) : tailptr = Node(k)
      BY <1>1 DEF IndInv, QueueIsLog
    <2>2. PICK m \in 0 .. Len(log) : k <= m /\ tailptr' = Node(m)
      BY <2>1, <1>1, <1>7
    <2> QED BY <1>2, <1>3, <1>8, <1>10, <2>1, <2>2 DEF Tails
  <1> QED BY <1>5, <1>6, <1>9, <1>10

\* The writer that linked a block moves the tail pointer, or somebody has.
LEMMA SwingTailStep ==
    ASSUME IndInv, NEW t \in Writers, SwingTail(t)
    PROVE  IndInv'
  <1>0. [writer[t] EXCEPT !.pc = "done"] \in WriterRecord
    BY WriterTyped DEF WriterRecord
  <1>1. /\ \A u \in Writers : u # t => writer'[u] = writer[u]
        /\ writer[t].pc = "swing"
        /\ writer'[t].pc = "done" /\ writer'[t].ref = writer[t].ref
        /\ tailptr' = IF tailptr = writer[t].tail THEN writer[t].ref ELSE tailptr
        /\ UNCHANGED <<freeptr, flags, block, reference, iterator, reader, history>>
    BY DEF IndInv, TypeOK, WriterRecord, SwingTail, Returns, Goto
  <1>2. tailptr' = tailptr \/ tailptr' = Node(Len(log))
    BY <1>1, TailFacts
  <1>3. TypeOK' /\ NeverCorrupt'
    <2>1. writer' \in [Writers -> WriterRecord]
      BY <1>0 DEF IndInv, TypeOK, SwingTail, Returns, Goto
    <2>2. tailptr' \in Refs \cup {kReferenceQueue}
      BY <1>2, NodeFacts, SeqFacts DEF IndInv, TypeOK
    <2> QED BY <1>1, <2>1, <2>2 DEF IndInv, TypeOK, NeverCorrupt, IsCorrupt, iterator, history
  <1>4. Space' /\ Headers' /\ Disjoint'
    BY <1>1, SpaceFrame
  <1>5. Owned'
    BY <1>1 DEF IndInv, Owned, Owning, history
  <1>6. QueueIsLog' /\ Lasts' /\ Counts' /\ Tails'
    BY <1>1, <1>2, TailMoves
  <1>7. Delayed'
    BY <1>1 DEF IndInv, Delayed, history
  <1> QED BY <1>3, <1>4, <1>5, <1>6, <1>7 DEF IndInv

\* Another writer moves the tail pointer, or somebody has.
LEMMA HelpTailStep ==
    ASSUME IndInv, NEW t \in Writers, HelpTail(t)
    PROVE  IndInv'
  <1>0. [writer[t] EXCEPT !.pc = "link", !.tail = tailptr, !.next = Null] \in WriterRecord
    BY WriterTyped DEF IndInv, TypeOK, WriterRecord
  <1>1. /\ \A u \in Writers : u # t => writer'[u] = writer[u]
        /\ writer[t].pc = "help"
        /\ writer'[t].pc = "link" /\ writer'[t].tail = tailptr
        /\ writer'[t].ref = writer[t].ref
        /\ tailptr' = IF tailptr = writer[t].tail THEN writer[t].next ELSE tailptr
        /\ UNCHANGED <<freeptr, flags, block, reference, iterator, reader, history>>
    BY DEF IndInv, TypeOK, WriterRecord, HelpTail
  <1>2. tailptr' = tailptr \/ tailptr' = Node(Len(log))
    BY <1>1, TailFacts
  <1>3. TypeOK' /\ NeverCorrupt'
    <2>1. writer' \in [Writers -> WriterRecord]
      BY <1>0 DEF IndInv, TypeOK, HelpTail
    <2>2. tailptr' \in Refs \cup {kReferenceQueue}
      BY <1>2, NodeFacts, SeqFacts DEF IndInv, TypeOK
    <2> QED BY <1>1, <2>1, <2>2 DEF IndInv, TypeOK, NeverCorrupt, IsCorrupt, iterator, history
  <1>4. Space' /\ Headers' /\ Disjoint'
    BY <1>1, SpaceFrame
  <1>5. Owned'
    BY <1>1 DEF IndInv, Owned, Owning, history
  <1>6. QueueIsLog' /\ Lasts' /\ Counts' /\ Tails'
    BY <1>1, <1>2, TailMoves
  <1>7. Delayed'
    BY <1>1 DEF IndInv, Delayed, history
  <1> QED BY <1>3, <1>4, <1>5, <1>6, <1>7 DEF IndInv

\* The types of two updates.
LEMMA SwingRecord == \A w \in WriterRecord : [w EXCEPT !.pc = "swing"] \in WriterRecord
  BY DEF WriterRecord

\* The block becomes the last node of the queue.
LEMMA LinkAppends ==
    ASSUME IndInv, NEW t \in Writers,
           writer[t].pc = "link",
           block[writer[t].tail].next = kReferenceQueue,
           block' = [block EXCEPT ![writer[t].tail].next = writer[t].ref],
           log' = Append(log, writer[t].ref),
           Goto(t, "swing"),
           UNCHANGED <<freeptr, tailptr, flags, reference, iterator, reader, handed>>
    PROVE  IndInv'
  <1>r. PICK r : r = writer[t].ref
    OBVIOUS
  <1>n. PICK n : n = Len(log)
    OBVIOUS
  <1>e. PICK e : e = Node(n)
    OBVIOUS
  <1>1. /\ n \in Nat /\ DOMAIN log = 1 .. n
        /\ handed \in Nat /\ handed <= n
    BY <1>n, SeqFacts
  <1>2. /\ r \in Refs /\ block[r].cookie = "allocated"
        /\ block[r].size >= AllocSize(t) /\ block[r].type = kType
        /\ block[r].next = kReferenceQueue
        /\ \A i \in 1 .. n : log[i] # r
    BY <1>r, <1>1 DEF IndInv, Owned, Owning
  <1>3. writer[t].tail = e /\ tailptr = e
    <2>1. PICK i \in 0 .. n, k \in 0 .. n :
             i <= k /\ writer[t].tail = Node(i) /\ tailptr = Node(k)
      BY <1>n, TailFacts
    <2>2. i = n
      BY <2>1, <1>n, NodeFacts
    <2>3. k = n
      BY <2>1, <2>2, <1>1
    <2> QED BY <2>1, <2>2, <2>3, <1>e
  <1>4. e \in Refs \cup {kReferenceQueue} /\ e # r
    <2>1. e \in Refs \cup {kReferenceQueue}
      BY <1>n, <1>e, <1>1, NodeFacts
    <2>2. e # r
      BY <1>e, <1>1, <1>2, RefsFacts DEF Node
    <2> QED BY <2>1, <2>2
  <1>5. /\ log' \in Seq(Refs) /\ Len(log') = n + 1 /\ DOMAIN log' = 1 .. n + 1
        /\ \A i \in 1 .. n : log'[i] = log[i]
        /\ log'[n + 1] = r
    BY <1>r, <1>n, <1>1, <1>2 DEF IndInv, TypeOK
  <1>6. /\ \A i \in 0 .. n : Node(i)' = Node(i)
        /\ Node(n + 1)' = r
    BY <1>1, <1>5 DEF Node
  <1>7. /\ \A u \in Writers : u # t => writer'[u] = writer[u]
        /\ writer'[t].pc = "swing" /\ writer'[t].ref = r /\ writer'[t].tail = e
    BY <1>r, <1>3 DEF IndInv, TypeOK, WriterRecord, Goto
  <1>8. /\ \A s \in Refs \cup {kReferenceQueue} : s # e => block'[s] = block[s]
        /\ block'[e] = [block[e] EXCEPT !.next = r]
        /\ block[e] \in BlockHeader
    BY <1>r, <1>3, <1>4 DEF IndInv, TypeOK
  <1>9. /\ block'[e] \in BlockHeader
        /\ block'[e].size = block[e].size /\ block'[e].cookie = block[e].cookie
        /\ block'[e].type = block[e].type /\ block'[e].next = r
    BY <1>2, <1>8 DEF BlockHeader
  <1>10. \A s \in Refs \cup {kReferenceQueue} :
            /\ block'[s].size = block[s].size /\ block'[s].cookie = block[s].cookie
            /\ block'[s].type = block[s].type
    BY <1>8, <1>9
  <1>11. \A s \in Refs : block[s].cookie = "free" => s # e
    BY <1>n, <1>e, <1>1, NodeFacts, RefsFacts DEF IsInQueue, IsAllocated
  <1>12. \A i \in 1 .. n : log[i] \in Refs /\ Node(i) = log[i] /\ IsAllocated(log[i])
    BY <1>n, <1>1, NodeFacts DEF IndInv, QueueIsLog
  <1>13. TypeOK' /\ NeverCorrupt'
    <2>1. [writer[t] EXCEPT !.pc = "swing"] \in WriterRecord
      <3>1. writer[t] \in WriterRecord
        BY DEF IndInv, TypeOK
      <3> QED BY <3>1, SwingRecord
    <2>2. writer' \in [Writers -> WriterRecord]
      BY <2>1 DEF IndInv, TypeOK, Goto
    <2>3. block' \in [Refs \cup {kReferenceQueue} -> BlockHeader]
      BY <1>r, <1>3, <1>4, <1>8, <1>9 DEF IndInv, TypeOK
    <2> QED BY <1>5, <2>2, <2>3 DEF IndInv, TypeOK, NeverCorrupt, IsCorrupt, iterator
  <1>14. Space' /\ Headers' /\ Disjoint'
    <2>1. \A s \in Refs : /\ block'[s].size = block[s].size
                          /\ block'[s].cookie = block[s].cookie
                          /\ block[s].cookie = "free" => block'[s] = block[s]
      BY <1>8, <1>10, <1>11
    <2> QED BY <2>1, <1>7, SpaceFrame
  <1>15. Owned'
    <2>1. ASSUME NEW u \in Writers, writer'[u].pc \in Owning
          PROVE  /\ u # t /\ writer[u].pc \in Owning
                 /\ writer[u].ref \in Refs
                 /\ writer[u].ref # e /\ writer[u].ref # r
      <3>1. u # t
        BY <2>1, <1>7 DEF Owning
      <3>2. writer[u].pc \in Owning
        BY <2>1, <3>1, <1>7
      <3>3. writer[u].ref \in Refs /\ \A i \in DOMAIN log : log[i] # writer[u].ref
        BY <3>2 DEF IndInv, Owned
      <3>4. writer[u].ref # r
        BY <1>r, <3>1, <3>2 DEF IndInv, Owned, Owning
      <3>5. writer[u].ref # e
        BY <1>e, <3>3, <1>1, RefsFacts DEF Node
      <3> QED BY <3>1, <3>2, <3>3, <3>4, <3>5
    <2>2. ASSUME NEW u \in Writers, writer'[u].pc \in Owning
          PROVE  \A i \in DOMAIN log' : log'[i] # writer[u].ref
      <3>1. \A i \in 1 .. n : log[i] # writer[u].ref
        BY <2>1, <2>2, <1>1 DEF IndInv, Owned
      <3>2. \A i \in 1 .. n + 1 : i = n + 1 \/ i \in 1 .. n
        BY <1>1
      <3> QED BY <3>1, <3>2, <2>1, <2>2, <1>5
    <2>3. ASSUME NEW u \in Writers, writer'[u].pc \in Owning
          PROVE  block'[writer[u].ref] = block[writer[u].ref] /\ writer'[u] = writer[u]
      BY <2>1, <2>3, <1>7, <1>8
    <2>4. ASSUME NEW u \in Writers, writer'[u].pc \in Owning
          PROVE  /\ writer'[u].ref \in Refs
                 /\ block'[writer'[u].ref].cookie = "allocated"
                 /\ block'[writer'[u].ref].size >= AllocSize(u)
                 /\ block'[writer'[u].ref].type = kType
                 /\ block'[writer'[u].ref].next =
                      IF writer'[u].pc \in {"store", "purge", "mark"} THEN Null ELSE kReferenceQueue
                 /\ \A i \in DOMAIN log' : log'[i] # writer'[u].ref
      <3>1. writer[u].pc \in Owning /\ writer'[u] = writer[u]
        BY <2>1, <2>3, <2>4
      <3>2. block'[writer[u].ref] = block[writer[u].ref]
        BY <2>3, <2>4
      <3>3. \A i \in DOMAIN log' : log'[i] # writer[u].ref
        BY <2>2, <2>4
      <3> QED BY <3>1, <3>2, <3>3 DEF IndInv, Owned
    <2>5. ASSUME NEW u \in Writers, NEW v \in Writers, u # v,
                 writer'[u].pc \in Owning, writer'[v].pc \in Owning
          PROVE  writer'[u].ref # writer'[v].ref
      BY <2>1, <2>3, <2>5 DEF IndInv, Owned
    <2> QED BY <2>4, <2>5 DEF Owned
  <1>16. QueueIsLog'
    <2>1. IsInjective(log')
      <3>1. \A i, j \in 1 .. n : log[i] = log[j] => i = j
        BY <1>1 DEF IndInv, QueueIsLog, IsInjective
      <3>2. \A i \in 1 .. n + 1 : i = n + 1 \/ i \in 1 .. n
        BY <1>1
      <3> QED BY <3>1, <3>2, <1>2, <1>5 DEF IsInjective
    <2>2. \A s \in Refs : IsAllocated(s) => IsAllocated(s)'
      BY <1>10 DEF IsAllocated
    <2>3. IsAllocated(r)
      BY <1>2, OwnedIsAllocated
    <2>4. \A i \in DOMAIN log' : IsAllocated(log[i])'
      <3>1. \A i \in 1 .. n + 1 : i = n + 1 \/ i \in 1 .. n
        BY <1>1
      <3> QED BY <3>1, <2>2, <2>3, <1>2, <1>5, <1>12
    <2>5. ASSUME NEW i \in 0 .. n + 1
          PROVE  (block[Node(i)].next)' = IF i = n + 1 THEN kReferenceQueue ELSE Node(i + 1)'
      <3>1. CASE i = n + 1
        BY <3>1, <1>2, <1>4, <1>6, <1>8
      <3>2. CASE i = n
        <4>1. Node(i)' = e /\ i + 1 = n + 1 /\ i # n + 1
          BY <1>e, <3>2, <1>1, <1>6
        <4> QED BY <4>1, <1>6, <1>9
      <3>3. CASE i \in 0 .. n /\ i < n
        <4>1. /\ i # n + 1 /\ i + 1 \in 0 .. n
              /\ Node(i)' = Node(i) /\ Node(i + 1)' = Node(i + 1)
          BY <3>3, <1>1, <1>6
        <4>2. Node(i) # e /\ Node(i) \in Refs \cup {kReferenceQueue}
          BY <1>n, <1>e, <3>3, <1>1, NodeFacts
        <4>3. block[Node(i)].next = Node(i + 1)
          BY <1>n, <3>3, <1>1, NodeFacts
        <4> QED BY <4>1, <4>2, <4>3, <1>8
      <3> QED BY <3>1, <3>2, <3>3, <1>1
    <2>6. \E i \in {Len(log'), Len(log') - 1} : i >= 0 /\ tailptr' = Node(i)'
      <3>1. n \in {Len(log'), Len(log') - 1} /\ n >= 0 /\ tailptr' = Node(n)'
        BY <1>e, <1>1, <1>3, <1>5, <1>6
      <3> QED BY <3>1
    <2>7. handed' <= Len(log') /\ last_record' = Node(handed)'
      <3>1. last_record = Node(handed) /\ handed \in 0 .. n
        BY <1>1 DEF IndInv, QueueIsLog
      <3>2. handed' = handed /\ last_record' = last_record
        BY DEF iterator
      <3>3. Node(handed)' = Node(handed)
        BY <3>1, <3>2, <1>1, <1>5 DEF Node
      <3> QED BY <3>1, <3>2, <3>3, <1>1, <1>5
    <2> QED BY <1>5, <2>1, <2>4, <2>5, <2>6, <2>7 DEF QueueIsLog
  <1>17. Tails'
    <2>1. ASSUME NEW u \in Writers, u # t, writer'[u].pc \in {"link", "help", "swing"}
          PROVE  \E i, k \in 0 .. n + 1 :
                   /\ i <= k
                   /\ writer'[u].tail = Node(i)'
                   /\ tailptr' = Node(k)'
                   /\ writer'[u].pc = "help" => i < n + 1 /\ writer'[u].next = Node(i + 1)'
                   /\ writer'[u].pc = "swing" => i < n + 1 /\ writer'[u].ref = Node(i + 1)'
      <3>1. writer'[u] = writer[u]
        BY <2>1, <1>7
      <3>2. PICK i \in 0 .. n, k \in 0 .. n :
             /\ i <= k
             /\ writer[u].tail = Node(i)
             /\ tailptr = Node(k)
             /\ writer[u].pc = "help" => i < n /\ writer[u].next = Node(i + 1)
             /\ writer[u].pc = "swing" => i < n /\ writer[u].ref = Node(i + 1)
        BY <1>n, <2>1, <3>1 DEF IndInv, Tails
      <3>3. i \in 0 .. n + 1 /\ k \in 0 .. n + 1 /\ i < n + 1 /\ (i < n => i + 1 \in 0 .. n)
        BY <1>1
      <3> QED BY <3>1, <3>2, <3>3, <1>6
    <2>2. \E i, k \in 0 .. n + 1 :
             /\ i <= k /\ writer'[t].tail = Node(i)' /\ tailptr' = Node(k)'
             /\ i < n + 1 /\ writer'[t].ref = Node(i + 1)'
      <3>1. n \in 0 .. n + 1 /\ n <= n /\ n < n + 1 /\ n \in 0 .. n
        BY <1>1
      <3>2. writer'[t].tail = Node(n)' /\ tailptr' = Node(n)' /\ writer'[t].ref = Node(n + 1)'
        BY <1>e, <3>1, <1>3, <1>6, <1>7
      <3> QED BY <3>1, <3>2
    <2> QED BY <1>5, <1>7, <2>1, <2>2 DEF Tails
  <1>18. Lasts'
    <2>1. ASSUME NEW u \in Readers
          PROVE  /\ reader[u].due <= n + 1
                 /\ reader[u].pc = "end" => reader[u].due <= handed
                 /\ reader[u].pc \in {"next", "advance"} =>
                    \E i \in 0 .. handed :
                        /\ reader[u].last = Node(i)'
                        /\ reader[u].pc = "advance" => i < n + 1 /\ reader[u].next = Node(i + 1)'
      <3>1. reader[u].due \in Nat
        BY DEF IndInv, TypeOK, ReaderRecord
      <3>2. reader[u].due <= n /\ (reader[u].pc = "end" => reader[u].due <= handed)
        BY <1>n DEF IndInv, Lasts
      <3>3. ASSUME reader[u].pc \in {"next", "advance"}
            PROVE  \E i \in 0 .. handed :
                        /\ reader[u].last = Node(i)'
                        /\ reader[u].pc = "advance" => i < n + 1 /\ reader[u].next = Node(i + 1)'
        <4>1. PICK i \in 0 .. handed :
                        /\ reader[u].last = Node(i)
                        /\ reader[u].pc = "advance" => i < n /\ reader[u].next = Node(i + 1)
          BY <1>n, <3>3 DEF IndInv, Lasts
        <4>2. i \in 0 .. n /\ i < n + 1 /\ (i < n => i + 1 \in 0 .. n)
          BY <1>1
        <4> QED BY <4>1, <4>2, <1>6
      <3> QED BY <3>1, <3>2, <3>3, <1>1
    <2> QED BY <2>1, <1>5 DEF Lasts
  <1>19. Counts'
    BY DEF IndInv, Counts, Checking, iterator
  <1>20. Delayed'
    <2>1. reference # Null => reference \in Refs
      BY DEF IndInv, TypeOK
    <2>2. \A i \in 1 .. n : block[log[i]].type = kType
      BY <1>1 DEF IndInv, Delayed
    <2>3. \A i \in 1 .. n + 1 : i = n + 1 \/ i \in 1 .. n
      BY <1>1
    <2>4. \A i \in DOMAIN log' : block'[log'[i]].type = kType
      BY <2>2, <2>3, <1>2, <1>5, <1>10, <1>12
    <2> QED BY <1>r, <2>1, <2>4, <1>7, <1>10 DEF IndInv, Delayed
  <1> QED BY <1>13, <1>14, <1>15, <1>16, <1>17, <1>18, <1>19, <1>20 DEF IndInv

\* The other one.
LEMMA HelpRecord ==
    \A w \in WriterRecord, n \in Refs :
        [w EXCEPT !.pc = "help", !.next = n] \in WriterRecord
  BY DEF WriterRecord

\* MakeIterable links the block, or finds that another one has been linked.
LEMMA LinkStep ==
    ASSUME IndInv, NEW t \in Writers, Link(t)
    PROVE  IndInv'
  <1>1. writer[t].pc = "link"
    BY DEF Link
  <1>2. PICK i \in 0 .. Len(log), k \in 0 .. Len(log) :
           i <= k /\ writer[t].tail = Node(i) /\ tailptr = Node(k)
    BY <1>1, TailFacts
  <1>3. IsInQueue(writer[t].tail)
    BY <1>2, NodeFacts
  <1>4. CASE block[writer[t].tail].next = kReferenceQueue
    BY <1>1, <1>3, <1>4, LinkAppends DEF Link
  <1>5. CASE block[writer[t].tail].next # kReferenceQueue
    <2>1. i < Len(log) /\ block[writer[t].tail].next = Node(i + 1)
      <3>1. Len(log) \in Nat
        BY SeqFacts
      <3>2. i # Len(log)
        BY <1>2, <1>5, NodeFacts
      <3> QED BY <1>2, <3>1, <3>2, NodeFacts
    <2>2. Node(i + 1) \in Refs
      <3>1. Len(log) \in Nat
        BY SeqFacts
      <3>2. i + 1 \in 1 .. Len(log)
        BY <2>1, <3>1
      <3> QED BY <3>2, NodeFacts
    <2>3. [writer[t] EXCEPT !.pc = "help", !.next = block[writer[t].tail].next] \in WriterRecord
      <3>1. writer[t] \in WriterRecord
        BY DEF IndInv, TypeOK
      <3> QED BY <2>1, <2>2, <3>1, HelpRecord
    <2>4. /\ writer' = [writer EXCEPT ![t].pc = "help", ![t].next = block[writer[t].tail].next]
          /\ UNCHANGED <<freeptr, tailptr, flags, block, reference, iterator, reader, history>>
      BY <1>3, <1>5 DEF Link, history
    <2>5. /\ \A u \in Writers : u # t => writer'[u] = writer[u]
          /\ writer'[t].pc = "help" /\ writer'[t].next = Node(i + 1)
          /\ writer'[t].ref = writer[t].ref /\ writer'[t].tail = writer[t].tail
          /\ log' = log /\ block' = block
      BY <2>1, <2>4 DEF IndInv, TypeOK, WriterRecord, history
    <2>6. TypeOK' /\ NeverCorrupt'
      <3>1. writer' \in [Writers -> WriterRecord]
        BY <2>3, <2>4 DEF IndInv, TypeOK
      <3> QED BY <2>4, <3>1 DEF IndInv, TypeOK, NeverCorrupt, IsCorrupt, iterator, history
    <2>7. Space' /\ Headers' /\ Disjoint'
      BY <2>4, <2>5, SpaceFrame
    <2>8. Owned'
      BY <1>1, <2>5 DEF IndInv, Owned, Owning
    <2>9. QueueIsLog' /\ Lasts' /\ Counts'
      BY <2>4, <2>5, TailMoves
    <2>10. Tails'
      <3>1. log' = log /\ tailptr' = tailptr /\ \A j : Node(j)' = Node(j)
        BY <2>4 DEF Node, history
      <3>2. ASSUME NEW u \in Writers, writer'[u].pc \in {"link", "help", "swing"}
            PROVE  \E j, m \in 0 .. Len(log) :
                   /\ j <= m
                   /\ writer'[u].tail = Node(j)
                   /\ tailptr = Node(m)
                   /\ writer'[u].pc = "help" => j < Len(log) /\ writer'[u].next = Node(j + 1)
                   /\ writer'[u].pc = "swing" => j < Len(log) /\ writer'[u].ref = Node(j + 1)
        <4>1. CASE u = t
          BY <4>1, <1>2, <2>1, <2>5
        <4>2. CASE u # t
          BY <4>2, <3>2, <2>5 DEF IndInv, Tails
        <4> QED BY <4>1, <4>2
      <3> QED BY <3>1, <3>2 DEF Tails
    <2>11. Delayed'
      BY <1>1, <2>4, <2>5 DEF IndInv, Delayed, history
    <2> QED BY <2>6, <2>7, <2>8, <2>9, <2>10, <2>11 DEF IndInv
  <1> QED BY <1>4, <1>5

------------------------------------------------------------------------------
\* Get() finds a block, or goes to allocate one.
LEMMA GetLoadsStep ==
    ASSUME IndInv, NEW t \in Writers, GetLoads(t)
    PROVE  IndInv'
  <1>0. /\ [writer[t] EXCEPT !.pc = "allocate"] \in WriterRecord
        /\ [writer[t] EXCEPT !.pc = "done", !.ref = reference] \in WriterRecord
    BY DEF IndInv, TypeOK, WriterRecord
  <1>1. /\ \A u \in Writers : u # t => writer'[u] = writer[u]
        /\ writer[t].pc = "get"
        /\ writer'[t].pc \in {"allocate", "done"}
        /\ writer'[t].size = writer[t].size
        /\ writer'[t].pc = "done" => reference # Null /\ writer'[t].ref = reference
        /\ UNCHANGED <<freeptr, tailptr, flags, block, reference, iterator, reader, history>>
    BY DEF IndInv, TypeOK, WriterRecord, GetLoads, segment
  <1>2. TypeOK' /\ NeverCorrupt'
    <2>1. writer' \in [Writers -> WriterRecord]
      BY <1>0 DEF IndInv, TypeOK, GetLoads
    <2> QED BY <1>1, <2>1 DEF IndInv, TypeOK, NeverCorrupt, IsCorrupt, iterator, history
  <1>3. Space' /\ Headers' /\ Disjoint'
    BY <1>1, SpaceFrame
  <1>4. Owned'
    BY <1>1 DEF IndInv, Owned, Owning, history
  <1>5. QueueIsLog' /\ Lasts' /\ Counts' /\ Tails'
    BY <1>1, TailMoves
  <1>6. Delayed'
    BY <1>1 DEF IndInv, Delayed, history
  <1> QED BY <1>2, <1>3, <1>4, <1>5, <1>6 DEF IndInv

\* The first to store its block's reference wins.
LEMMA GetStoresStep ==
    ASSUME IndInv, NEW t \in Writers, GetStores(t)
    PROVE  IndInv'
  <1> DEFINE r == writer[t].ref
  <1>0. /\ [writer[t] EXCEPT !.pc = "mark"] \in WriterRecord
        /\ [writer[t] EXCEPT !.pc = "purge"] \in WriterRecord
    BY DEF IndInv, TypeOK, WriterRecord
  <1>1. /\ \A u \in Writers : u # t => writer'[u] = writer[u]
        /\ writer[t].pc = "store"
        /\ writer'[t].ref = r
        /\ \/ writer'[t].pc = "mark" /\ reference = Null /\ reference' = r
           \/ writer'[t].pc = "purge" /\ reference # Null /\ reference' = reference
        /\ UNCHANGED <<freeptr, tailptr, flags, block, iterator, reader, history>>
    BY DEF IndInv, TypeOK, WriterRecord, GetStores, Goto
  <1>2. /\ r \in Refs /\ block[r].cookie = "allocated" /\ block[r].type = kType
        /\ block[r].size >= AllocSize(t)
        /\ t \in Getters
    BY <1>1 DEF IndInv, Owned, Owning, Delayed
  <1>3. TypeOK' /\ NeverCorrupt'
    <2>1. writer' \in [Writers -> WriterRecord]
      BY <1>0 DEF IndInv, TypeOK, GetStores, Goto
    <2> QED BY <1>1, <1>2, <2>1 DEF IndInv, TypeOK, NeverCorrupt, IsCorrupt, iterator, history
  <1>4. Space' /\ Headers' /\ Disjoint'
    BY <1>1, SpaceFrame
  <1>5. Owned'
    BY <1>1 DEF IndInv, Owned, Owning, history
  <1>6. QueueIsLog' /\ Lasts' /\ Counts' /\ Tails'
    BY <1>1, TailMoves
  <1>7. Delayed'
    <2>1. \A g \in Getters : AllocSize(g) = AllocSize(t)
      BY <1>2, ThreadsAssumption DEF AllocSize
    <2>2. \A u \in Writers : u # t /\ writer[u].pc \in {"store", "purge"} => writer[u].ref # r
      BY <1>1 DEF IndInv, Owned, Owning
    <2>3. CASE writer'[t].pc = "mark"
      BY <2>1, <2>2, <2>3, <1>1, <1>2, RefsFacts DEF IndInv, Delayed, history
    <2>4. CASE writer'[t].pc = "purge"
      BY <2>4, <1>1, <1>2 DEF IndInv, Delayed, history
    <2> QED BY <2>3, <2>4, <1>1
  <1> QED BY <1>3, <1>4, <1>5, <1>6, <1>7 DEF IndInv

\* A block that lost changes its type; it is neither stored nor in the queue.
LEMMA GetPurgesStep ==
    ASSUME IndInv, NEW t \in Writers, GetPurges(t)
    PROVE  IndInv'
  <1> DEFINE r == writer[t].ref
  <1>0. [writer[t] EXCEPT !.pc = "done", !.ref = reference] \in WriterRecord
    BY WriterTyped DEF IndInv, TypeOK, WriterRecord
  <1>1. /\ writer[t].pc = "purge"
        /\ r \in Refs /\ block[r].cookie = "allocated" /\ block[r].type = kType
        /\ \A i \in DOMAIN log : log[i] # r
        /\ r # reference /\ reference # Null
    BY DEF GetPurges, IndInv, Owned, Owning, Delayed
  <1>2. /\ block' = [block EXCEPT ![r].type = 0]
        /\ writer' = [writer EXCEPT ![t].pc = "done", ![t].ref = reference]
        /\ UNCHANGED <<freeptr, tailptr, flags, reference, iterator, reader, history>>
    BY <1>1, OwnedIsAllocated DEF GetPurges
  <1>3. /\ \A u \in Writers : u # t => writer'[u] = writer[u]
        /\ writer'[t].pc = "done" /\ writer'[t].ref = reference
        /\ UNCHANGED <<tailptr, reference, log>>
    BY <1>2 DEF IndInv, TypeOK, WriterRecord, history
  <1>4. /\ \A s \in Refs \cup {kReferenceQueue} : s # r => block'[s] = block[s]
        /\ block'[r] = [block[r] EXCEPT !.type = 0]
        /\ block[r] \in BlockHeader
    BY <1>1, <1>2 DEF IndInv, TypeOK
  <1>5. /\ block'[r] \in BlockHeader
        /\ block'[r].size = block[r].size /\ block'[r].cookie = block[r].cookie
    BY <1>4 DEF BlockHeader
  <1>6. TypeOK' /\ NeverCorrupt'
    <2>1. writer' \in [Writers -> WriterRecord]
      BY <1>0, <1>2 DEF IndInv, TypeOK
    <2>2. block' \in [Refs \cup {kReferenceQueue} -> BlockHeader]
      BY <1>1, <1>2, <1>4, <1>5 DEF IndInv, TypeOK
    <2> QED BY <1>2, <2>1, <2>2 DEF IndInv, TypeOK, NeverCorrupt, IsCorrupt, iterator, history
  <1>7. Space' /\ Headers' /\ Disjoint'
    <2>1. \A s \in Refs : /\ block'[s].size = block[s].size
                          /\ block'[s].cookie = block[s].cookie
                          /\ block[s].cookie = "free" => block'[s] = block[s]
      BY <1>1, <1>4, <1>5
    <2> QED BY <2>1, <1>2, <1>3, SpaceFrame
  <1>8. /\ QueueIsLog' /\ Lasts' /\ Counts'
        /\ \A i \in DOMAIN log : block'[log[i]] = block[log[i]]
    BY <1>1, <1>2, <1>4, QueueFrame
  <1>9. Owned'
    <2>1. ASSUME NEW u \in Writers, writer'[u].pc \in Owning
          PROVE  /\ writer'[u] = writer[u]
                 /\ block'[writer[u].ref] = block[writer[u].ref]
      <3>1. u # t
        BY <2>1, <1>3 DEF Owning
      <3>2. writer'[u] = writer[u]
        BY <3>1, <1>3
      <3>3. writer[u].ref # r /\ writer[u].ref \in Refs
        BY <2>1, <3>1, <3>2, <1>1 DEF IndInv, Owned, Owning
      <3> QED BY <3>2, <3>3, <1>4
    <2>2. log' = log
      BY <1>2 DEF history
    <2> QED BY <2>1, <2>2 DEF IndInv, Owned
  <1>10. Tails'
    BY <1>3 DEF IndInv, Tails, Node
  <1>11. Delayed'
    <2>1. block'[reference] = block[reference]
      BY <1>1, <1>4 DEF IndInv, TypeOK
    <2> QED BY <1>3, <1>1, <1>8, <2>1 DEF IndInv, Delayed
  <1> QED BY <1>6, <1>7, <1>8, <1>9, <1>10, <1>11 DEF IndInv

\* A writer is killed: nothing depends on what it would have done.
LEMMA DiesStep ==
    ASSUME IndInv, NEW t \in Writers, Dies(t)
    PROVE  IndInv'
  <1>0. [writer[t] EXCEPT !.pc = "dead"] \in WriterRecord
    BY WriterTyped DEF WriterRecord
  <1>1. /\ \A u \in Writers : u # t => writer'[u] = writer[u]
        /\ writer'[t].pc = "dead"
        /\ UNCHANGED <<freeptr, tailptr, flags, block, reference, iterator, reader, history>>
    BY DEF IndInv, TypeOK, WriterRecord, Dies, Goto, segment
  <1>2. TypeOK' /\ NeverCorrupt'
    <2>1. writer' \in [Writers -> WriterRecord]
      BY <1>0 DEF IndInv, TypeOK, Dies, Goto
    <2> QED BY <1>1, <2>1 DEF IndInv, TypeOK, NeverCorrupt, IsCorrupt, iterator, history
  <1>3. Space' /\ Headers' /\ Disjoint'
    BY <1>1, SpaceFrame
  <1>4. Owned' /\ QueueIsLog' /\ Tails' /\ Lasts' /\ Counts' /\ Delayed'
    BY <1>1, Bystander DEF Owning
  <1> QED BY <1>2, <1>3, <1>4 DEF IndInv

------------------------------------------------------------------------------
\* The blocks whose MakeIterable has returned are in the log.
LEMMA NumIterableFacts ==
    ASSUME IndInv
    PROVE  NumIterable \in Nat /\ NumIterable <= Len(log)
  <1> DEFINE S == {0} \cup {i \in DOMAIN log :
                     \E t \in Writers : writer[t].pc = "done" /\ writer[t].ref = log[i]}
  <1>1. Len(log) \in Nat /\ S \subseteq 0 .. Len(log) /\ S # {}
    BY SeqFacts
  <1>2. Max(S) \in S
    BY <1>1, MaxFacts
  <1> HIDE DEF S
  <1>3. Max(S) \in 0 .. Len(log)
    BY <1>1, <1>2
  <1> QED BY <1>1, <1>3 DEF NumIterable, S

\* A step that changes nothing but what reader t knows.
LEMMA ReaderStutters ==
    ASSUME IndInv, NEW t \in Readers,
           reader' \in [Readers -> ReaderRecord],
           \A u \in Readers : u # t => reader'[u] = reader[u],
           reader[t].pc # "check", reader'[t].pc # "check",
           reader'[t].count <= record_count,
           reader'[t].due <= Len(log),
           reader'[t].pc = "end" => reader'[t].due <= handed,
           reader'[t].pc \in {"next", "advance"} =>
               \E i \in 0 .. handed :
                   /\ reader'[t].last = Node(i)
                   /\ reader'[t].pc = "advance" => i < Len(log) /\ reader'[t].next = Node(i + 1),
           UNCHANGED <<segment, writer, iterator, history>>
    PROVE  IndInv'
  <1>1. UNCHANGED <<freeptr, tailptr, flags, block, reference, writer, last_record,
                    record_count, log, handed>>
    BY DEF segment, iterator, history
  <1>2. Space' /\ Headers' /\ Disjoint' /\ Owned' /\ Tails' /\ Delayed'
    BY <1>1, ReaderFrame
  <1>3. TypeOK' /\ NeverCorrupt'
    BY <1>1 DEF IndInv, TypeOK, NeverCorrupt, IsCorrupt
  <1>4. QueueIsLog'
    BY <1>1 DEF IndInv, QueueIsLog, Node, IsAllocated
  <1>5. \A i : Node(i)' = Node(i)
    BY <1>1 DEF Node
  <1>6. Lasts'
    <2>1. ASSUME NEW u \in Readers
          PROVE  /\ reader'[u].due <= Len(log)
                 /\ reader'[u].pc = "end" => reader'[u].due <= handed
                 /\ reader'[u].pc \in {"next", "advance"} =>
                     \E i \in 0 .. handed :
                       /\ reader'[u].last = Node(i)
                       /\ reader'[u].pc = "advance" =>
                             i < Len(log) /\ reader'[u].next = Node(i + 1)
      <3>1. CASE u = t
        BY <3>1
      <3>2. CASE u # t
        BY <3>2 DEF IndInv, Lasts
      <3> QED BY <3>1, <3>2
    <2> QED BY <1>1, <1>5, <2>1 DEF Lasts
  <1>7. Checking' = Checking
    BY DEF Checking
  <1>8. Counts'
    BY <1>1, <1>7 DEF IndInv, Counts
  <1> QED BY <1>2, <1>3, <1>4, <1>6, <1>8 DEF IndInv

\* GetNext loads record_count_.
LEMMA LoadCountStep ==
    ASSUME IndInv, NEW t \in Readers, LoadCount(t)
    PROVE  IndInv'
  <1>1. [reader[t] EXCEPT !.pc = "count", !.count = record_count, !.due = NumIterable]
            \in ReaderRecord
    BY NumIterableFacts DEF IndInv, TypeOK, ReaderRecord
  <1>2. reader' \in [Readers -> ReaderRecord]
    BY <1>1 DEF IndInv, TypeOK, LoadCount
  <1>3. /\ \A u \in Readers : u # t => reader'[u] = reader[u]
        /\ reader[t].pc = "idle" /\ reader'[t].pc = "count"
        /\ reader'[t].count = record_count /\ reader'[t].due = NumIterable
        /\ UNCHANGED <<segment, writer, iterator, history>>
    BY DEF IndInv, TypeOK, ReaderRecord, LoadCount
  <1>4. record_count <= record_count /\ NumIterable <= Len(log)
    BY NumIterableFacts DEF IndInv, TypeOK
  <1> QED BY <1>2, <1>3, <1>4, ReaderStutters

\* GetNext loads last_record_.
LEMMA LoadLastStep ==
    ASSUME IndInv, NEW t \in Readers, LoadLast(t)
    PROVE  IndInv'
  <1>1. [reader[t] EXCEPT !.pc = "next", !.last = last_record] \in ReaderRecord
    BY DEF IndInv, TypeOK, ReaderRecord
  <1>2. reader' \in [Readers -> ReaderRecord]
    BY <1>1 DEF IndInv, TypeOK, LoadLast
  <1>3. /\ \A u \in Readers : u # t => reader'[u] = reader[u]
        /\ reader[t].pc = "count" /\ reader'[t].pc = "next"
        /\ reader'[t].count = reader[t].count /\ reader'[t].due = reader[t].due
        /\ reader'[t].last = last_record
        /\ UNCHANGED <<segment, writer, iterator, history>>
    BY DEF IndInv, TypeOK, ReaderRecord, LoadLast
  <1>4. reader[t].count <= record_count /\ reader[t].due <= Len(log)
    BY DEF IndInv, Counts, Lasts
  <1>5. handed \in 0 .. handed /\ last_record = Node(handed)
    BY SeqFacts DEF IndInv, QueueIsLog
  <1> QED BY <1>2, <1>3, <1>4, <1>5, ReaderStutters

\* GetNext loads the next reference, which is sound; it is the queue's own only at the
\* end of the log.
LEMMA LoadNextStep ==
    ASSUME IndInv, NEW t \in Readers, LoadNext(t)
    PROVE  IndInv'
  <1> DEFINE last == reader[t].last
             next == block[last].next
  <1>1. reader[t].pc = "next"
    BY DEF LoadNext
  <1>2. PICK i \in 0 .. handed : last = Node(i)
    BY <1>1 DEF IndInv, Lasts
  <1>3. handed \in Nat /\ Len(log) \in Nat /\ handed <= Len(log)
    BY SeqFacts
  <1>4. i \in 0 .. Len(log)
    BY <1>3
  <1>5. IsInQueue(last)
    BY <1>2, <1>4, NodeFacts
  <1>6. next # kReferenceQueue =>
          i < Len(log) /\ next = Node(i + 1) /\ next \in Refs /\ IsAllocated(next)
    <2> SUFFICES ASSUME next # kReferenceQueue
                 PROVE  i < Len(log) /\ next = Node(i + 1) /\ next \in Refs /\ IsAllocated(next)
      OBVIOUS
    <2>1. i # Len(log)
      BY <1>2, <1>4, NodeFacts
    <2>2. i < Len(log) /\ i + 1 \in 1 .. Len(log) /\ i + 1 \in 0 .. Len(log)
      BY <2>1, <1>3, <1>4
    <2>3. next = Node(i + 1) /\ next \in Refs
      BY <2>2, <1>2, <1>4, NodeFacts
    <2>4. IsInQueue(next)
      BY <2>2, <2>3, NodeFacts
    <2> QED BY <2>2, <2>3, <2>4 DEF IsInQueue
  <1>7. reader[t].count <= record_count /\ reader[t].due <= Len(log)
    BY DEF IndInv, Counts, Lasts
  <1>8. reader[t] \in ReaderRecord
    BY DEF IndInv, TypeOK
  <1>9. CASE next = kReferenceQueue
    <2>1. /\ reader' = [reader EXCEPT ![t].pc = "end"]
          /\ UNCHANGED <<segment, writer, iterator, history>>
      BY <1>5, <1>9 DEF LoadNext, segment
    <2>2. [reader[t] EXCEPT !.pc = "end"] \in ReaderRecord
      BY <1>8 DEF ReaderRecord
    <2>3. reader' \in [Readers -> ReaderRecord]
      BY <2>1, <2>2 DEF IndInv, TypeOK
    <2>4. /\ \A u \in Readers : u # t => reader'[u] = reader[u]
          /\ reader'[t].pc = "end"
          /\ reader'[t].count = reader[t].count /\ reader'[t].due = reader[t].due
      BY <2>1, <1>8 DEF IndInv, TypeOK, ReaderRecord
    <2>5. i = Len(log)
      BY <1>2, <1>4, <1>9, NodeFacts
    <2>6. reader[t].due <= handed
      BY <2>5, <1>2, <1>3, <1>7
    <2> QED BY <1>1, <1>7, <2>1, <2>3, <2>4, <2>6, ReaderStutters
  <1>10. CASE next # kReferenceQueue
    <2>1. /\ reader' = [reader EXCEPT ![t].pc = "advance", ![t].next = next]
          /\ UNCHANGED <<segment, writer, iterator, history>>
      BY <1>5, <1>6, <1>10 DEF LoadNext, segment
    <2>2. [reader[t] EXCEPT !.pc = "advance", !.next = next] \in ReaderRecord
      BY <1>6, <1>8, <1>10 DEF ReaderRecord
    <2>3. reader' \in [Readers -> ReaderRecord]
      BY <2>1, <2>2 DEF IndInv, TypeOK
    <2>4. /\ \A u \in Readers : u # t => reader'[u] = reader[u]
          /\ reader'[t].pc = "advance" /\ reader'[t].next = next
          /\ reader'[t].count = reader[t].count /\ reader'[t].due = reader[t].due
          /\ reader'[t].last = last
      BY <2>1, <1>8 DEF IndInv, TypeOK, ReaderRecord
    <2>5. UNCHANGED <<segment, writer, iterator, history>>
      BY <2>1
    <2> QED BY <1>1, <1>2, <1>6, <1>7, <1>10, <2>3, <2>4, <2>5, ReaderStutters
  <1> QED BY <1>9, <1>10

\* GetNext returns kReferenceNull.
LEMMA ReturnsNullStep ==
    ASSUME IndInv, NEW t \in Readers, ReturnsNull(t)
    PROVE  IndInv'
  <1>1. IdleReader \in ReaderRecord
    BY DEF IdleReader, ReaderRecord
  <1>2. reader' \in [Readers -> ReaderRecord]
    BY <1>1 DEF IndInv, TypeOK, ReturnsNull
  <1>3. /\ \A u \in Readers : u # t => reader'[u] = reader[u]
        /\ reader[t].pc = "end" /\ reader'[t].pc = "idle"
        /\ reader'[t].count = 0 /\ reader'[t].due = 0
        /\ UNCHANGED <<segment, writer, iterator, history>>
    BY DEF IndInv, TypeOK, ReturnsNull, IdleReader
  <1>4. 0 <= record_count /\ 0 <= Len(log)
    BY SeqFacts DEF IndInv, TypeOK
  <1> QED BY <1>2, <1>3, <1>4, ReaderStutters

\* GetNext moves the iterator, if it is where it was.
LEMMA AdvanceStep ==
    ASSUME IndInv, NEW t \in Readers, Advance(t)
    PROVE  IndInv'
  <1>1. reader[t].pc = "advance" /\ UNCHANGED <<segment, writer, record_count, log>>
    BY DEF Advance
  <1>2. PICK i \in 0 .. handed :
           /\ reader[t].last = Node(i)
           /\ i < Len(log) /\ reader[t].next = Node(i + 1)
    BY <1>1 DEF IndInv, Lasts
  <1>3. handed \in Nat /\ Len(log) \in Nat /\ handed <= Len(log) /\ last_record = Node(handed)
    BY SeqFacts DEF IndInv, QueueIsLog
  <1>4. reader[t] \in ReaderRecord /\ last_record \in Refs \cup {kReferenceQueue}
    BY DEF IndInv, TypeOK
  <1>5. CASE last_record # reader[t].last
    <2>1. /\ reader' = [reader EXCEPT ![t].pc = "next", ![t].last = last_record, ![t].next = Null]
          /\ UNCHANGED <<segment, writer, iterator, history>>
      BY <1>5 DEF Advance, iterator, history
    <2>2. [reader[t] EXCEPT !.pc = "next", !.last = last_record, !.next = Null] \in ReaderRecord
      BY <1>4 DEF ReaderRecord
    <2>3. reader' \in [Readers -> ReaderRecord]
      BY <2>1, <2>2 DEF IndInv, TypeOK
    <2>4. /\ \A u \in Readers : u # t => reader'[u] = reader[u]
          /\ reader'[t].pc = "next" /\ reader'[t].last = last_record
          /\ reader'[t].count = reader[t].count /\ reader'[t].due = reader[t].due
          /\ UNCHANGED <<segment, writer, iterator, history>>
      BY <2>1, <1>4 DEF IndInv, TypeOK, ReaderRecord
    <2>5. reader[t].count <= record_count /\ reader[t].due <= Len(log)
      BY DEF IndInv, Counts, Lasts
    <2>6. handed \in 0 .. handed
      BY <1>3
    <2> QED BY <1>1, <1>3, <2>3, <2>4, <2>5, <2>6, ReaderStutters
  <1>6. CASE last_record = reader[t].last
    <2>1. /\ last_record' = reader[t].next
          /\ handed' = handed + 1
          /\ reader' = [reader EXCEPT ![t].pc = "check", ![t].last = Null]
      BY <1>6 DEF Advance
    <2>2. [reader[t] EXCEPT !.pc = "check", !.last = Null] \in ReaderRecord
      BY <1>4 DEF ReaderRecord
    <2>3. reader' \in [Readers -> ReaderRecord]
      BY <2>1, <2>2 DEF IndInv, TypeOK
    <2>4. /\ \A u \in Readers : u # t => reader'[u] = reader[u]
          /\ reader'[t].pc = "check"
          /\ reader'[t].count = reader[t].count /\ reader'[t].due = reader[t].due
      BY <2>1, <1>4 DEF IndInv, TypeOK, ReaderRecord
    <2>5. i = handed
      <3>1. i \in 0 .. Len(log) /\ handed \in 0 .. Len(log)
        BY <1>2, <1>3
      <3> QED BY <3>1, <1>2, <1>3, <1>6, NodeFacts
    <2>6. /\ handed < Len(log) /\ handed + 1 \in 1 .. Len(log)
          /\ reader[t].next = Node(handed + 1)
      BY <2>5, <1>2, <1>3
    <2>7. UNCHANGED <<freeptr, tailptr, flags, block, reference, writer, record_count, log>>
      BY <1>1 DEF segment
    <2>8. Space' /\ Headers' /\ Disjoint' /\ Owned' /\ Tails' /\ Delayed'
      BY <2>7, ReaderFrame
    <2>9. reader[t].next \in Refs
      BY <2>6, NodeFacts
    <2>10. TypeOK' /\ NeverCorrupt'
      BY <2>1, <2>3, <2>7, <2>9, <1>3 DEF IndInv, TypeOK, NeverCorrupt, IsCorrupt
    <2>11. \A j : Node(j)' = Node(j)
      BY <2>7 DEF Node
    <2>12. QueueIsLog'
      <3>1. last_record' = Node(handed)' /\ handed' <= Len(log)
        BY <2>1, <2>6, <2>7, <1>3 DEF Node
      <3>2. \A j \in DOMAIN log : IsAllocated(log[j])'
        BY <2>7 DEF IndInv, QueueIsLog, IsAllocated
      <3> QED BY <2>7, <2>11, <3>1, <3>2 DEF IndInv, QueueIsLog
    <2>13. Lasts'
      <3>1. ASSUME NEW u \in Readers
            PROVE  /\ reader'[u].due <= Len(log)
                   /\ reader'[u].pc = "end" => reader'[u].due <= handed + 1
                   /\ reader'[u].pc \in {"next", "advance"} =>
                       \E j \in 0 .. handed + 1 :
                         /\ reader'[u].last = Node(j)
                         /\ reader'[u].pc = "advance" =>
                               j < Len(log) /\ reader'[u].next = Node(j + 1)
        <4>1. reader[u].due <= Len(log) /\ reader[u].due \in Nat
          BY DEF IndInv, Lasts, TypeOK, ReaderRecord
        <4>2. CASE u = t
          BY <4>1, <4>2, <2>4
        <4>3. CASE u # t
          <5>1. reader'[u] = reader[u]
            BY <4>3, <2>4
          <5>2. reader[u].pc = "end" => reader[u].due <= handed + 1
            BY <4>1, <1>3 DEF IndInv, Lasts
          <5>3. \A j \in 0 .. handed : j \in 0 .. handed + 1
            BY <1>3
          <5> QED BY <4>1, <5>1, <5>2, <5>3 DEF IndInv, Lasts
        <4> QED BY <4>2, <4>3
      <3> QED BY <2>1, <2>7, <2>11, <3>1 DEF Lasts
    <2>14. Counts'
      <3>1. t \notin Checking /\ Checking' = Checking \cup {t}
        BY <1>1, <2>4 DEF Checking
      <3>2. /\ IsFiniteSet(Checking) /\ Cardinality(Checking) \in Nat
            /\ record_count + Cardinality(Checking) = handed
        BY FS_CardinalityType DEF IndInv, Counts
      <3>3. IsFiniteSet(Checking') /\ Cardinality(Checking') = Cardinality(Checking) + 1
        BY <3>1, <3>2, FS_AddElement
      <3>4. record_count \in Nat /\ record_count' = record_count
        BY <2>7 DEF IndInv, TypeOK
      <3>5. record_count + (Cardinality(Checking) + 1) = handed + 1
        BY <3>2, <3>4
      <3>6. \A u \in Readers : reader'[u].count <= record_count
        BY <2>4 DEF IndInv, Counts
      <3> QED BY <3>3, <3>4, <3>5, <3>6, <2>1 DEF Counts
    <2> QED BY <2>8, <2>10, <2>12, <2>13, <2>14 DEF IndInv
  <1> QED BY <1>5, <1>6

\* As many blocks as GetNext allows for fit below freeptr.
LEMMA LogBound ==
    ASSUME IndInv
    PROVE  Len(log) <= MaxRecords
  <1> DEFINE n == Len(log)
             m == freeptr \div 24
             f == [i \in 1 .. n |-> log[i] \div 24]
  <1>1. n \in Nat /\ DOMAIN log = 1 .. n /\ log \in Seq(Refs)
    BY SeqFacts
  <1>2. freeptr \in Nat /\ m \in Nat /\ freeptr >= 24 /\ m > 0
    BY DEF IndInv, TypeOK, Space, Place, kSharedMetadata
  <1>3. ASSUME NEW i \in 1 .. n
        PROVE  log[i] \in Nat /\ log[i] \in Used /\ log[i] + 24 <= freeptr
    <2>1. IsAllocated(log[i])
      BY <1>1 DEF IndInv, QueueIsLog
    <2>2. log[i] \in Used
      BY <2>1 DEF IsAllocated, Used
    <2>3. log[i] \in Nat /\ block[log[i]].size \in Nat
      BY <2>2, Ranges
    <2>4. block[log[i]].size >= 24 /\ log[i] + block[log[i]].size <= freeptr
      BY <2>2 DEF IndInv, Headers, kMinBlock, kBlockHeader, kAllocAlignment
    <2> QED BY <2>2, <2>3, <2>4, <1>2
  <1>4. ASSUME NEW i \in 1 .. n, NEW j \in 1 .. n, log[i] < log[j]
        PROVE  log[i] + 24 <= log[j]
    <2>1. log[i] \in Used /\ log[j] \in Used /\ log[i] \in Nat /\ log[j] \in Nat
      BY <1>3
    <2>2. log[i] + block[log[i]].size <= log[j] /\ block[log[i]].size >= 24
      BY <2>1, <1>4 DEF IndInv, Disjoint, Headers, kMinBlock, kBlockHeader, kAllocAlignment
    <2>3. block[log[i]].size \in Nat
      BY <2>1, Ranges
    <2> QED BY <2>1, <2>2, <2>3
  <1>5. \A a, b \in Nat : a + 24 <= b => a \div 24 < b \div 24
    OBVIOUS
  <1>6. \A a \in Nat : a \div 24 \in Nat
    OBVIOUS
  <1> HIDE DEF n, m
  <1>7. \A i \in 1 .. n : f[i] \in 0 .. m - 1
    <2> SUFFICES ASSUME NEW i \in 1 .. n PROVE log[i] \div 24 \in 0 .. m - 1
      OBVIOUS
    <2>1. log[i] \div 24 \in Nat /\ log[i] \div 24 < m
      BY <1>2, <1>3, <1>5, <1>6 DEF m
    <2> QED BY <2>1, <1>2
  <1>8. ASSUME NEW i \in 1 .. n, NEW j \in 1 .. n, f[i] = f[j]
        PROVE  i = j
    <2>1. log[i] \in Nat /\ log[j] \in Nat /\ log[i] \div 24 = log[j] \div 24
      BY <1>3, <1>8
    <2>2. log[i] = log[j]
      <3>1. ~(log[i] < log[j])
        <4> SUFFICES ASSUME log[i] < log[j] PROVE FALSE
          OBVIOUS
        <4>1. log[i] \div 24 < log[j] \div 24
          BY <1>4, <1>5, <2>1
        <4> QED BY <4>1, <2>1, <1>6
      <3>2. ~(log[j] < log[i])
        <4> SUFFICES ASSUME log[j] < log[i] PROVE FALSE
          OBVIOUS
        <4>1. log[j] \div 24 < log[i] \div 24
          BY <1>4, <1>5, <2>1
        <4> QED BY <4>1, <2>1, <1>6
      <3> QED BY <3>1, <3>2, <2>1
    <2> QED BY <2>2, <1>1 DEF IndInv, QueueIsLog, IsInjective
  <1>9. f \in Injection(1 .. n, 0 .. m - 1)
    BY <1>7, <1>8 DEF Injection, IsInjective
  <1>10. /\ IsFiniteSet(0 .. m - 1) /\ Cardinality(0 .. m - 1) = m
         /\ Cardinality(1 .. n) = n
    <2>1. 0 \in Int /\ m - 1 \in Int /\ 1 \in Int /\ n \in Int
      BY <1>1, <1>2
    <2>2. /\ IsFiniteSet(0 .. m - 1)
          /\ Cardinality(0 .. m - 1) = IF 0 > m - 1 THEN 0 ELSE m - 1 - 0 + 1
          /\ Cardinality(1 .. n) = IF 1 > n THEN 0 ELSE n - 1 + 1
      BY <2>1, FS_Interval
    <2> QED BY <2>2, <1>1, <1>2
  <1> HIDE DEF f
  <1>11. Cardinality(1 .. n) <= Cardinality(0 .. m - 1)
    BY <1>9, <1>10, FS_Injection
  <1> QED BY <1>10, <1>11 DEF MaxRecords, n, m, kBlockHeader, kAllocAlignment

\* GetNext's check for a loop succeeds.
LEMMA CheckCountStep ==
    ASSUME IndInv, NEW t \in Readers, CheckCount(t)
    PROVE  IndInv'
  <1>1. /\ IsFiniteSet(Checking) /\ Cardinality(Checking) \in Nat
        /\ record_count \in Nat
        /\ record_count + Cardinality(Checking) = handed
    BY FS_CardinalityType DEF IndInv, Counts, TypeOK
  <1>2. ~(reader[t].count > MaxRecords)
    <2>1. reader[t].count \in Nat /\ reader[t].count <= record_count
      BY DEF IndInv, TypeOK, ReaderRecord, Counts
    <2>2. record_count <= Len(log)
      BY <1>1, SeqFacts
    <2>3. Len(log) \in Nat /\ MaxRecords \in Nat
      BY SeqFacts DEF IndInv, TypeOK, MaxRecords, kBlockHeader, kAllocAlignment
    <2> QED BY <1>1, <2>1, <2>2, <2>3, LogBound
  <1>3. /\ reader[t].pc = "check"
        /\ record_count' = record_count + 1
        /\ reader' = [reader EXCEPT ![t] = IdleReader]
        /\ UNCHANGED <<freeptr, tailptr, flags, block, reference, writer, last_record, log, handed>>
    BY <1>2 DEF CheckCount, history
  <1>4. IdleReader \in ReaderRecord
    BY DEF IdleReader, ReaderRecord
  <1>5. reader' \in [Readers -> ReaderRecord]
    BY <1>3, <1>4 DEF IndInv, TypeOK
  <1>6. /\ \A u \in Readers : u # t => reader'[u] = reader[u]
        /\ reader'[t] = IdleReader
    BY <1>3 DEF IndInv, TypeOK
  <1>7. Space' /\ Headers' /\ Disjoint' /\ Owned' /\ Tails' /\ Delayed'
    BY <1>3, ReaderFrame
  <1>8. TypeOK' /\ NeverCorrupt'
    BY <1>1, <1>3, <1>5 DEF IndInv, TypeOK, NeverCorrupt, IsCorrupt
  <1>9. QueueIsLog'
    BY <1>3 DEF IndInv, QueueIsLog, Node, IsAllocated
  <1>10. Lasts'
    <2>1. IdleReader.due = 0 /\ IdleReader.pc = "idle" /\ 0 <= Len(log)
      BY SeqFacts DEF IdleReader
    <2>2. \A j : Node(j)' = Node(j)
      BY <1>3 DEF Node
    <2> QED BY <1>3, <1>6, <2>1, <2>2 DEF IndInv, Lasts
  <1>11. Counts'
    <2>1. t \in Checking /\ Checking' = Checking \ {t}
      BY <1>3, <1>6 DEF Checking, IdleReader
    <2>2. IsFiniteSet(Checking') /\ Cardinality(Checking') = Cardinality(Checking) - 1
      BY <1>1, <2>1, FS_RemoveElement
    <2>3. record_count + 1 + (Cardinality(Checking) - 1) = handed
      BY <1>1, SeqFacts
    <2>4. ASSUME NEW u \in Readers PROVE reader'[u].count <= record_count + 1
      <3>1. reader[u].count \in Nat /\ reader[u].count <= record_count
        BY DEF IndInv, TypeOK, ReaderRecord, Counts
      <3>2. IdleReader.count = 0
        BY DEF IdleReader
      <3> QED BY <3>1, <3>2, <1>1, <1>6
    <2> QED BY <1>3, <2>2, <2>3, <2>4 DEF Counts
  <1> QED BY <1>7, <1>8, <1>9, <1>10, <1>11 DEF IndInv

------------------------------------------------------------------------------
\* The constructor establishes the invariant.
LEMMA InitIndInv == Init => IndInv
  <1> SUFFICES ASSUME Init PROVE IndInv
    OBVIOUS
  <1>1. PICK cast \in Casts :
        /\ writer = [t \in Writers |-> IF t \in cast THEN NewWriter(t) ELSE Idle]
        /\ reader = [t \in Readers |->
                       IF t \in cast THEN IdleReader ELSE [IdleReader EXCEPT !.pc = "out"]]
    BY DEF Init
  <1>2. /\ freeptr = 64 /\ tailptr = kReferenceQueue /\ flags = {} /\ reference = Null
        /\ last_record = kReferenceQueue /\ record_count = 0
        /\ log = <<>> /\ handed = 0
    BY DEF Init, kSharedMetadata
  <1>3. /\ block \in [Refs \cup {kReferenceQueue} -> BlockHeader]
        /\ \A r \in Refs : block[r] = FreeBlock
        /\ block[kReferenceQueue].next = kReferenceQueue
    <2>1. /\ FreeBlock \in BlockHeader
          /\ [size |-> kBlockHeader, cookie |-> "queue", type |-> 0, next |-> kReferenceQueue]
                \in BlockHeader
      BY DEF FreeBlock, BlockHeader, kBlockHeader
    <2> QED BY <2>1, RefsFacts DEF Init
  <1>4. ASSUME NEW t \in Writers
        PROVE  /\ writer[t] \in WriterRecord
               /\ writer[t].pc \in {"out", "get", "allocate"}
               /\ writer[t].pc = "get" => t \in Getters
               /\ writer[t].pc # "out" => writer[t].size = AllocSize(t)
    <2>1. Idle \in WriterRecord /\ Idle.pc = "out"
      BY DEF Idle, WriterRecord
    <2>2. /\ NewWriter(t) \in WriterRecord
          /\ NewWriter(t).pc = IF t \in Getters THEN "get" ELSE "allocate"
          /\ NewWriter(t).size = AllocSize(t)
      BY AllocSizeFacts DEF Idle, NewWriter, WriterRecord
    <2>3. writer[t] = Idle \/ writer[t] = NewWriter(t)
      BY <1>1
    <2> QED BY <2>1, <2>2, <2>3
  <1>5. ASSUME NEW t \in Readers
        PROVE  /\ reader[t] \in ReaderRecord
               /\ reader[t].pc \in {"idle", "out"}
               /\ reader[t].count = 0 /\ reader[t].due = 0
    BY <1>1 DEF IdleReader, ReaderRecord
  <1>6. TypeOK
    <2>1. writer \in [Writers -> WriterRecord] /\ reader \in [Readers -> ReaderRecord]
      BY <1>1, <1>4, <1>5
    <2> QED BY <1>2, <1>3, <2>1 DEF TypeOK
  <1>7. NeverCorrupt
    BY <1>2 DEF NeverCorrupt, IsCorrupt
  <1>8. Space
    <2>1. Place(64)
      BY <1>2, MemoryAssumption DEF Place, PageFree, kMinBlock, kSharedMetadata, kAllocAlignment
    <2>2. Pending = {}
      BY <1>4 DEF Pending
    <2>3. \A t \in Writers : writer[t].pc \in {"get", "allocate", "try", "waste", "fill"} =>
            /\ writer[t].size >= AllocSize(t)
            /\ writer[t].size % kAllocAlignment = 0
      BY <1>4, AllocSizeFacts
    <2> QED BY <1>2, <1>4, <2>1, <2>2, <2>3, MemoryAssumption DEF Space, kSharedMetadata
  <1>9. Used = {}
    BY <1>3 DEF Used, FreeBlock
  <1>10. Headers
    BY <1>3, <1>9 DEF Headers, FreeBlock
  <1>11. Disjoint
    BY <1>4, <1>9 DEF Disjoint, Pending
  <1>12. Owned /\ Tails /\ Delayed
    BY <1>2, <1>4 DEF Owned, Owning, Tails, Delayed
  <1>13. QueueIsLog
    <2>1. Len(log) = 0 /\ DOMAIN log = {} /\ Node(0) = kReferenceQueue
      BY <1>2 DEF Node
    <2> QED BY <1>2, <1>3, <2>1 DEF QueueIsLog, IsInjective
  <1>14. Lasts
    BY <1>2, <1>5 DEF Lasts
  <1>15. Counts
    <2>1. Checking = {}
      BY <1>5 DEF Checking
    <2> QED BY <1>2, <1>5, <2>1, FS_EmptySet DEF Counts
  <1> QED BY <1>6, <1>7, <1>8, <1>10, <1>11, <1>12, <1>13, <1>14, <1>15 DEF IndInv

\* A stuttering step preserves it.
LEMMA StutterIndInv ==
    ASSUME IndInv, UNCHANGED vars
    PROVE  IndInv'
  <1>1. UNCHANGED <<freeptr, tailptr, flags, block, reference, writer, last_record,
                    record_count, reader, log, handed>>
    BY DEF vars, segment, iterator, history
  <1>2. Space' /\ Headers' /\ Disjoint' /\ Owned' /\ Tails' /\ Delayed'
    BY <1>1, ReaderFrame
  <1>3. TypeOK' /\ NeverCorrupt'
    BY <1>1 DEF IndInv, TypeOK, NeverCorrupt, IsCorrupt
  <1>4. QueueIsLog' /\ Lasts' /\ Counts'
    BY <1>1 DEF IndInv, QueueIsLog, Lasts, Counts, Checking, Node, IsAllocated
  <1> QED BY <1>2, <1>3, <1>4 DEF IndInv

\* Every step preserves it.
LEMMA NextIndInv == IndInv /\ [Next]_vars => IndInv'
  <1> SUFFICES ASSUME IndInv, [Next]_vars PROVE IndInv'
    OBVIOUS
  <1>1. ASSUME NEW t \in Writers, WriterStep(t) PROVE IndInv'
    BY <1>1, LoadFreeptrStep, AllocateFailsStep, SkipPageStep, MarkWastedStep, ClaimSpaceStep,
       FillHeaderStep, MarkAsTailStep, LoadTailStep, LinkStep, SwingTailStep, HelpTailStep,
       GetLoadsStep, GetStoresStep, GetPurgesStep DEF WriterStep
  <1>2. ASSUME NEW t \in Writers, Dies(t) PROVE IndInv'
    BY <1>2, DiesStep
  <1>3. ASSUME NEW t \in Readers, ReaderStep(t) PROVE IndInv'
    BY <1>3, LoadCountStep, LoadLastStep, LoadNextStep, ReturnsNullStep, AdvanceStep,
       CheckCountStep DEF ReaderStep
  <1>4. CASE UNCHANGED vars
    BY <1>4, StutterIndInv
  <1> QED BY <1>1, <1>2, <1>3, <1>4 DEF Next

\* The inductive invariant holds of every run, whatever the threads, the requests, the
\* sizes of the segment and of its pages, and whichever writers are killed where.
THEOREM Invariance == Spec => []IndInv
  BY InitIndInv, NextIndInv, PTL DEF Spec

\* Every field of the segment and every local variable keeps its type: references are
\* aligned and inside the segment.
THEOREM TypeCorrect == Spec => []TypeOK
  <1>1. IndInv => TypeOK
    BY DEF IndInv
  <1> QED BY <1>1, Invariance, PTL

\* No interleaving and no killed writer makes AllocateImpl, MakeIterable or GetNext
\* raise the corrupt flag.
THEOREM NothingTakenForCorruption == Spec => []NeverCorrupt
  <1>1. IndInv => NeverCorrupt
    BY DEF IndInv
  <1> QED BY <1>1, Invariance, PTL

\* AllocateImpl: blocks do not overlap, do not cross a page's end, lie below freeptr
\* and hold what was asked for.
THEOREM BlocksAreDisjoint == Spec => []BlocksDisjoint
  <1>1. ASSUME IndInv PROVE BlocksDisjoint
    <2>1. freeptr <= mem_size
      BY <1>1 DEF IndInv, Space
    <2>2. ASSUME NEW r \in Used
          PROVE  /\ r + block[r].size <= freeptr
                 /\ r \div mem_page = (r + block[r].size - 1) \div mem_page
                 /\ \A s \in Used : r < s => r + block[r].size <= s
      <3>1. /\ r \in Nat /\ block[r].size \in Nat /\ 0 < block[r].size
            /\ r + block[r].size <= freeptr
        BY <1>1, Ranges
      <3>2. block[r].size <= PageFree(r)
        BY <1>1 DEF IndInv, Headers
      <3>3. r \div mem_page = (r + block[r].size - 1) \div mem_page
        BY <3>1, <3>2, PageFreeFacts
      <3>4. \A s \in Used : r < s => r + block[r].size <= s
        BY <1>1 DEF IndInv, Disjoint
      <3> QED BY <3>1, <3>3, <3>4
    <2>3. \A t \in Writers :
            writer[t].pc \in {"store", "mark"} => block[writer[t].ref].size >= AllocSize(t)
      BY <1>1 DEF IndInv, Owned, Owning
    <2> QED BY <2>1, <2>2, <2>3 DEF BlocksDisjoint, Used
  <1> QED BY <1>1, Invariance, PTL

\* MakeIterable: the list from the queue's header holds the iterable blocks, in order,
\* each once, and the tail pointer is at most one block behind.
THEOREM QueueHoldsTheLog == Spec => []QueueIsLog
  <1>1. IndInv => QueueIsLog
    BY DEF IndInv
  <1> QED BY <1>1, Invariance, PTL

\* GetNext reports the end only when all that was iterable at its call was handed out.
THEOREM ReadersMissNothing == Spec => []NothingMissed
  <1>1. IndInv => NothingMissed
    BY DEF IndInv, Lasts, NothingMissed
  <1> QED BY <1>1, Invariance, PTL

\* DelayedPersistentAllocation::Get returns the same block to all, of the right size
\* and type, and no purged block is iterable.
THEOREM GettersShareTheirBlock == Spec => []SameSpace
  <1>1. ASSUME IndInv PROVE SameSpace
    <2>1. ASSUME NEW t \in Getters, writer[t].pc = "done"
          PROVE  /\ writer[t].ref = reference
                 /\ reference # Null /\ IsAllocated(reference)
                 /\ block[reference].type = kType
                 /\ block[reference].size >= AllocSize(t)
      <3>1. /\ writer[t].ref = reference /\ reference # Null
            /\ block[reference].cookie = "allocated" /\ block[reference].type = kType
            /\ block[reference].size >= AllocSize(t)
        BY <1>1, <2>1 DEF IndInv, Delayed, Writers
      <3>2. reference \in Refs
        BY <1>1, <3>1 DEF IndInv, TypeOK
      <3> QED BY <1>1, <3>1, <3>2, OwnedIsAllocated
    <2>2. \A i \in DOMAIN log : block[log[i]].type = kType
      BY <1>1 DEF IndInv, Delayed
    <2> QED BY <2>1, <2>2 DEF SameSpace
  <1> QED BY <1>1, Invariance, PTL

\* A step of the queue's users is a step of the abstract log, or leaves it alone.
LEMMA NextRefines ==
    ASSUME IndInv, [Next]_vars
    PROVE  [Log!Next]_<<log, handed>>
  <1>1. CASE UNCHANGED <<log, handed>>
    BY <1>1
  <1>2. ASSUME NEW t \in Writers, WriterStep(t) \/ Dies(t), ~UNCHANGED <<log, handed>>
        PROVE  Log!Next
    <2>1. Link(t)
      BY <1>2 DEF WriterStep, LoadFreeptr, AllocateFails, SkipPage, MarkWasted, ClaimSpace,
         FillHeader, MarkAsTail, LoadTail, SwingTail, HelpTail, GetLoads, GetStores, GetPurges,
         Dies, history
    <2>2. log' = Append(log, writer[t].ref) /\ handed' = handed /\ writer[t].pc = "link"
      BY <1>2, <2>1 DEF Link
    <2>3. writer[t].ref \in Refs /\ \A i \in DOMAIN log : log[i] # writer[t].ref
      BY <2>2 DEF IndInv, Owned, Owning
    <2>4. Log!MakeIterable(writer[t].ref)
      BY <2>2, <2>3 DEF Log!MakeIterable
    <2> QED BY <2>3, <2>4 DEF Log!Next
  <1>3. ASSUME NEW t \in Readers, ReaderStep(t), ~UNCHANGED <<log, handed>>
        PROVE  Log!Next
    <2>1. Advance(t)
      BY <1>3 DEF ReaderStep, LoadCount, LoadLast, LoadNext, ReturnsNull, CheckCount, history
    <2>2. /\ reader[t].pc = "advance" /\ last_record = reader[t].last
          /\ handed' = handed + 1 /\ log' = log
      BY <1>3, <2>1 DEF Advance
    <2>3. PICK i \in 0 .. handed : reader[t].last = Node(i) /\ i < Len(log)
      BY <2>2 DEF IndInv, Lasts
    <2>4. handed \in Nat /\ Len(log) \in Nat /\ handed <= Len(log) /\ last_record = Node(handed)
      BY SeqFacts DEF IndInv, QueueIsLog
    <2>5. i \in 0 .. Len(log) /\ handed \in 0 .. Len(log)
      BY <2>3, <2>4
    <2>6. i = handed
      BY <2>2, <2>3, <2>4, <2>5, NodeFacts
    <2> QED BY <2>2, <2>3, <2>6 DEF Log!Next, Log!GetNext
  <1> QED BY <1>1, <1>2, <1>3 DEF Next, vars, history

\* The lock-free queue and its shared iterator implement IterableLog: records are only
\* appended, each once, and handed out in that order, each once.
THEOREM ImplementsIterableLog == Spec => IteratesInOrder
  <1>1. Init => Log!Init
    BY DEF Init, Log!Init
  <1>2. IndInv /\ [Next]_vars => [Log!Next]_<<log, handed>>
    BY NextRefines
  <1> QED BY <1>1, <1>2, Invariance, PTL DEF Spec, IteratesInOrder, Log!Spec

===============================================================================
