--------------------------- MODULE PersistentMemory ---------------------------
(***************************************************************************)
(* base::PersistentMemoryAllocator (base/metrics/                          *)
(* persistent_memory_allocator.cc): allocation in a memory segment that    *)
(* processes share, the queue of iterable blocks, its iterator, and        *)
(* DelayedPersistentAllocation.                                            *)
(*                                                                         *)
(* Nothing is locked: a step is one atomic operation on the segment (with  *)
(* the computations on local values before it).  Atomic operations are     *)
(* sequentially consistent here.  A writer may be killed between any two   *)
(* steps; the segment stays as it is.  Sizes and references are in bytes.  *)
(* Allocators allocate a block and make it iterable; getters call Get() of *)
(* copies of one DelayedPersistentAllocation with make_iterable set;       *)
(* readers share an Iterator.                                              *)
(***************************************************************************)
EXTENDS Naturals, Sequences, SequencesExt, FiniteSetsExt

CONSTANTS
    Allocators, Getters, Readers,   \* threads
    Casts,           \* sets of threads that run at the same time
    Mortal,          \* the writers that may be killed
    ReqSize,         \* what each writer asks for; getters ask for the same
    mem_size,        \* mem_size_
    mem_page,        \* mem_page_
    Null             \* kReferenceNull, or no value

kAllocAlignment == 8
kBlockHeader == 16                \* sizeof(BlockHeader)
kSharedMetadata == 64             \* sizeof(SharedMetadata)
kReferenceQueue == 48             \* offsetof(SharedMetadata, queue)
kType == 1                        \* the type_id of every allocation

Writers == Allocators \cup Getters

ASSUME ThreadsAssumption ==
    /\ Allocators \cap Getters = {}
    /\ Mortal \subseteq Writers
    /\ Casts \subseteq SUBSET (Writers \cup Readers)
    /\ ReqSize \in [Writers -> Nat \ {0}]
    /\ \A g, h \in Getters : ReqSize[g] = ReqSize[h]

\* IsMemoryAcceptable, and a first page with room for a block.
ASSUME MemoryAssumption ==
    /\ mem_size \in Nat /\ mem_page \in Nat \ {0}
    /\ mem_size >= kSharedMetadata
    /\ mem_size % kAllocAlignment = 0
    /\ mem_size % mem_page = 0
    /\ LET first == mem_page - (kSharedMetadata % mem_page)
       IN first >= kBlockHeader + kAllocAlignment
    /\ Null \notin Nat

\* Nobody checks this, but every page size in use (the whole segment, 64 KiB) is
\* aligned; after the end of another page, blocks would not be.
ASSUME PageAssumption == mem_page % kAllocAlignment = 0

VARIABLES
    freeptr,      \* shared_meta()->freeptr
    tailptr,      \* shared_meta()->tailptr
    flags,        \* shared_meta()->flags: "corrupt", "full"
    block,        \* the block headers in the segment, by reference
    reference,    \* where the DelayedPersistentAllocation stores its block
    writer,       \* each writer's pc and local variables
    last_record,  \* last_record_ of the Iterator
    record_count, \* record_count_ of the Iterator
    reader,       \* each reader's pc and local variables
    log,          \* history: the blocks in the order in which they were linked
    handed        \* history: how many of them the iterator has moved past

segment == <<freeptr, tailptr, flags, block, reference>>
iterator == <<last_record, record_count>>
history == <<log, handed>>
vars == <<segment, writer, iterator, reader, history>>

Refs == {r \in kSharedMetadata .. mem_size - kBlockHeader : r % kAllocAlignment = 0}

FreeBlock == [size |-> 0, cookie |-> "free", type |-> 0, next |-> Null]

RoundUp(n) == ((n + kAllocAlignment - 1) \div kAllocAlignment) * kAllocAlignment

\* The size of a request with its header, aligned (AllocateImpl).
AllocSize(t) == RoundUp(ReqSize[t] + kBlockHeader)

Idle == [pc |-> "out", size |-> 0, freeptr |-> 0, ref |-> Null, tail |-> Null,
         next |-> Null]

NewWriter(t) ==
    [Idle EXCEPT !.pc = IF t \in Getters THEN "get" ELSE "allocate",
                 !.size = AllocSize(t)]

\* "due" is a history field: how many blocks were iterable when GetNext began.
IdleReader == [pc |-> "idle", count |-> 0, last |-> Null, next |-> Null, due |-> 0]

\* A new segment, set up by the constructor.
Init ==
    /\ freeptr = kSharedMetadata
    /\ tailptr = kReferenceQueue
    /\ flags = {}
    /\ block = [r \in Refs \cup {kReferenceQueue} |->
                  IF r = kReferenceQueue
                  THEN [size |-> kBlockHeader, cookie |-> "queue", type |-> 0,
                        next |-> kReferenceQueue]
                  ELSE FreeBlock]
    /\ reference = Null
    /\ \E cast \in Casts :
        /\ writer = [t \in Writers |-> IF t \in cast THEN NewWriter(t) ELSE Idle]
        /\ reader = [t \in Readers |->
                       IF t \in cast THEN IdleReader ELSE [IdleReader EXCEPT !.pc = "out"]]
    /\ last_record = kReferenceQueue
    /\ record_count = 0
    /\ log = <<>>
    /\ handed = 0

IsCorrupt == "corrupt" \in flags

SetFlag(flag) == flags' = flags \cup {flag}

\* GetBlock for a block that must have been allocated.
IsAllocated(r) ==
    /\ r \in Refs
    /\ block[r].cookie = "allocated"
    /\ block[r].size >= kBlockHeader
    /\ r + block[r].size <= mem_size

\* GetBlock with queue_ok.
IsInQueue(r) == r = kReferenceQueue \/ IsAllocated(r)

Finished == {"out", "done", "failed", "dead"}

Goto(t, pc) == writer' = [writer EXCEPT ![t].pc = pc]

------------------------------------------------------------------------------
(* AllocateImpl                                                              *)

LoadFreeptr(t) ==
    /\ writer[t].pc = "allocate"
    /\ writer' = [writer EXCEPT ![t].pc = "try", ![t].freeptr = freeptr]
    /\ UNCHANGED <<segment, iterator, reader, history>>

PageFree(p) == mem_page - (p % mem_page)

TooBig(t) == writer[t].freeptr + writer[t].size > mem_size

\* The allocation fails: nothing is left, or something has gone wrong.
AllocateFails(t) ==
    LET page_free == PageFree(writer[t].freeptr) IN
    /\ writer[t].pc = "try"
    /\ \/ IsCorrupt /\ UNCHANGED flags
       \/ ~IsCorrupt /\ TooBig(t) /\ SetFlag("full")
       \/ /\ ~IsCorrupt /\ ~TooBig(t)
          /\ \/ writer[t].freeptr + kBlockHeader > mem_size
             \/ writer[t].size > page_free /\ page_free <= kBlockHeader
          /\ SetFlag("corrupt")
    /\ Goto(t, "failed")
    /\ UNCHANGED <<freeptr, tailptr, block, reference, iterator, reader, history>>

\* The block would cross a page boundary: the rest of the page is skipped.
\* As the exchange leaves the local freeptr alone when it succeeds, the next
\* round begins with one that fails.
SkipPage(t) ==
    LET page_free == PageFree(writer[t].freeptr) IN
    /\ writer[t].pc = "try"
    /\ ~IsCorrupt /\ ~TooBig(t)
    /\ writer[t].size > page_free
    /\ page_free > kBlockHeader
    /\ IF freeptr = writer[t].freeptr
       THEN freeptr' = freeptr + page_free /\ Goto(t, "waste")
       ELSE /\ writer' = [writer EXCEPT ![t].freeptr = freeptr]
            /\ UNCHANGED freeptr
    /\ UNCHANGED <<tailptr, flags, block, reference, iterator, reader, history>>

MarkWasted(t) ==
    LET r == writer[t].freeptr IN
    /\ writer[t].pc = "waste"
    /\ block' = [block EXCEPT ![r].size = PageFree(r), ![r].cookie = "wasted"]
    /\ Goto(t, "try")
    /\ UNCHANGED <<freeptr, tailptr, flags, reference, iterator, reader, history>>

\* Mutant: a slice too small for a header may be left at the end of a page.
Grown_LeavesSlice(size, page_free) == size

\* No slice too small for anything is left at the end of a page.
Grown(size, page_free) ==
    IF page_free - size < kBlockHeader + kAllocAlignment THEN page_free ELSE size

\* Mutant: the space is taken whether or not freeptr has moved.
ClaimSpace_IgnoresRace(t) ==
    LET size == Grown(writer[t].size, PageFree(writer[t].freeptr)) IN
    /\ writer[t].pc = "try"
    /\ ~IsCorrupt /\ ~TooBig(t)
    /\ writer[t].size <= PageFree(writer[t].freeptr)
    /\ freeptr' = writer[t].freeptr + size
    /\ writer' = [writer EXCEPT ![t].pc = "fill", ![t].size = size]
    /\ UNCHANGED <<tailptr, flags, block, reference, iterator, reader, history>>

\* The compare-exchange of freeptr that claims the space.  The size may have
\* grown, and keeps that value if the exchange fails.
ClaimSpace(t) ==
    LET size == Grown(writer[t].size, PageFree(writer[t].freeptr)) IN
    /\ writer[t].pc = "try"
    /\ ~IsCorrupt /\ ~TooBig(t)
    /\ writer[t].size <= PageFree(writer[t].freeptr)
    /\ IF freeptr = writer[t].freeptr
       THEN /\ freeptr' = freeptr + size
            /\ writer' = [writer EXCEPT ![t].pc = "fill", ![t].size = size]
       ELSE /\ writer' = [writer EXCEPT ![t].freeptr = freeptr, ![t].size = size]
            /\ UNCHANGED freeptr
    /\ UNCHANGED <<tailptr, flags, block, reference, iterator, reader, history>>

\* The header of the new block, which must be all zeros, is filled in.
FillHeader(t) ==
    LET r == writer[t].freeptr IN
    /\ writer[t].pc = "fill"
    /\ IF block[r] = FreeBlock
       THEN /\ block' = [block EXCEPT ![r].size = writer[t].size,
                                      ![r].cookie = "allocated", ![r].type = kType]
            /\ writer' = [writer EXCEPT ![t].ref = r,
                            ![t].pc = IF t \in Getters THEN "store" ELSE "mark"]
            /\ UNCHANGED flags
       ELSE /\ SetFlag("corrupt")
            /\ Goto(t, "failed")
            /\ UNCHANGED block
    /\ UNCHANGED <<freeptr, tailptr, reference, iterator, reader, history>>

------------------------------------------------------------------------------
(* MakeIterable                                                              *)

Returns(t) == Goto(t, "done")

\* The checks, and the store that makes the block the end of a list.
MarkAsTail(t) ==
    LET r == writer[t].ref IN
    /\ writer[t].pc = "mark"
    /\ IF IsCorrupt \/ ~IsAllocated(r) \/ block[r].next # Null
       THEN Returns(t) /\ UNCHANGED block
       ELSE /\ block' = [block EXCEPT ![r].next = kReferenceQueue]
            /\ Goto(t, "load_tail")
    /\ UNCHANGED <<freeptr, tailptr, flags, reference, iterator, reader, history>>

LoadTail(t) ==
    /\ writer[t].pc = "load_tail"
    /\ writer' = [writer EXCEPT ![t].pc = "link", ![t].tail = tailptr]
    /\ UNCHANGED <<segment, iterator, reader, history>>

\* Mutant: the block is linked to the tail whatever follows that already.
Link_IgnoresRace(t) ==
    LET tail == writer[t].tail IN
    /\ writer[t].pc = "link"
    /\ block' = [block EXCEPT ![tail].next = writer[t].ref]
    /\ log' = Append(log, writer[t].ref)
    /\ Goto(t, "swing")
    /\ UNCHANGED <<freeptr, tailptr, flags, reference, iterator, reader, handed>>

\* Mutant: a weak exchange, which may fail although the tail is the last node.
Link_WeakExchange(t) ==
    LET tail == writer[t].tail IN
    /\ writer[t].pc = "link"
    /\ \/ /\ block[tail].next = kReferenceQueue
          /\ block' = [block EXCEPT ![tail].next = writer[t].ref]
          /\ log' = Append(log, writer[t].ref)
          /\ Goto(t, "swing")
       \/ /\ writer' = [writer EXCEPT ![t].pc = "help",
                                       ![t].next = block[tail].next]
          /\ UNCHANGED <<block, log>>
    /\ UNCHANGED <<freeptr, tailptr, flags, reference, iterator, reader, handed>>

\* The compare-exchange that links the block behind the tail.
Link(t) ==
    LET tail == writer[t].tail IN
    /\ writer[t].pc = "link"
    /\ IF ~IsInQueue(tail)
       THEN SetFlag("corrupt") /\ Returns(t) /\ UNCHANGED <<block, log>>
       ELSE IF block[tail].next = kReferenceQueue
       THEN /\ block' = [block EXCEPT ![tail].next = writer[t].ref]
            /\ log' = Append(log, writer[t].ref)
            /\ Goto(t, "swing")
            /\ UNCHANGED flags
       ELSE /\ writer' = [writer EXCEPT ![t].pc = "help",
                                        ![t].next = block[tail].next]
            /\ UNCHANGED <<flags, block, log>>
    /\ UNCHANGED <<freeptr, tailptr, reference, iterator, reader, handed>>

\* The tail pointer moves on to the new block, unless someone has helped.
SwingTail(t) ==
    /\ writer[t].pc = "swing"
    /\ tailptr' = IF tailptr = writer[t].tail THEN writer[t].ref ELSE tailptr
    /\ Returns(t)
    /\ UNCHANGED <<freeptr, flags, block, reference, iterator, reader, history>>

\* Mutant: the tail is loaded again, but nobody moves it on.
HelpTail_OnlyReloads(t) ==
    /\ writer[t].pc = "help"
    /\ writer' = [writer EXCEPT ![t].pc = "link", ![t].tail = tailptr,
                                ![t].next = Null]
    /\ UNCHANGED <<segment, iterator, reader, history>>

\* Another writer has linked a block and not moved the tail pointer yet; it may
\* have been killed.  A failed exchange loads the tail.
HelpTail(t) ==
    /\ writer[t].pc = "help"
    /\ tailptr' = IF tailptr = writer[t].tail THEN writer[t].next ELSE tailptr
    /\ writer' = [writer EXCEPT ![t].pc = "link", ![t].tail = tailptr,
                                ![t].next = Null]
    /\ UNCHANGED <<freeptr, flags, block, reference, iterator, reader, history>>

------------------------------------------------------------------------------
(* DelayedPersistentAllocation::Get                                          *)

GetLoads(t) ==
    /\ writer[t].pc = "get"
    /\ writer' = IF reference = Null
                 THEN [writer EXCEPT ![t].pc = "allocate"]
                 ELSE [writer EXCEPT ![t].pc = "done", ![t].ref = reference]
    /\ UNCHANGED <<segment, iterator, reader, history>>

\* Mutant: the last writer to store its reference wins.
GetStores_Overwrites(t) ==
    /\ writer[t].pc = "store"
    /\ reference' = writer[t].ref
    /\ Goto(t, "mark")
    /\ UNCHANGED <<freeptr, tailptr, flags, block, iterator, reader, history>>

\* The compare-exchange of the reference: the first one to store it makes the
\* block iterable, any other purges its own.
GetStores(t) ==
    /\ writer[t].pc = "store"
    /\ IF reference = Null
       THEN reference' = writer[t].ref /\ Goto(t, "mark")
       ELSE Goto(t, "purge") /\ UNCHANGED reference
    /\ UNCHANGED <<freeptr, tailptr, flags, block, iterator, reader, history>>

\* ChangeType(ref, 0, type_, false), and the other block is returned.
GetPurges(t) ==
    LET r == writer[t].ref IN
    /\ writer[t].pc = "purge"
    /\ block' = IF IsAllocated(r) /\ block[r].type = kType
                THEN [block EXCEPT ![r].type = 0] ELSE block
    /\ writer' = [writer EXCEPT ![t].pc = "done", ![t].ref = reference]
    /\ UNCHANGED <<freeptr, tailptr, flags, reference, iterator, reader, history>>

\* The process is killed.
Dies(t) ==
    /\ t \in Mortal
    /\ writer[t].pc \notin Finished
    /\ Goto(t, "dead")
    /\ UNCHANGED <<segment, iterator, reader, history>>

------------------------------------------------------------------------------
(* Iterator::GetNext                                                         *)

\* The number of blocks whose MakeIterable has returned.
NumIterable ==
    Max({0} \cup {i \in DOMAIN log :
                    \E t \in Writers : writer[t].pc = "done" /\ writer[t].ref = log[i]})

LoadCount(t) ==
    /\ reader[t].pc = "idle"
    /\ reader' = [reader EXCEPT ![t].pc = "count", ![t].count = record_count,
                                ![t].due = NumIterable]
    /\ UNCHANGED <<segment, writer, iterator, history>>

LoadLast(t) ==
    /\ reader[t].pc = "count"
    /\ reader' = [reader EXCEPT ![t].pc = "next", ![t].last = last_record]
    /\ UNCHANGED <<segment, writer, iterator, history>>

\* The block after "last" is loaded and checked.
LoadNext(t) ==
    LET last == reader[t].last
        next == block[last].next
    IN
    /\ reader[t].pc = "next"
    /\ \/ /\ ~IsInQueue(last)
          /\ reader' = [reader EXCEPT ![t] = IdleReader]
          /\ UNCHANGED flags
       \/ /\ IsInQueue(last) /\ next = kReferenceQueue
          /\ reader' = [reader EXCEPT ![t].pc = "end"]
          /\ UNCHANGED flags
       \/ /\ IsInQueue(last) /\ next # kReferenceQueue /\ ~IsAllocated(next)
          /\ SetFlag("corrupt")
          /\ reader' = [reader EXCEPT ![t] = IdleReader]
       \/ /\ IsInQueue(last) /\ next # kReferenceQueue /\ IsAllocated(next)
          /\ reader' = [reader EXCEPT ![t].pc = "advance", ![t].next = next]
          /\ UNCHANGED flags
    /\ UNCHANGED <<freeptr, tailptr, block, reference, writer, iterator, history>>

\* GetNext returns kReferenceNull, there being nothing more.
ReturnsNull(t) ==
    /\ reader[t].pc = "end"
    /\ reader' = [reader EXCEPT ![t] = IdleReader]
    /\ UNCHANGED <<segment, writer, iterator, history>>

\* Mutant: the iterator moves on even if another thread has moved it.
Advance_IgnoresRace(t) ==
    /\ reader[t].pc = "advance"
    /\ last_record' = reader[t].next
    /\ handed' = handed + 1
    /\ reader' = [reader EXCEPT ![t].pc = "check", ![t].last = Null]
    /\ UNCHANGED <<segment, writer, record_count, log>>

\* The compare-exchange of last_record_; when it fails the loop goes on from the
\* block that another thread has reached.
Advance(t) ==
    /\ reader[t].pc = "advance"
    /\ IF last_record = reader[t].last
       THEN /\ last_record' = reader[t].next
            /\ handed' = handed + 1
            /\ reader' = [reader EXCEPT ![t].pc = "check", ![t].last = Null]
       ELSE /\ reader' = [reader EXCEPT ![t].pc = "next", ![t].last = last_record,
                                        ![t].next = Null]
            /\ UNCHANGED <<last_record, handed>>
    /\ UNCHANGED <<segment, writer, record_count, log>>

\* How many blocks could have been allocated.
MaxRecords == freeptr \div (kBlockHeader + kAllocAlignment)

\* The check for a loop; then the record is counted and returned.
CheckCount(t) ==
    /\ reader[t].pc = "check"
    /\ IF reader[t].count > MaxRecords
       THEN SetFlag("corrupt") /\ UNCHANGED record_count
       ELSE record_count' = record_count + 1 /\ UNCHANGED flags
    /\ reader' = [reader EXCEPT ![t] = IdleReader]
    /\ UNCHANGED <<freeptr, tailptr, block, reference, writer, last_record, history>>

------------------------------------------------------------------------------

WriterStep(t) ==
    \/ LoadFreeptr(t) \/ AllocateFails(t) \/ SkipPage(t) \/ MarkWasted(t)
    \/ ClaimSpace(t) \/ FillHeader(t)
    \/ MarkAsTail(t) \/ LoadTail(t) \/ Link(t) \/ SwingTail(t) \/ HelpTail(t)
    \/ GetLoads(t) \/ GetStores(t) \/ GetPurges(t)

ReaderStep(t) ==
    \/ LoadCount(t) \/ LoadLast(t) \/ LoadNext(t) \/ ReturnsNull(t)
    \/ Advance(t) \/ CheckCount(t)

Next ==
    \/ \E t \in Writers : WriterStep(t) \/ Dies(t)
    \/ \E t \in Readers : ReaderStep(t)

\* Threads that are not killed run.
Fairness ==
    /\ \A t \in Writers : WF_vars(WriterStep(t))
    /\ \A t \in Readers : WF_vars(ReaderStep(t))

Spec == Init /\ [][Next]_vars /\ Fairness

------------------------------------------------------------------------------

WriterRecord ==
    [pc : {"out", "get", "allocate", "try", "waste", "fill", "store", "purge", "mark",
           "load_tail", "link", "swing", "help", "done", "failed", "dead"},
     size : Nat, freeptr : Nat, ref : Refs \cup {Null},
     tail : Refs \cup {kReferenceQueue, Null}, next : Refs \cup {Null}]

ReaderRecord ==
    [pc : {"out", "idle", "count", "next", "end", "advance", "check"}, count : Nat,
     last : Refs \cup {kReferenceQueue, Null}, next : Refs \cup {Null}, due : Nat]

BlockHeader ==
    [size : Nat, cookie : {"free", "queue", "wasted", "allocated"},
     type : {0, kType}, next : Refs \cup {kReferenceQueue, Null}]

TypeOK ==
    /\ freeptr \in Nat
    /\ tailptr \in Refs \cup {kReferenceQueue}
    /\ flags \subseteq {"corrupt", "full"}
    /\ block \in [Refs \cup {kReferenceQueue} -> BlockHeader]
    /\ reference \in Refs \cup {Null}
    /\ writer \in [Writers -> WriterRecord]
    /\ last_record \in Refs \cup {kReferenceQueue}
    /\ record_count \in Nat
    /\ reader \in [Readers -> ReaderRecord]
    /\ log \in Seq(Refs)
    /\ handed \in Nat

\* Whatever the order of the writers' and readers' steps, and whoever is killed,
\* nothing is taken for corruption: not a block that another process claimed
\* first, nor a header that was never filled in, nor (GetNext's check) more
\* records than could have been allocated.
NeverCorrupt == ~IsCorrupt

\* Allocated and wasted blocks lie below freeptr, within the segment and within
\* a page each (AllocateImpl: "An allocation cannot cross page boundaries"), do
\* not overlap, and hold what was asked for.
BlocksDisjoint ==
    LET used == {r \in Refs : block[r].cookie # "free"} IN
    /\ freeptr <= mem_size
    /\ \A r \in used :
        /\ r + block[r].size <= freeptr
        /\ r \div mem_page = (r + block[r].size - 1) \div mem_page
        /\ \A s \in used : r < s => r + block[r].size <= s
    /\ \A t \in Writers :
        writer[t].pc \in {"store", "mark"} => block[writer[t].ref].size >= AllocSize(t)

\* The i-th node of the iteration queue, the queue's own header being the 0-th.
Node(i) == IF i = 0 THEN kReferenceQueue ELSE log[i]

\* The list that starts at the queue's header holds the iterable blocks in the
\* order in which they were linked, each once and each allocated, and ends with
\* kReferenceQueue; the tail pointer is at most one block behind its end, so
\* that one HelpTail makes up for a writer killed before SwingTail; last_record_
\* is as far down the list as blocks have been handed out.
QueueIsLog ==
    /\ IsInjective(log)
    /\ \A i \in DOMAIN log : IsAllocated(log[i])
    /\ \A i \in 0 .. Len(log) :
        block[Node(i)].next = IF i = Len(log) THEN kReferenceQueue ELSE Node(i + 1)
    /\ \E i \in {Len(log), Len(log) - 1} : i >= 0 /\ tailptr = Node(i)
    /\ handed <= Len(log)
    /\ last_record = Node(handed)

\* GetNext finds no more records only when the iterator is past every block
\* whose MakeIterable had returned when GetNext was called, by whichever thread.
NothingMissed ==
    \A t \in Readers : reader[t].pc = "end" => reader[t].due <= handed

\* The queue and the iterator do what IterableLog promises: blocks are only
\* appended, each once, and the threads that share an iterator get each block
\* once, in that order ("the same reference will not be returned twice").
Log == INSTANCE IterableLog WITH Record <- Refs
IteratesInOrder == Log!Spec

\* All users of a DelayedPersistentAllocation "are guaranteed to always use the
\* same space" (persistent_memory_allocator.h:776): every Get() that returned a
\* block returned the stored one, which has its type; a block purged by a thread
\* that lost the race is not iterable.
SameSpace ==
    /\ \A t \in Getters : writer[t].pc = "done" =>
        /\ writer[t].ref = reference
        /\ reference # Null /\ IsAllocated(reference)
        /\ block[reference].type = kType
        /\ block[reference].size >= AllocSize(t)
    /\ \A i \in DOMAIN log : block[log[i]].type = kType

\* MakeIterable and Allocate return, although others may be killed at any step:
\* no writer waits for another one.
WritersFinish == <>[](\A t \in Writers : writer[t].pc \in Finished)
==============================================================================
