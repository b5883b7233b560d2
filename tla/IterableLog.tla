----------------------------- MODULE IterableLog -----------------------------
(***************************************************************************)
(* What the iteration queue of a PersistentMemoryAllocator promises:       *)
(* records are only ever added at the end, each one once, and an iterator  *)
(* hands them out in that order, each one once (the comment on             *)
(* PersistentMemoryAllocator::Iterator, persistent_memory_allocator.h).    *)
(***************************************************************************)
EXTENDS Naturals, Sequences

CONSTANT Record

VARIABLES
    log,     \* the iterable records, oldest first
    handed   \* how many of them the iterator has handed out

Init == log = <<>> /\ handed = 0

MakeIterable(r) ==
    /\ \A i \in DOMAIN log : log[i] # r
    /\ log' = Append(log, r)
    /\ UNCHANGED handed

GetNext ==
    /\ handed < Len(log)
    /\ handed' = handed + 1
    /\ UNCHANGED log

Next == (\E r \in Record : MakeIterable(r)) \/ GetNext

Spec == Init /\ [][Next]_<<log, handed>>
==============================================================================
