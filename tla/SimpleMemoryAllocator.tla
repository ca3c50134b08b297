------------------------- MODULE SimpleMemoryAllocator -------------------------
(***************************************************************************)
(* SimpleMemoryAllocator of the micro runtime                              *)
(* (micro/simple_memory_allocator.{h,cc}): one buffer, with a head section *)
(* of one size at its start, persistent blocks growing down from its end   *)
(* and a chain of temporary blocks between them.  A call that fails leaves *)
(* everything as it is.                                                    *)
(***************************************************************************)
EXTENDS Integers, FiniteSets

CONSTANTS
    BufferHead, BufferTail,  \* buffer_head_ and buffer_tail_, as addresses
    Alignments,              \* the alignments that callers ask for
    Modulus,                 \* 2^w for addresses and a size_t of w bits
    MaxTemps                 \* bound: temporary blocks of a chain

(* MicroAllocator::Create aligns the buffer.                               *)
ASSUME AllocatorAssumption ==
    /\ BufferHead \in Nat /\ BufferTail \in Nat /\ Modulus \in Nat
    /\ BufferHead <= BufferTail /\ BufferTail < Modulus
    /\ Alignments \subseteq Nat \ {0}
    /\ \A a \in Alignments : BufferHead % a = 0

VARIABLES
    head, tail, temp,  \* head_, tail_ and temp_
    persistent,        \* the blocks that AllocateFromTail has returned
    temps              \* the temporary blocks that may still be used

arena == <<head, tail, temp, persistent, temps>>

Block(at, size) == [start |-> at, end |-> at + size]

AllocatorInit ==
    /\ head = BufferHead /\ temp = BufferHead /\ tail = BufferTail
    /\ persistent = {} /\ temps = {}

AlignPointerUp(p, a)   == ((p + (a - 1)) \div a) * a
AlignPointerDown(p, a) == (p \div a) * a

(* tail_ - p as a size_t.                                                  *)
Available(p) == (tail - p) % Modulus

(* GetAvailableMemory.                                                     *)
GetAvailableMemory(a) == (AlignPointerDown(tail, a) - AlignPointerUp(temp, a)) % Modulus

-----------------------------------------------------------------------------
(* Mutant of HeadFits: the size of the buffer counts, not what is left.    *)
HeadFitsBuffer(size, a) ==
    /\ temp = head
    /\ BufferTail - AlignPointerUp(BufferHead, a) >= size

HeadFits(size, a) ==
    /\ temp = head
    /\ Available(AlignPointerUp(BufferHead, a)) >= size

SetHeadBufferSize(size, a) ==
    /\ HeadFits(size, a)
    /\ head' = AlignPointerUp(BufferHead, a) + size
    /\ temp' = head'
    /\ temps' = {}
    /\ UNCHANGED <<tail, persistent>>

(* Mutant of TailFits: the tail is not compared with the head.             *)
TailFitsAlways(size, a) == TRUE

TailFits(size, a) == AlignPointerDown(tail - size, a) >= head

(* The new block may reach into temporary ones: only head_ is looked at.   *)
AllocateFromTail(size, a) ==
    /\ TailFits(size, a)
    /\ tail' = AlignPointerDown(tail - size, a)
    /\ persistent' = persistent \cup {Block(tail', size)}
    /\ UNCHANGED <<head, temp, temps>>

TempFits(size, a) == Available(AlignPointerUp(temp, a)) >= size

AllocateTemp(size, a) ==
    LET at == AlignPointerUp(temp, a)
    IN  /\ TempFits(size, a)
        /\ Cardinality(temps) < MaxTemps
        /\ temp' = (at + size) % Modulus
        /\ temps' = temps \cup {Block(at, size)}
        /\ UNCHANGED <<head, tail, persistent>>

ResetTempAllocations ==
    /\ temp' = head /\ temps' = {}
    /\ UNCHANGED <<head, tail, persistent>>

(* Sizes, and those for which tail_ - size cannot wrap around below the    *)
(* address 0, where the comparison with head_ would take it for large.     *)
Sizes     == 0 .. (Modulus - 1)
TailSizes == 0 .. BufferHead

AllocatorNext ==
    \/ \E size \in Sizes, a \in Alignments : SetHeadBufferSize(size, a) \/ AllocateTemp(size, a)
    \/ \E size \in TailSizes, a \in Alignments : AllocateFromTail(size, a)
    \/ ResetTempAllocations

AllocatorSpec == AllocatorInit /\ [][AllocatorNext]_arena

-----------------------------------------------------------------------------
BlockType == [start : Nat, end : Nat]

(* Type invariant: head and tail stay in the buffer.                       *)
AllocatorTypeOK ==
    /\ {head, tail} \subseteq BufferHead .. BufferTail /\ temp \in Nat
    /\ persistent \subseteq BlockType /\ temps \subseteq BlockType

Apart(p, q) == p.end <= q.start \/ q.end <= p.start

(* "head (non-persistent) and tail (persistent) regions" (micro_allocator. *)
(* h): whatever is asked for in whatever order, the head section and the   *)
(* persistent blocks are inside the buffer and share no byte.              *)
SectionsApart ==
    /\ BufferHead <= head /\ head <= tail
    /\ \A p \in persistent : tail <= p.start /\ p.start <= p.end /\ p.end <= BufferTail
    /\ \A p, q \in persistent : p # q => Apart(p, q)

(* "Repeat calls to this function will create a chain of temp allocations" *)
(* (simple_memory_allocator.h): temporary blocks share no byte with each   *)
(* other or with the head section, until a request has wrapped around the  *)
(* address space.                                                          *)
TempsChained ==
    (\A t \in temps : t.end < Modulus) =>
        /\ head <= temp
        /\ \A t \in temps : head <= t.start /\ t.start <= t.end /\ t.end <= temp
        /\ \A t, u \in temps : t # u => Apart(t, u)
=============================================================================
