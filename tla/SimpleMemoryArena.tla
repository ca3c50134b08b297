-------------------------- MODULE SimpleMemoryArena --------------------------
(***************************************************************************)
(* tflite::SimpleMemoryArena (tensorflow/lite/simple_memory_arena.{h,cc}): *)
(* the buffer that the tensors of a graph share.  Allocate plans a place   *)
(* for a tensor that is used by the nodes first_node .. last_node, Commit  *)
(* provides a buffer that is large enough for the plan, and ResolveAlloc   *)
(* turns a planned place into a pointer.                                   *)
(*                                                                         *)
(* The loops of Allocate and Deallocate take one step per iteration; pc    *)
(* says which of them is running, and no other call starts meanwhile (the  *)
(* class has no concurrency of its own).                                   *)
(*                                                                         *)
(* The caller is part of the module as far as the arena depends on it: it  *)
(* keeps the record that Allocate filled in for each tensor (allocs), the  *)
(* pointer that ResolveAlloc returned (ptr), and kernels write through     *)
(* those pointers (Write).                                                 *)
(***************************************************************************)
EXTENDS ArenaOps, FiniteSets, SequencesExt

CONSTANTS
    Tensors,         \* the tensors that are given memory
    ArenaAlignment,  \* arena_alignment_
    Alignments,      \* the alignments that callers ask for
    Sizes,           \* the sizes that callers ask for
    Nodes,           \* the positions in the execution plan
    MaxAllocs        \* bound: the length of ordered_allocs

ASSUME ArenaAssumption ==
    /\ ArenaAlignment \in Nat \ {0}
    /\ Alignments \subseteq Nat \ {0}
    /\ Sizes \subseteq Nat
    /\ Nodes \subseteq Int
    /\ MaxAllocs \in Nat

VARIABLES
    committed,               \* committed_
    high_water_mark,         \* high_water_mark_
    underlying_buffer_size,  \* underlying_buffer_size_
    slack,                   \* underlying_buffer_aligned_ptr_ - underlying_buffer_
    ordered_allocs,          \* ordered_allocs_
    memory,                  \* the bytes from the aligned pointer to the end
    pc, req, it, scan,       \* the running call and its local variables
    allocs,                  \* caller: the record of each tensor
    ptr,                     \* caller: the pointer of each tensor
    stale,                   \* caller: Allocate was called after Commit
    written                  \* caller: the tensors whose value must be intact

planVars   == <<ordered_allocs, high_water_mark>>
bufferVars == <<committed, underlying_buffer_size, slack, memory>>
loopVars   == <<pc, req, it, scan>>
callerVars == <<allocs, ptr, stale, written>>
vars       == <<planVars, bufferVars, loopVars, callerVars>>

-----------------------------------------------------------------------------
NoTensor == "no tensor"
Junk     == "junk"        \* a byte nobody wrote since the buffer was created
Null     == -1            \* a null pointer, or one into a freed buffer

Request == [tensor : Tensors \cup {NoTensor}, size : Nat, alignment : Nat \ {0},
            first_node : Int, last_node : Int]
Alloc   == [tensor : Tensors \cup {NoTensor}, offset : Nat, size : Nat,
            first_node : Int, last_node : Int]

Scan    == [current_offset : Nat, best_offset : Nat \cup {NotAssigned},
            best_offset_fit : Nat \cup {NotAssigned}]

(* ArenaAllocWithUsageInterval::reset                                      *)
ResetAlloc == [tensor |-> NoTensor, offset |-> 0, size |-> 0,
               first_node |-> -1, last_node |-> -1]
NoRequest  == [tensor |-> NoTensor, size |-> 0, alignment |-> 1,
               first_node |-> -1, last_node |-> -1]

(* The allocation made for request r at offset o.                          *)
Placed(r, o) == [tensor |-> r.tensor, offset |-> o, size |-> r.size,
                 first_node |-> r.first_node, last_node |-> r.last_node]

Bytes(a) == a.offset .. End(a) - 1

Init ==
    /\ committed = FALSE
    /\ high_water_mark = 0
    /\ underlying_buffer_size = 0
    /\ slack = 0
    /\ ordered_allocs = <<>>
    /\ memory = <<>>
    /\ pc = "idle" /\ req = NoRequest /\ it = 1 /\ scan = ScanStart
    /\ allocs = [t \in Tensors |-> ResetAlloc]
    /\ ptr = [t \in Tensors |-> Null]
    /\ stale = FALSE
    /\ written = {}

-----------------------------------------------------------------------------
(* Allocate.  An alignment above that of the arena is refused: the call    *)
(* returns before it changes anything and is a stutter.                    *)

(* A zero-sized allocation is recorded by the caller and not in the plan.  *)
AllocateEmpty(r) ==
    /\ pc = "idle"
    /\ r.alignment <= ArenaAlignment
    /\ r.size = 0
    /\ allocs' = [allocs EXCEPT ![r.tensor] = Placed(r, 0)]
    /\ ptr' = [ptr EXCEPT ![r.tensor] = Null]
    /\ written' = written \ {r.tensor}
    /\ UNCHANGED <<planVars, bufferVars, loopVars, stale>>

AllocateStart(r) ==
    /\ pc = "idle"
    /\ r.alignment <= ArenaAlignment
    /\ r.size > 0
    /\ Len(ordered_allocs) < MaxAllocs
    /\ pc' = "scan"
    /\ req' = r
    /\ it' = 1
    /\ scan' = ScanStart
    /\ UNCHANGED <<planVars, bufferVars, callerVars>>

AllocateScan ==
    /\ pc = "scan"
    /\ it <= Len(ordered_allocs)
    /\ scan' = ScanStep(scan, ordered_allocs[it], req)
    /\ it' = it + 1
    /\ UNCHANGED <<planVars, bufferVars, callerVars, pc, req>>

(* After the loop: the offset, the high-water mark and the insertion.      *)
AllocateFinish ==
    /\ pc = "scan"
    /\ it = Len(ordered_allocs) + 1
    /\ LET offset == ScanResult(scan, req)
           new    == Placed(req, offset)
       IN  /\ high_water_mark' = IF high_water_mark < End(new)
                                 THEN End(new) ELSE high_water_mark
           /\ \E k \in 1 .. Len(ordered_allocs) + 1 :
                 /\ InsertionPoint(ordered_allocs, offset, k)
                 /\ ordered_allocs' = InsertAt(ordered_allocs, k, new)
           /\ allocs' = [allocs EXCEPT ![req.tensor] = new]
    /\ ptr' = [ptr EXCEPT ![req.tensor] = Null]
    /\ stale' = TRUE
    /\ written' = written \ {req.tensor}
    /\ pc' = "idle" /\ req' = NoRequest /\ it' = 1 /\ scan' = ScanStart
    /\ UNCHANGED bufferVars

-----------------------------------------------------------------------------
(* Deallocate.  Every entry of the tensor is erased; a call for an empty   *)
(* allocation returns at once.  The caller forgets the tensor's value.     *)
(* The check of the number of erased entries comes after the loop and only *)
(* decides the status that is returned.                                    *)

DeallocateStart(t) ==
    /\ pc = "idle"
    /\ allocs[t].size # 0
    /\ pc' = "erase"
    /\ req' = [NoRequest EXCEPT !.tensor = t]
    /\ it' = 1
    /\ UNCHANGED <<planVars, bufferVars, callerVars, scan>>

(* Mutant of DeallocateErase: the iterator moves on after an erasure.      *)
DeallocateEraseSkips ==
    /\ pc = "erase"
    /\ it <= Len(ordered_allocs)
    /\ ordered_allocs' = IF ordered_allocs[it].tensor = req.tensor
                         THEN RemoveAt(ordered_allocs, it) ELSE ordered_allocs
    /\ it' = it + 1
    /\ UNCHANGED <<bufferVars, callerVars, high_water_mark, pc, req, scan>>

DeallocateErase ==
    /\ pc = "erase"
    /\ it <= Len(ordered_allocs)
    /\ IF ordered_allocs[it].tensor = req.tensor
       THEN /\ ordered_allocs' = RemoveAt(ordered_allocs, it)
            /\ it' = it
       ELSE /\ ordered_allocs' = ordered_allocs
            /\ it' = it + 1
    /\ UNCHANGED <<bufferVars, callerVars, high_water_mark, pc, req, scan>>

DeallocateFinish ==
    /\ pc = "erase"
    /\ it = Len(ordered_allocs) + 1
    /\ allocs' = [allocs EXCEPT ![req.tensor] = ResetAlloc]
    /\ ptr' = [ptr EXCEPT ![req.tensor] = Null]
    /\ written' = written \ {req.tensor}
    /\ pc' = "idle" /\ req' = NoRequest /\ it' = 1
    /\ UNCHANGED <<planVars, bufferVars, scan, stale>>

-----------------------------------------------------------------------------
(* Mutant of RequiredBufferSize: no room for aligning the buffer.          *)
RequiredBufferSizeBare == high_water_mark

(* RequiredBufferSize: the alignment, the plan and one alignment more.     *)
RequiredBufferSize == ArenaAlignment + high_water_mark + ArenaAlignment

(* Mutant of CopyAmount: the old memory is not copied over.                *)
CopyAmountNone(size, gap) == 0

(* The number of bytes that Commit copies into a new buffer of size bytes  *)
(* whose aligned pointer lies gap bytes from its start.                    *)
CopyAmount(size, gap) ==
    LET old == underlying_buffer_size - slack
        new == size - gap
    IN  IF high_water_mark > 0 /\ underlying_buffer_size > 0
        THEN IF old < new THEN old ELSE new
        ELSE 0

(* The bytes of the new buffer after the copy.                             *)
Copied(size, gap) ==
    [b \in 0 .. size - gap - 1 |->
        IF b < CopyAmount(size, gap) THEN memory[b] ELSE Junk]

(* Commit when the buffer is too small: operator new returns any address.  *)
CommitGrow ==
    /\ pc = "idle"
    /\ RequiredBufferSize > underlying_buffer_size
    /\ \E gap \in 0 .. ArenaAlignment - 1 :
          /\ memory' = Copied(RequiredBufferSize, gap)
          /\ slack' = gap
    /\ underlying_buffer_size' = RequiredBufferSize
    /\ committed' = TRUE
    /\ ptr' = [t \in Tensors |-> Null]
    /\ stale' = FALSE
    /\ UNCHANGED <<planVars, loopVars, allocs, written>>

(* Commit when the buffer is large enough.                                 *)
CommitKeep ==
    /\ pc = "idle"
    /\ RequiredBufferSize <= underlying_buffer_size
    /\ committed' = TRUE
    /\ stale' = FALSE
    /\ UNCHANGED <<planVars, underlying_buffer_size, slack, memory, loopVars,
                   allocs, ptr, written>>

(* ResolveAlloc.  Callers commit a changed plan first: stale says that     *)
(* they have not done so yet.                                              *)
ResolveAlloc(t) ==
    /\ pc = "idle"
    /\ ~stale
    /\ committed
    /\ underlying_buffer_size >= End(allocs[t])
    /\ ptr' = [ptr EXCEPT ![t] = IF allocs[t].size = 0 THEN Null
                                 ELSE allocs[t].offset]
    /\ UNCHANGED <<planVars, bufferVars, loopVars, allocs, stale, written>>

(* ClearPlan keeps the buffer.  The caller's records are void from here on *)
(* (ArenaPlanner::ResetAllocations clears them).                           *)
ClearPlan ==
    /\ pc = "idle"
    /\ committed' = FALSE
    /\ high_water_mark' = 0
    /\ ordered_allocs' = <<>>
    /\ allocs' = [t \in Tensors |-> ResetAlloc]
    /\ ptr' = [t \in Tensors |-> Null]
    /\ written' = {}
    /\ UNCHANGED <<underlying_buffer_size, slack, memory, loopVars, stale>>

(* ReleaseBuffer keeps the plan.                                           *)
ReleaseBuffer ==
    /\ pc = "idle"
    /\ committed' = FALSE
    /\ underlying_buffer_size' = 0
    /\ slack' = 0
    /\ memory' = <<>>
    /\ ptr' = [t \in Tensors |-> Null]
    /\ written' = {}
    /\ UNCHANGED <<planVars, loopVars, allocs, stale>>

(* A kernel writes tensor t through its pointer.  The tensors that are not *)
(* in use at the same time as t may lose their value, the others must not. *)
Write(t) ==
    /\ pc = "idle"
    /\ ptr[t] # Null
    /\ memory' = [b \in DOMAIN memory |->
                    IF b \in ptr[t] .. ptr[t] + allocs[t].size - 1
                    THEN t ELSE memory[b]]
    /\ written' = {u \in written : ~Apart(allocs[u], allocs[t])} \cup {t}
    /\ UNCHANGED <<planVars, committed, underlying_buffer_size, slack, loopVars,
                   allocs, ptr, stale>>

-----------------------------------------------------------------------------
Requests == [tensor : Tensors, size : Sizes, alignment : Alignments,
             first_node : Nodes, last_node : Nodes]

PlanNext ==
    \/ \E r \in Requests :
          /\ r.first_node <= r.last_node
          /\ AllocateEmpty(r) \/ AllocateStart(r)
    \/ AllocateScan
    \/ AllocateFinish
    \/ \E t \in Tensors : DeallocateStart(t)
    \/ DeallocateErase
    \/ DeallocateFinish
    \/ ClearPlan

Next ==
    \/ PlanNext
    \/ \E t \in Tensors : ResolveAlloc(t) \/ Write(t)
    \/ CommitGrow
    \/ CommitKeep
    \/ ReleaseBuffer

Spec == Init /\ [][Next]_vars

-----------------------------------------------------------------------------
(* Type invariant of the arena, of the running call and of the caller.     *)
TypeOK ==
    /\ committed \in BOOLEAN
    /\ high_water_mark \in Nat
    /\ underlying_buffer_size \in Nat
    /\ slack \in 0 .. ArenaAlignment - 1
    /\ ordered_allocs \in Seq(Alloc)
    /\ DOMAIN memory = 0 .. underlying_buffer_size - slack - 1
    /\ pc \in {"idle", "scan", "erase"}
    /\ req \in Request
    /\ it \in 1 .. Len(ordered_allocs) + 1
    /\ pc = "idle" => it = 1
    /\ scan \in Scan
    /\ allocs \in [Tensors -> Alloc]
    /\ ptr \in [Tensors -> Nat \cup {Null}]
    /\ stale \in BOOLEAN
    /\ written \subseteq Tensors

(* The gaps that Allocate looks at are gaps: ordered_allocs stays sorted   *)
(* by offset through every insertion and erasure.                          *)
SortedByOffset ==
    \A i, j \in 1 .. Len(ordered_allocs) :
        i < j => ordered_allocs[i].offset <= ordered_allocs[j].offset

(* Two planned tensors that are in use at the same node never share a      *)
(* byte, whatever sequence of Allocate and Deallocate led here.            *)
NoOverlap ==
    \A i, j \in 1 .. Len(ordered_allocs) :
        i # j => \/ Apart(ordered_allocs[i], ordered_allocs[j])
                 \/ End(ordered_allocs[i]) <= ordered_allocs[j].offset
                 \/ End(ordered_allocs[j]) <= ordered_allocs[i].offset

(* A pointer that ResolveAlloc returned reaches only bytes of the buffer,  *)
(* although ResolveAlloc compares with the size of the whole buffer and    *)
(* not with what is left of it behind the aligned pointer.                 *)
ResolvedInsideBuffer ==
    \A t \in Tensors :
        ptr[t] # Null => ptr[t] + allocs[t].size <= underlying_buffer_size - slack

(* A tensor's value is intact for as long as the tensor stays planned:     *)
(* neither a write to a tensor in use at the same time nor the move to a   *)
(* larger buffer in Commit changes a byte of it.                           *)
ContentsIntact ==
    \A t \in written : \A b \in Bytes(allocs[t]) :
        b \in DOMAIN memory /\ memory[b] = t

-----------------------------------------------------------------------------
(* The parts of the inductive invariant behind the properties above.       *)

(* While Allocate scans: what it has passed ends at or before              *)
(* current_offset, and the best gap so far is free of what it has passed   *)
(* and ends before whatever it has not reached.                            *)
ScanInv ==
    pc = "scan" =>
        /\ req.tensor \in Tensors /\ req.size > 0
        /\ \A j \in 1 .. it - 1 :
              ~Apart(ordered_allocs[j], req) =>
                 /\ End(ordered_allocs[j]) <= scan.current_offset
                 /\ scan.best_offset # NotAssigned =>
                       \/ End(ordered_allocs[j]) <= scan.best_offset
                       \/ scan.best_offset + req.size <= ordered_allocs[j].offset
        /\ scan.best_offset # NotAssigned =>
              \A j \in it .. Len(ordered_allocs) :
                 scan.best_offset + req.size <= ordered_allocs[j].offset

(* The high-water mark covers the plan, and a committed plan has a buffer. *)
RoomInv ==
    /\ \A i \in 1 .. Len(ordered_allocs) :
          End(ordered_allocs[i]) <= high_water_mark
    /\ committed /\ ~stale => underlying_buffer_size >= RequiredBufferSize

(* The caller's record of a tensor is one of the entries of the plan,      *)
(* unless the tensor is just being erased.                                 *)
RecordInv ==
    /\ pc = "erase" => req.tensor \in Tensors
    /\ \A t \in Tensors :
          /\ allocs[t].size > 0 =>
                /\ allocs[t].tensor = t
                /\ End(allocs[t]) <= high_water_mark
                /\ ~(pc = "erase" /\ req.tensor = t) =>
                      \E i \in 1 .. Len(ordered_allocs) :
                          ordered_allocs[i] = allocs[t]
          /\ ptr[t] # Null => allocs[t].size > 0 /\ ptr[t] = allocs[t].offset
          /\ t \in written => allocs[t].size > 0

(* The inductive invariant of the plan.                                    *)
PlanInv == TypeOK /\ SortedByOffset /\ ScanInv /\ NoOverlap

(* The inductive invariant of the arena.                                   *)
ArenaInv == /\ PlanInv
            /\ RoomInv
            /\ RecordInv
            /\ ResolvedInsideBuffer
            /\ ContentsIntact
=============================================================================
