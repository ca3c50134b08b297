------------------------------ MODULE ArenaOps ------------------------------
(***************************************************************************)
(* The arithmetic of tflite::SimpleMemoryArena::Allocate (file             *)
(* tensorflow/lite/simple_memory_arena.cc): rounding an offset up, and one *)
(* iteration of the loop that looks for the best gap between the           *)
(* allocations already planned.  These operators are shared by             *)
(* SimpleMemoryArena, which runs the loop one iteration per step, and by   *)
(* ArenaPlanner, which folds it over the whole list.                       *)
(*                                                                         *)
(* An allocation is a record with the fields of                            *)
(* ArenaAllocWithUsageInterval: offset, size, tensor, first_node and       *)
(* last_node.  A request has the parameters of Allocate: alignment, size,  *)
(* tensor, first_node and last_node.  Offsets are mathematical naturals:   *)
(* the wrap-around of size_t is outside the model.                         *)
(***************************************************************************)
EXTENDS Integers, Sequences

(* kOffsetNotAssigned, the largest size_t: no offset equals it and every   *)
(* gap is smaller than it.                                                 *)
NotAssigned == -1

AlignTo(alignment, offset) ==
    IF offset % alignment = 0
    THEN offset
    ELSE offset + (alignment - (offset % alignment))

(* The usage interval of allocation a does not meet that of b.             *)
Apart(a, b) == \/ a.last_node < b.first_node
               \/ a.first_node > b.last_node

End(a) == a.offset + a.size

(* The local variables of the loop before its first iteration.             *)
ScanStart == [current_offset  |-> 0,
              best_offset     |-> NotAssigned,
              best_offset_fit |-> NotAssigned]

(* Mutant of ScanStep: the gap is measured before it is aligned.           *)
ScanStepUnaligned(scan, a, req) ==
    LET fits == /\ scan.current_offset + req.size <= a.offset
                /\ \/ scan.best_offset_fit = NotAssigned
                   \/ a.offset - scan.current_offset < scan.best_offset_fit
    IN  IF Apart(a, req)
        THEN scan
        ELSE [current_offset  |-> IF scan.current_offset < End(a)
                                  THEN End(a) ELSE scan.current_offset,
              best_offset     |-> IF fits THEN AlignTo(req.alignment, scan.current_offset)
                                  ELSE scan.best_offset,
              best_offset_fit |-> IF fits THEN a.offset - scan.current_offset
                                  ELSE scan.best_offset_fit]

(* One iteration, for allocation a: a gap in front of a that is large      *)
(* enough, and smaller than the best one so far, becomes the best one.     *)
(* The gap is compared by its aligned size and remembered by its full one. *)
ScanStep(scan, a, req) ==
    LET aligned == AlignTo(req.alignment, scan.current_offset)
        better  == /\ aligned + req.size <= a.offset
                   /\ \/ scan.best_offset_fit = NotAssigned
                      \/ a.offset - aligned < scan.best_offset_fit
    IN  IF Apart(a, req)
        THEN scan
        ELSE [current_offset  |-> IF scan.current_offset < End(a)
                                  THEN End(a) ELSE scan.current_offset,
              best_offset     |-> IF better THEN aligned
                                  ELSE scan.best_offset,
              best_offset_fit |-> IF better
                                  THEN a.offset - scan.current_offset
                                  ELSE scan.best_offset_fit]

(* The offset chosen after the loop: the best gap, or the end.             *)
ScanResult(scan, req) ==
    IF scan.best_offset = NotAssigned
    THEN AlignTo(req.alignment, scan.current_offset)
    ELSE scan.best_offset

(* The place at which the insertion loop stops: in front of the first      *)
(* allocation that does not start before the new one.                      *)
InsertionPoint(allocs, offset, k) ==
    /\ k \in 1 .. Len(allocs) + 1
    /\ \A j \in 1 .. k - 1 : allocs[j].offset < offset
    /\ k <= Len(allocs) => ~(allocs[k].offset < offset)

=============================================================================
