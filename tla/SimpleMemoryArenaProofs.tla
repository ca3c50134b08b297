---------------------- MODULE SimpleMemoryArenaProofs ----------------------
(***************************************************************************)
(* Proofs about SimpleMemoryArena, for every set of tensors, every size,   *)
(* alignment and usage interval, and plans of any length.                  *)
(***************************************************************************)
EXTENDS SimpleMemoryArena, OpsProofs

(* AlignTo rounds a natural number up, to another natural number.          *)
LEMMA AlignToUp ==
    ASSUME NEW alignment \in Nat \ {0}, NEW offset \in Nat
    PROVE  /\ AlignTo(alignment, offset) \in Nat
           /\ AlignTo(alignment, offset) >= offset
<1>1. offset % alignment \in 0 .. alignment - 1
  OBVIOUS
<1> QED BY <1>1 DEF AlignTo

(* std::vector::insert: what is in front stays, the rest moves up by one.  *)
LEMMA InsertAtProperties ==
    ASSUME NEW S, NEW s \in Seq(S), NEW k \in 1 .. Len(s) + 1, NEW e \in S
    PROVE  /\ InsertAt(s, k, e) \in Seq(S)
           /\ Len(InsertAt(s, k, e)) = Len(s) + 1
           /\ \A j \in 1 .. Len(s) + 1 :
                 InsertAt(s, k, e)[j] = IF j < k THEN s[j]
                                        ELSE IF j = k THEN e ELSE s[j - 1]
<1>1. InsertAt(s, k, e) = WithInserted(s, k, e)
  BY DEF InsertAt, WithInserted
<1> DEFINE r == WithInserted(s, k, e)
<1>2. /\ r \in Seq(S) /\ Len(r) = Len(s) + 1
      /\ \A j \in 1 .. Len(s) + 1 : r[j] = IF j < k THEN s[j] ELSE IF j = k THEN e ELSE s[j - 1]
  BY Inserted
<1> HIDE DEF r
<1> QED BY <1>1, <1>2 DEF r

(* std::vector::erase: what is in front stays, the rest moves down by one. *)
LEMMA RemoveAtProperties ==
    ASSUME NEW S, NEW s \in Seq(S), NEW k \in 1 .. Len(s)
    PROVE  /\ RemoveAt(s, k) \in Seq(S)
           /\ Len(RemoveAt(s, k)) = Len(s) - 1
           /\ \A j \in 1 .. Len(s) - 1 :
                 RemoveAt(s, k)[j] = IF j < k THEN s[j] ELSE s[j + 1]
<1> DEFINE a == SubSeq(s, 1, k - 1)
           b == SubSeq(s, k + 1, Len(s))
<1>1. /\ a \in Seq(S) /\ Len(a) = k - 1
      /\ \A j \in 1 .. k - 1 : a[j] = s[j]
  BY SubSeqProperties
<1>2. /\ b \in Seq(S) /\ Len(b) = Len(s) - k
      /\ \A j \in 1 .. Len(s) - k : b[j] = s[k + j]
  BY SubSeqProperties
<1> HIDE DEF a, b
<1>3. /\ a \o b \in Seq(S)
      /\ Len(a \o b) = Len(a) + Len(b)
      /\ \A j \in 1 .. Len(a) + Len(b) :
            (a \o b)[j] = IF j <= Len(a) THEN a[j] ELSE b[j - Len(a)]
  BY <1>1, <1>2, ConcatProperties
<1>4. /\ Len(a \o b) = Len(s) - 1
      /\ \A j \in 1 .. Len(s) - 1 :
            (a \o b)[j] = IF j < k THEN s[j] ELSE s[j + 1]
  BY <1>1, <1>2, <1>3
<1> QED BY <1>3, <1>4 DEF RemoveAt, a, b

-----------------------------------------------------------------------------
(* One iteration of the scan: current_offset reaches the end of the entry  *)
(* and never falls back, and a new best gap starts where the entries       *)
(* before it have ended, and ends before the entry.                        *)
LEMMA ScanStepProperties ==
    ASSUME NEW sc \in Scan, NEW a \in Alloc, NEW r \in Request
    PROVE  LET new == ScanStep(sc, a, r) IN
           /\ new \in Scan
           /\ new.current_offset >= sc.current_offset
           /\ ~Apart(a, r) => End(a) <= new.current_offset
           /\ \/ new.best_offset = sc.best_offset
              \/ /\ ~Apart(a, r)
                 /\ new.best_offset >= sc.current_offset
                 /\ new.best_offset + r.size <= a.offset
<1> DEFINE new     == ScanStep(sc, a, r)
           aligned == AlignTo(r.alignment, sc.current_offset)
<1>1. aligned \in Nat /\ aligned >= sc.current_offset
  BY AlignToUp DEF Scan, Request
<1>2. CASE Apart(a, r)
  BY <1>2 DEF ScanStep, Scan
<1>3. CASE ~Apart(a, r)
  <2> HIDE DEF aligned
  <2>1. new.current_offset = IF sc.current_offset < End(a)
                             THEN End(a) ELSE sc.current_offset
    BY <1>3 DEF ScanStep
  <2>2. CASE /\ aligned + r.size <= a.offset
             /\ \/ sc.best_offset_fit = NotAssigned
                \/ a.offset - aligned < sc.best_offset_fit
    <3>1. new = [current_offset  |-> IF sc.current_offset < End(a)
                                     THEN End(a) ELSE sc.current_offset,
                 best_offset     |-> aligned,
                 best_offset_fit |-> a.offset - sc.current_offset]
      BY <1>3, <2>2 DEF ScanStep, aligned
    <3> HIDE DEF new
    <3>2. r.size \in Nat /\ a.offset \in Nat /\ sc.current_offset \in Nat /\ End(a) \in Nat
      BY DEF Request, Alloc, Scan, End
    <3>3. a.offset - sc.current_offset \in Nat
      BY <1>1, <2>2, <3>2
    <3> QED BY <1>1, <1>3, <2>2, <3>1, <3>2, <3>3 DEF Scan, new
  <2>3. CASE ~ /\ aligned + r.size <= a.offset
               /\ \/ sc.best_offset_fit = NotAssigned
                  \/ a.offset - aligned < sc.best_offset_fit
    <3>1. new = [current_offset  |-> IF sc.current_offset < End(a)
                                     THEN End(a) ELSE sc.current_offset,
                 best_offset     |-> sc.best_offset,
                 best_offset_fit |-> sc.best_offset_fit]
      BY <1>3, <2>3 DEF ScanStep, aligned
    <3> HIDE DEF new
    <3>2. sc.current_offset \in Nat /\ End(a) \in Nat
      BY DEF Alloc, Scan, End
    <3> QED BY <3>1, <3>2 DEF Scan, new
  <2> QED BY <2>2, <2>3
<1> QED BY <1>2, <1>3

(* The offset chosen after the scan is the best gap, or lies behind every  *)
(* entry that was passed.                                                  *)
LEMMA ScanResultProperties ==
    ASSUME NEW sc \in Scan, NEW r \in Request
    PROVE  /\ ScanResult(sc, r) \in Nat
           /\ \/ /\ sc.best_offset # NotAssigned
                 /\ ScanResult(sc, r) = sc.best_offset
              \/ /\ sc.best_offset = NotAssigned
                 /\ ScanResult(sc, r) >= sc.current_offset
<1>1. /\ AlignTo(r.alignment, sc.current_offset) \in Nat
      /\ AlignTo(r.alignment, sc.current_offset) >= sc.current_offset
  BY AlignToUp DEF Scan, Request
<1> QED BY <1>1 DEF ScanResult, Scan

-----------------------------------------------------------------------------
USE ArenaAssumption

(* The allocation that Allocate makes is an allocation.                    *)
LEMMA PlacedType ==
    ASSUME NEW r \in Request, NEW o \in Nat
    PROVE  Placed(r, o) \in Alloc
BY DEF Placed, Request, Alloc

(* A new arena has the types of TypeOK.                                    *)
LEMMA TypeInit == Init => TypeOK
<1> SUFFICES ASSUME Init PROVE TypeOK
  OBVIOUS
<1>1. DOMAIN memory = 0 .. underlying_buffer_size - slack - 1
  BY DEF Init
<1>2. ResetAlloc \in Alloc /\ NoRequest \in Request /\ ScanStart \in Scan
  BY DEF ResetAlloc, NoRequest, ScanStart, Alloc, Request, Scan
<1>3. ordered_allocs \in Seq(Alloc) /\ Len(ordered_allocs) = 0
  BY DEF Init
<1>4. ptr \in [Tensors -> Nat \cup {Null}] /\ allocs \in [Tensors -> Alloc]
  BY <1>2 DEF Init
<1>5. committed \in BOOLEAN /\ stale \in BOOLEAN /\ written \subseteq Tensors
  BY DEF Init
<1>6. /\ high_water_mark \in Nat /\ underlying_buffer_size \in Nat
      /\ slack \in 0 .. ArenaAlignment - 1
  BY DEF Init
<1>7. pc = "idle" /\ req \in Request /\ it = 1 /\ scan \in Scan
  BY <1>2 DEF Init
<1> QED BY <1>1, <1>3, <1>4, <1>5, <1>6, <1>7 DEF TypeOK

(* Every step of the arena keeps the types of TypeOK.                      *)
LEMMA TypeStep == TypeOK /\ [Next]_vars => TypeOK'
<1> SUFFICES ASSUME TypeOK, [Next]_vars PROVE TypeOK'
  OBVIOUS
<1> USE DEF TypeOK
<1>0. ResetAlloc \in Alloc /\ NoRequest \in Request /\ ScanStart \in Scan
  BY DEF ResetAlloc, NoRequest, ScanStart, Alloc, Request, Scan
<1>1. ASSUME NEW r \in Requests, AllocateEmpty(r) PROVE TypeOK'
  <2>1. r \in Request /\ r.tensor \in Tensors
    BY DEF Requests, Request
  <2>2. Placed(r, 0) \in Alloc
    BY <2>1, PlacedType
  <2> QED BY <1>1, <2>1, <2>2
          DEF AllocateEmpty, planVars, bufferVars, loopVars, Null
<1>2. ASSUME NEW r \in Requests, AllocateStart(r) PROVE TypeOK'
  <2>1. r \in Request
    BY DEF Requests, Request
  <2> QED BY <1>0, <1>2, <2>1
          DEF AllocateStart, planVars, bufferVars, callerVars
<1>3. CASE AllocateScan
  <2>1. ordered_allocs[it] \in Alloc
    BY <1>3 DEF AllocateScan
  <2>2. scan' \in Scan
    BY <1>3, <2>1, ScanStepProperties DEF AllocateScan
  <2> QED BY <1>3, <2>2 DEF AllocateScan, planVars, bufferVars, callerVars
<1>4. CASE AllocateFinish
  <2> DEFINE offset == ScanResult(scan, req)
             new    == Placed(req, offset)
  <2>1. offset \in Nat
    BY ScanResultProperties
  <2> HIDE DEF offset
  <2>2a. new \in Alloc
    BY <2>1, PlacedType
  <2> HIDE DEF new
  <2>2. new \in Alloc /\ End(new) \in Nat
    BY <2>2a DEF End, Alloc
  <2>3. PICK k \in 1 .. Len(ordered_allocs) + 1 :
             ordered_allocs' = InsertAt(ordered_allocs, k, new)
    BY <1>4 DEF AllocateFinish, new, offset
  <2>4. ordered_allocs' \in Seq(Alloc) /\ Len(ordered_allocs') = Len(ordered_allocs) + 1
    BY <2>2, <2>3, InsertAtProperties
  <2>5. high_water_mark' \in Nat
    BY <1>4, <2>2 DEF AllocateFinish, new, offset
  <2>6. allocs' \in [Tensors -> Alloc]
    BY <1>4, <2>2 DEF AllocateFinish, new, offset
  <2> QED BY <1>0, <1>4, <2>4, <2>5, <2>6 DEF AllocateFinish, bufferVars, Null
<1>5. ASSUME NEW t \in Tensors, DeallocateStart(t) PROVE TypeOK'
  <2>1. [NoRequest EXCEPT !.tensor = t] \in Request
    BY <1>0 DEF Request
  <2> QED BY <1>5, <2>1 DEF DeallocateStart, planVars, bufferVars, callerVars
<1>6. CASE DeallocateErase
  <2>1. CASE ordered_allocs[it].tensor = req.tensor
    <3>1. ordered_allocs' = RemoveAt(ordered_allocs, it) /\ it' = it
      BY <1>6, <2>1 DEF DeallocateErase
    <3>2. it \in 1 .. Len(ordered_allocs)
      BY <1>6 DEF DeallocateErase
    <3>3. ordered_allocs' \in Seq(Alloc) /\ Len(ordered_allocs') = Len(ordered_allocs) - 1
      BY <3>1, <3>2, RemoveAtProperties
    <3> QED BY <1>6, <3>1, <3>2, <3>3 DEF DeallocateErase, bufferVars, callerVars
  <2>2. CASE ordered_allocs[it].tensor # req.tensor
    BY <1>6, <2>2 DEF DeallocateErase, bufferVars, callerVars
  <2> QED BY <2>1, <2>2
<1>7. CASE DeallocateFinish
  <2>1. /\ ordered_allocs' = ordered_allocs
        /\ it' = 1 /\ pc' = "idle" /\ req' \in Request
    BY <1>0, <1>7 DEF DeallocateFinish, planVars
  <2>2. allocs' \in [Tensors -> Alloc] /\ ptr' \in [Tensors -> Nat \cup {Null}]
    BY <1>0, <1>7 DEF DeallocateFinish
  <2> QED BY <1>7, <2>1, <2>2 DEF DeallocateFinish, planVars, bufferVars
<1>8. CASE CommitGrow
  <2>1. PICK gap \in 0 .. ArenaAlignment - 1 :
             memory' = Copied(RequiredBufferSize, gap) /\ slack' = gap
    BY <1>8 DEF CommitGrow
  <2>2. DOMAIN memory' = 0 .. underlying_buffer_size' - slack' - 1
    BY <1>8, <2>1 DEF CommitGrow, Copied
  <2>3. ptr' \in [Tensors -> Nat \cup {Null}]
    BY <1>8 DEF CommitGrow
  <2>4. underlying_buffer_size' \in Nat
    BY <1>8 DEF CommitGrow, RequiredBufferSize
  <2>5. /\ committed' \in BOOLEAN /\ stale' \in BOOLEAN
        /\ UNCHANGED <<planVars, loopVars, allocs, written>>
    BY <1>8 DEF CommitGrow
  <2> QED BY <2>1, <2>2, <2>3, <2>4, <2>5 DEF planVars, loopVars
<1>9. CASE CommitKeep
  BY <1>9 DEF CommitKeep, planVars, loopVars
<1>10. ASSUME NEW t \in Tensors, ResolveAlloc(t) PROVE TypeOK'
  <2>1. allocs[t].offset \in Nat
    BY DEF Alloc
  <2> QED BY <1>10, <2>1
          DEF ResolveAlloc, planVars, bufferVars, loopVars, Null
<1>11. ASSUME NEW t \in Tensors, Write(t) PROVE TypeOK'
  BY <1>11 DEF Write, planVars, loopVars
<1>12. CASE ClearPlan
  <2>1. ordered_allocs' \in Seq(Alloc) /\ Len(ordered_allocs') = 0
    BY <1>12 DEF ClearPlan
  <2>2. allocs' \in [Tensors -> Alloc] /\ ptr' \in [Tensors -> Nat \cup {Null}]
    BY <1>0, <1>12 DEF ClearPlan
  <2>3. /\ committed' \in BOOLEAN /\ high_water_mark' \in Nat
        /\ written' \subseteq Tensors /\ pc = "idle"
        /\ UNCHANGED <<underlying_buffer_size, slack, memory, loopVars, stale>>
    BY <1>12 DEF ClearPlan
  <2> QED BY <2>1, <2>2, <2>3 DEF loopVars
<1>13. CASE ReleaseBuffer
  <2>1. DOMAIN memory' = 0 .. underlying_buffer_size' - slack' - 1
    BY <1>13 DEF ReleaseBuffer
  <2>2. ptr' \in [Tensors -> Nat \cup {Null}]
    BY <1>13 DEF ReleaseBuffer
  <2>3. underlying_buffer_size' \in Nat /\ slack' \in 0 .. ArenaAlignment - 1
    BY <1>13 DEF ReleaseBuffer
  <2>4. /\ committed' \in BOOLEAN /\ written' \subseteq Tensors
        /\ UNCHANGED <<planVars, loopVars, allocs, stale>>
    BY <1>13 DEF ReleaseBuffer
  <2> QED BY <2>1, <2>2, <2>3, <2>4 DEF planVars, loopVars
<1>14. CASE UNCHANGED vars
  BY <1>14 DEF vars, planVars, bufferVars, loopVars, callerVars
<1> QED BY <1>1, <1>2, <1>3, <1>4, <1>5, <1>6, <1>7, <1>8, <1>9, <1>10,
           <1>11, <1>12, <1>13, <1>14 DEF Next, PlanNext

-----------------------------------------------------------------------------
(* The plan: sorted by offset, and free of overlaps between allocations    *)
(* whose usage intervals meet.                                             *)

(* The entries of a sequence of allocations have fields of their types.    *)
LEMMA EntryFields ==
    ASSUME NEW s \in Seq(Alloc), NEW j \in 1 .. Len(s)
    PROVE  /\ s[j].offset \in Nat /\ s[j].size \in Nat
           /\ s[j].first_node \in Int /\ s[j].last_node \in Int
           /\ End(s[j]) \in Nat
<1>1. s[j] \in Alloc
  OBVIOUS
<1> QED BY <1>1 DEF Alloc, End

(* The empty plan of a new arena satisfies the invariant of the plan.      *)
LEMMA PlanInit == Init => PlanInv
<1> SUFFICES ASSUME Init PROVE PlanInv
  OBVIOUS
<1>1. Len(ordered_allocs) = 0 /\ pc = "idle"
  BY DEF Init
<1> QED BY <1>1, TypeInit DEF PlanInv, SortedByOffset, ScanInv, NoOverlap

(* Every iteration of Allocate and Deallocate, and every other step, keeps *)
(* the invariant of the plan.                                              *)
LEMMA PlanStep == PlanInv /\ [Next]_vars => PlanInv'
<1> SUFFICES ASSUME PlanInv, [Next]_vars PROVE PlanInv'
  OBVIOUS
<1>T. TypeOK /\ TypeOK'
  BY TypeStep DEF PlanInv
<1>1. CASE UNCHANGED <<ordered_allocs, loopVars>>
  BY <1>T, <1>1 DEF PlanInv, SortedByOffset, ScanInv, NoOverlap, loopVars
<1>2. ASSUME NEW r \in Requests, AllocateStart(r) PROVE PlanInv'
  <2>1. /\ ordered_allocs' = ordered_allocs /\ req' = r /\ it' = 1
        /\ scan'.best_offset = NotAssigned
        /\ r.tensor \in Tensors /\ r.size > 0
    BY <1>2 DEF AllocateStart, planVars, ScanStart, Requests
  <2>2. ScanInv'
    BY <2>1 DEF ScanInv
  <2> QED BY <1>T, <2>1, <2>2 DEF PlanInv, SortedByOffset, NoOverlap
<1>3. CASE AllocateScan
  <2> DEFINE a == ordered_allocs[it]
  <2>1. /\ ordered_allocs' = ordered_allocs /\ req' = req /\ pc = "scan"
        /\ it' = it + 1 /\ it \in 1 .. Len(ordered_allocs)
        /\ scan' = ScanStep(scan, a, req)
    BY <1>3, <1>T DEF AllocateScan, planVars, TypeOK
  <2>2. a \in Alloc /\ req \in Request /\ scan \in Scan
    BY <2>1, <1>T DEF TypeOK
  <2> HIDE DEF a
  <2>3. /\ scan' \in Scan
        /\ scan'.current_offset >= scan.current_offset
        /\ ~Apart(a, req) => End(a) <= scan'.current_offset
        /\ \/ scan'.best_offset = scan.best_offset
           \/ /\ ~Apart(a, req)
              /\ scan'.best_offset >= scan.current_offset
              /\ scan'.best_offset + req.size <= a.offset
    BY <2>1, <2>2, ScanStepProperties
  <2>4. /\ \A j \in 1 .. Len(ordered_allocs) :
             ordered_allocs[j].offset \in Nat /\ End(ordered_allocs[j]) \in Nat
        /\ scan.current_offset \in Nat /\ scan'.current_offset \in Nat
        /\ req.size \in Nat
        /\ scan.best_offset \in Nat \cup {-1} /\ scan'.best_offset \in Nat \cup {-1}
    <3>1. ASSUME NEW j \in 1 .. Len(ordered_allocs)
          PROVE  ordered_allocs[j].offset \in Nat /\ End(ordered_allocs[j]) \in Nat
      <4>1. ordered_allocs \in Seq(Alloc)
        BY <1>T DEF TypeOK
      <4> QED BY <4>1, EntryFields
    <3>2. /\ scan.current_offset \in Nat /\ scan'.current_offset \in Nat
          /\ scan.best_offset \in Nat \cup {-1} /\ scan'.best_offset \in Nat \cup {-1}
      BY <2>2, <2>3 DEF Scan, NotAssigned
    <3>3. req.size \in Nat
      BY <2>2 DEF Request
    <3> QED BY <3>1, <3>2, <3>3
  <2>5. req.tensor \in Tensors /\ req.size > 0
    BY <2>1 DEF PlanInv, ScanInv
  <2>6. ASSUME NEW j \in 1 .. it, ~Apart(ordered_allocs[j], req)
        PROVE  /\ End(ordered_allocs[j]) <= scan'.current_offset
               /\ scan'.best_offset # NotAssigned =>
                     \/ End(ordered_allocs[j]) <= scan'.best_offset
                     \/ scan'.best_offset + req.size <= ordered_allocs[j].offset
    <3>1. CASE j = it
      <4>1. scan'.best_offset # NotAssigned =>
               scan'.best_offset + req.size <= ordered_allocs[j].offset
        BY <2>1, <2>3, <3>1 DEF PlanInv, ScanInv, a
      <4> QED BY <2>3, <2>6, <3>1, <4>1 DEF a
    <3>2. CASE j \in 1 .. it - 1
      <4>1. /\ End(ordered_allocs[j]) <= scan.current_offset
            /\ scan.best_offset # NotAssigned =>
                  \/ End(ordered_allocs[j]) <= scan.best_offset
                  \/ scan.best_offset + req.size <= ordered_allocs[j].offset
        BY <2>1, <2>6, <3>2 DEF PlanInv, ScanInv
      <4>2. j \in 1 .. Len(ordered_allocs)
        BY <2>1, <3>2
      <4> QED BY <2>3, <2>4, <4>1, <4>2
    <3> QED BY <2>1, <3>1, <3>2
  <2>7. ASSUME scan'.best_offset # NotAssigned,
               NEW j \in it + 1 .. Len(ordered_allocs)
        PROVE  scan'.best_offset + req.size <= ordered_allocs[j].offset
    <3>1. a.offset <= ordered_allocs[j].offset
      BY <2>1 DEF PlanInv, SortedByOffset, a
    <3>2. j \in it .. Len(ordered_allocs) /\ j \in 1 .. Len(ordered_allocs)
      BY <2>1
    <3>3. CASE scan'.best_offset = scan.best_offset
      BY <2>1, <2>7, <3>2, <3>3 DEF PlanInv, ScanInv
    <3>4. CASE scan'.best_offset + req.size <= a.offset
      <4>1. a.offset \in Nat
        BY <2>1, <2>4 DEF a
      <4> QED BY <2>4, <2>7, <3>1, <3>2, <3>4, <4>1 DEF NotAssigned
    <3> QED BY <2>3, <3>3, <3>4
  <2>8. ScanInv'
    BY <2>1, <2>5, <2>6, <2>7 DEF ScanInv
  <2> QED BY <1>T, <2>1, <2>8 DEF PlanInv, SortedByOffset, NoOverlap
<1>4. CASE AllocateFinish
  <2> DEFINE offset == ScanResult(scan, req)
             new    == Placed(req, offset)
  <2>1. /\ pc = "scan" /\ pc' = "idle" /\ it = Len(ordered_allocs) + 1
        /\ scan \in Scan /\ req \in Request /\ ordered_allocs \in Seq(Alloc)
    BY <1>4, <1>T DEF AllocateFinish, TypeOK
  <2>2. /\ offset \in Nat
        /\ \/ scan.best_offset # NotAssigned /\ offset = scan.best_offset
           \/ scan.best_offset = NotAssigned /\ offset >= scan.current_offset
    BY <2>1, ScanResultProperties
  <2> HIDE DEF offset
  <2>3. /\ new \in Alloc /\ new.offset = offset /\ new.size = req.size
        /\ new.first_node = req.first_node /\ new.last_node = req.last_node
    BY <2>1, <2>2, PlacedType DEF Placed
  <2> HIDE DEF new
  <2>4. PICK k \in 1 .. Len(ordered_allocs) + 1 :
             /\ InsertionPoint(ordered_allocs, offset, k)
             /\ ordered_allocs' = InsertAt(ordered_allocs, k, new)
    BY <1>4 DEF AllocateFinish, new, offset
  <2>5. /\ Len(ordered_allocs') = Len(ordered_allocs) + 1
        /\ \A j \in 1 .. Len(ordered_allocs) + 1 :
              ordered_allocs'[j] = IF j < k THEN ordered_allocs[j]
                                   ELSE IF j = k THEN new ELSE ordered_allocs[j - 1]
    BY <2>1, <2>3, <2>4, InsertAtProperties
  <2>6. \A j \in 1 .. Len(ordered_allocs) :
           /\ ordered_allocs[j].offset \in Nat /\ ordered_allocs[j].size \in Nat
           /\ ordered_allocs[j].first_node \in Int /\ ordered_allocs[j].last_node \in Int
    BY <2>1, EntryFields
  <2>7. /\ \A j \in 1 .. k - 1 : ordered_allocs[j].offset < offset
        /\ \A j \in k .. Len(ordered_allocs) : offset <= ordered_allocs[j].offset
    <3>1. \A j \in 1 .. k - 1 : ordered_allocs[j].offset < offset
      BY <2>4 DEF InsertionPoint
    <3>2. k <= Len(ordered_allocs) => offset <= ordered_allocs[k].offset
      BY <2>2, <2>4, <2>6 DEF InsertionPoint
    <3>3. ASSUME NEW j \in k .. Len(ordered_allocs)
          PROVE  offset <= ordered_allocs[j].offset
      <4>1. ordered_allocs[k].offset <= ordered_allocs[j].offset
        BY <2>6 DEF PlanInv, SortedByOffset
      <4> QED BY <2>2, <2>6, <3>2, <4>1
    <3> QED BY <3>1, <3>3
  <2>8. SortedByOffset'
    <3> SUFFICES ASSUME NEW i \in 1 .. Len(ordered_allocs) + 1,
                        NEW j \in 1 .. Len(ordered_allocs) + 1, i < j
                 PROVE  ordered_allocs'[i].offset <= ordered_allocs'[j].offset
      BY <2>5 DEF SortedByOffset
    <3>1. CASE i = k
      BY <2>3, <2>5, <2>7, <3>1
    <3>2. CASE j = k
      <4>1. i \in 1 .. k - 1 /\ ordered_allocs[i].offset \in Nat
        BY <2>6, <3>2
      <4> QED BY <2>2, <2>3, <2>5, <2>7, <3>2, <4>1
    <3>3. CASE i # k /\ j # k
      <4> DEFINE p == IF i < k THEN i ELSE i - 1
                 q == IF j < k THEN j ELSE j - 1
      <4>1. /\ p \in 1 .. Len(ordered_allocs) /\ q \in 1 .. Len(ordered_allocs)
            /\ p < q
        BY <3>3
      <4>2. ordered_allocs'[i] = ordered_allocs[p] /\ ordered_allocs'[j] = ordered_allocs[q]
        BY <2>5, <3>3
      <4> HIDE DEF p, q
      <4> QED BY <4>1, <4>2 DEF PlanInv, SortedByOffset
    <3> QED BY <3>1, <3>2, <3>3
  <2>9. ASSUME NEW j \in 1 .. Len(ordered_allocs)
        PROVE  \/ Apart(ordered_allocs[j], req)
               \/ End(ordered_allocs[j]) <= offset
               \/ offset + req.size <= ordered_allocs[j].offset
    <3>1. SUFFICES ASSUME ~Apart(ordered_allocs[j], req)
                   PROVE  \/ End(ordered_allocs[j]) <= offset
                          \/ offset + req.size <= ordered_allocs[j].offset
      OBVIOUS
    <3>2. /\ End(ordered_allocs[j]) <= scan.current_offset
          /\ scan.best_offset # NotAssigned =>
                \/ End(ordered_allocs[j]) <= scan.best_offset
                \/ scan.best_offset + req.size <= ordered_allocs[j].offset
      BY <2>1, <3>1 DEF PlanInv, ScanInv
    <3>3. End(ordered_allocs[j]) \in Nat /\ scan.current_offset \in Nat
      BY <2>1, <2>6 DEF End, Scan
    <3> QED BY <2>2, <3>2, <3>3
  <2>10. NoOverlap'
    <3> SUFFICES ASSUME NEW i \in 1 .. Len(ordered_allocs) + 1,
                        NEW j \in 1 .. Len(ordered_allocs) + 1, i # j
                 PROVE  \/ Apart(ordered_allocs'[i], ordered_allocs'[j])
                        \/ End(ordered_allocs'[i]) <= ordered_allocs'[j].offset
                        \/ End(ordered_allocs'[j]) <= ordered_allocs'[i].offset
      BY <2>5 DEF NoOverlap
    <3> DEFINE p == IF i < k THEN i ELSE i - 1
               q == IF j < k THEN j ELSE j - 1
    <3>1. CASE i = k
      <4>1. q \in 1 .. Len(ordered_allocs) /\ ordered_allocs'[j] = ordered_allocs[q]
            /\ ordered_allocs'[i] = new
        BY <2>5, <3>1
      <4> HIDE DEF q
      <4> QED BY <2>1, <2>3, <2>6, <2>9, <4>1 DEF Apart, End, Request
    <3>2. CASE j = k
      <4>1. p \in 1 .. Len(ordered_allocs) /\ ordered_allocs'[i] = ordered_allocs[p]
            /\ ordered_allocs'[j] = new
        BY <2>5, <3>2
      <4> HIDE DEF p
      <4> QED BY <2>1, <2>3, <2>6, <2>9, <4>1 DEF Apart, End, Request
    <3>3. CASE i # k /\ j # k
      <4>1. /\ p \in 1 .. Len(ordered_allocs) /\ q \in 1 .. Len(ordered_allocs)
            /\ p # q
        BY <3>3
      <4>2. ordered_allocs'[i] = ordered_allocs[p] /\ ordered_allocs'[j] = ordered_allocs[q]
        BY <2>5, <3>3
      <4> HIDE DEF p, q
      <4> QED BY <4>1, <4>2 DEF PlanInv, NoOverlap
    <3> QED BY <3>1, <3>2, <3>3
  <2> QED BY <1>T, <2>1, <2>8, <2>10 DEF PlanInv, ScanInv
<1>5. CASE DeallocateErase
  <2>1. pc = "erase" /\ pc' = "erase"
    BY <1>5 DEF DeallocateErase
  <2>2. CASE ordered_allocs' = ordered_allocs
    BY <1>T, <2>1, <2>2 DEF PlanInv, SortedByOffset, ScanInv, NoOverlap
  <2>3. CASE ordered_allocs' = RemoveAt(ordered_allocs, it)
    <3>1. it \in 1 .. Len(ordered_allocs) /\ ordered_allocs \in Seq(Alloc)
      BY <1>5, <1>T DEF DeallocateErase, TypeOK
    <3>2. /\ Len(ordered_allocs') = Len(ordered_allocs) - 1
          /\ \A j \in 1 .. Len(ordered_allocs) - 1 :
                ordered_allocs'[j] = IF j < it THEN ordered_allocs[j]
                                     ELSE ordered_allocs[j + 1]
      BY <2>3, <3>1, RemoveAtProperties
    <3>3. ASSUME NEW i \in 1 .. Len(ordered_allocs'),
                 NEW j \in 1 .. Len(ordered_allocs'), i # j
          PROVE  \E p, q \in 1 .. Len(ordered_allocs) :
                    /\ ordered_allocs'[i] = ordered_allocs[p]
                    /\ ordered_allocs'[j] = ordered_allocs[q]
                    /\ p # q /\ (i < j => p < q)
      <4> DEFINE p == IF i < it THEN i ELSE i + 1
                 q == IF j < it THEN j ELSE j + 1
      <4>1. /\ p \in 1 .. Len(ordered_allocs) /\ q \in 1 .. Len(ordered_allocs)
            /\ p # q /\ (i < j => p < q)
        BY <3>1, <3>2, <3>3
      <4>2. ordered_allocs'[i] = ordered_allocs[p] /\ ordered_allocs'[j] = ordered_allocs[q]
        BY <3>1, <3>2
      <4> HIDE DEF p, q
      <4> QED BY <4>1, <4>2
    <3>4. SortedByOffset'
      BY <3>1, <3>2, <3>3 DEF PlanInv, SortedByOffset
    <3>5. ASSUME NEW i \in 1 .. Len(ordered_allocs'),
                 NEW j \in 1 .. Len(ordered_allocs'), i # j
          PROVE  \/ Apart(ordered_allocs'[i], ordered_allocs'[j])
                 \/ End(ordered_allocs'[i]) <= ordered_allocs'[j].offset
                 \/ End(ordered_allocs'[j]) <= ordered_allocs'[i].offset
      <4>1. \E p, q \in 1 .. Len(ordered_allocs) :
                    /\ ordered_allocs'[i] = ordered_allocs[p]
                    /\ ordered_allocs'[j] = ordered_allocs[q]
                    /\ p # q /\ (i < j => p < q)
        BY <3>3, <3>5
      <4>2. PICK p \in 1 .. Len(ordered_allocs), q \in 1 .. Len(ordered_allocs) :
                    /\ ordered_allocs'[i] = ordered_allocs[p]
                    /\ ordered_allocs'[j] = ordered_allocs[q]
                    /\ p # q
        BY <4>1
      <4> QED BY <4>2 DEF PlanInv, NoOverlap
    <3>6. NoOverlap'
      BY <3>5 DEF NoOverlap
    <3> QED BY <1>T, <2>1, <3>4, <3>6 DEF PlanInv, ScanInv
  <2> QED BY <1>5, <2>2, <2>3 DEF DeallocateErase
<1>6. CASE ClearPlan
  <2>1. Len(ordered_allocs') = 0 /\ pc' = "idle"
    BY <1>6 DEF ClearPlan, loopVars
  <2> QED BY <1>T, <2>1 DEF PlanInv, SortedByOffset, ScanInv, NoOverlap
<1>7. ASSUME NEW t \in Tensors, DeallocateStart(t) PROVE PlanInv'
  BY <1>T, <1>7 DEF DeallocateStart, planVars, PlanInv, SortedByOffset, ScanInv, NoOverlap
<1>8. CASE DeallocateFinish
  BY <1>T, <1>8 DEF DeallocateFinish, planVars, PlanInv, SortedByOffset, ScanInv, NoOverlap
<1>9. ASSUME NEW r \in Requests, AllocateEmpty(r)
      PROVE  UNCHANGED <<ordered_allocs, loopVars>>
  BY <1>9 DEF AllocateEmpty, planVars
<1>10. ASSUME NEW t \in Tensors, ResolveAlloc(t) \/ Write(t)
       PROVE  UNCHANGED <<ordered_allocs, loopVars>>
  BY <1>10 DEF ResolveAlloc, Write, planVars
<1>11. ASSUME CommitGrow \/ CommitKeep \/ ReleaseBuffer \/ UNCHANGED vars
       PROVE  UNCHANGED <<ordered_allocs, loopVars>>
  BY <1>11 DEF CommitGrow, CommitKeep, ReleaseBuffer, vars, planVars
<1> QED BY <1>1, <1>2, <1>3, <1>4, <1>5, <1>6, <1>7, <1>8, <1>9, <1>10, <1>11
        DEF Next, PlanNext

-----------------------------------------------------------------------------
(* The buffer and the caller's records.                                    *)

(* A byte of one of two disjoint ranges is not a byte of the other.        *)
LEMMA DisjointIntervals ==
    ASSUME NEW a \in Nat, NEW m \in Nat, NEW c \in Nat, NEW n \in Nat,
           a + m <= c \/ c + n <= a, NEW b \in a .. a + m - 1
    PROVE  b \notin c .. c + n - 1
OBVIOUS

(* A new arena satisfies the invariant of the arena.                       *)
LEMMA ArenaInit == Init => ArenaInv
<1> SUFFICES ASSUME Init PROVE ArenaInv
  OBVIOUS
<1>1. PlanInv
  BY PlanInit
<1>2. /\ Len(ordered_allocs) = 0 /\ committed = FALSE /\ pc = "idle" /\ written = {}
      /\ \A t \in Tensors : allocs[t].size = 0 /\ ptr[t] = Null
  BY DEF Init, ResetAlloc
<1>3. RoomInv
  BY <1>2 DEF RoomInv
<1>4. RecordInv
  BY <1>2 DEF RecordInv
<1>5. ResolvedInsideBuffer /\ ContentsIntact
  BY <1>2 DEF ResolvedInsideBuffer, ContentsIntact
<1> QED BY <1>1, <1>3, <1>4, <1>5 DEF ArenaInv

(* Every step, Commit and the writes of kernels included, keeps the        *)
(* invariant of the arena.                                                 *)
LEMMA ArenaStep == ArenaInv /\ [Next]_vars => ArenaInv'
<1> SUFFICES ASSUME ArenaInv, [Next]_vars PROVE ArenaInv'
  OBVIOUS
<1>P. PlanInv /\ PlanInv' /\ TypeOK /\ TypeOK'
  BY PlanStep DEF ArenaInv, PlanInv
<1>I. RoomInv /\ RecordInv /\ ResolvedInsideBuffer /\ ContentsIntact
  BY DEF ArenaInv
<1>R. \A t \in Tensors :
         /\ allocs[t].offset \in Nat /\ allocs[t].size \in Nat
         /\ End(allocs[t]) = allocs[t].offset + allocs[t].size
         /\ ptr[t] \in Nat \cup {Null}
  <2> SUFFICES ASSUME NEW t \in Tensors
               PROVE  /\ allocs[t].offset \in Nat /\ allocs[t].size \in Nat
                      /\ End(allocs[t]) = allocs[t].offset + allocs[t].size
                      /\ ptr[t] \in Nat \cup {Null}
    OBVIOUS
  <2>1. allocs[t] \in Alloc /\ ptr[t] \in Nat \cup {Null}
    BY <1>P DEF TypeOK
  <2> QED BY <2>1 DEF Alloc, End
<1>1. ASSUME NEW r \in Requests, AllocateEmpty(r) PROVE ArenaInv'
  <2>1. /\ UNCHANGED <<planVars, bufferVars, loopVars, stale>>
        /\ r.tensor \in Tensors /\ r.size = 0
        /\ written' = written \ {r.tensor}
    BY <1>1 DEF AllocateEmpty, Requests
  <2>2. /\ allocs'[r.tensor].size = 0 /\ ptr'[r.tensor] = Null
        /\ \A t \in Tensors \ {r.tensor} : allocs'[t] = allocs[t] /\ ptr'[t] = ptr[t]
    BY <1>1, <1>P, <2>1 DEF AllocateEmpty, TypeOK, Placed
  <2>3. RoomInv'
    BY <1>I, <2>1 DEF RoomInv, RequiredBufferSize, planVars, bufferVars
  <2>4. RecordInv'
    BY <1>I, <2>1, <2>2 DEF RecordInv, planVars, loopVars
  <2>5. ResolvedInsideBuffer'
    BY <1>I, <2>1, <2>2 DEF ResolvedInsideBuffer, bufferVars
  <2>6. ContentsIntact'
    BY <1>I, <1>P, <2>1, <2>2 DEF ContentsIntact, bufferVars, Bytes, TypeOK
  <2> QED BY <1>P, <2>3, <2>4, <2>5, <2>6 DEF ArenaInv
<1>2. ASSUME UNCHANGED <<planVars, bufferVars, callerVars>>, pc' # "erase", pc # "erase"
      PROVE  ArenaInv'
  <2>1. RoomInv'
    BY <1>I, <1>2 DEF RoomInv, RequiredBufferSize, planVars, bufferVars, callerVars
  <2>2. RecordInv'
    BY <1>I, <1>2 DEF RecordInv, planVars, callerVars
  <2>3. ResolvedInsideBuffer' /\ ContentsIntact'
    BY <1>I, <1>2 DEF ResolvedInsideBuffer, ContentsIntact, bufferVars, callerVars, Bytes
  <2> QED BY <1>P, <2>1, <2>2, <2>3 DEF ArenaInv
<1>3. CASE AllocateFinish
  <2> DEFINE offset == ScanResult(scan, req)
             new    == Placed(req, offset)
  <2>1. /\ pc = "scan" /\ pc' = "idle" /\ stale' = TRUE
        /\ UNCHANGED bufferVars /\ written' = written \ {req.tensor}
        /\ high_water_mark' = IF high_water_mark < End(new)
                              THEN End(new) ELSE high_water_mark
        /\ allocs' = [allocs EXCEPT ![req.tensor] = new]
        /\ ptr' = [ptr EXCEPT ![req.tensor] = Null]
    BY <1>3 DEF AllocateFinish
  <2>2. req.tensor \in Tensors /\ req \in Request /\ scan \in Scan
        /\ ordered_allocs \in Seq(Alloc) /\ high_water_mark \in Nat
    BY <1>P, <2>1 DEF PlanInv, ScanInv, TypeOK
  <2>3. offset \in Nat
    BY <2>2, ScanResultProperties
  <2> HIDE DEF offset
  <2>4. new \in Alloc /\ new.tensor = req.tensor
    BY <2>2, <2>3, PlacedType DEF Placed
  <2> HIDE DEF new
  <2>5. PICK k \in 1 .. Len(ordered_allocs) + 1 :
             ordered_allocs' = InsertAt(ordered_allocs, k, new)
    BY <1>3 DEF AllocateFinish, new, offset
  <2>6. /\ Len(ordered_allocs') = Len(ordered_allocs) + 1
        /\ \A j \in 1 .. Len(ordered_allocs) + 1 :
              ordered_allocs'[j] = IF j < k THEN ordered_allocs[j]
                                   ELSE IF j = k THEN new ELSE ordered_allocs[j - 1]
    BY <2>2, <2>4, <2>5, InsertAtProperties
  <2>7. /\ high_water_mark' >= high_water_mark /\ high_water_mark' >= End(new)
        /\ high_water_mark' \in Nat /\ End(new) \in Nat
    BY <2>1, <2>2, <2>4 DEF Alloc, End
  <2>8. /\ allocs'[req.tensor] = new /\ ptr'[req.tensor] = Null
        /\ \A t \in Tensors \ {req.tensor} : allocs'[t] = allocs[t] /\ ptr'[t] = ptr[t]
    BY <1>P, <2>1, <2>2 DEF TypeOK
  <2>9. RoomInv'
    <3>1. ASSUME NEW j \in 1 .. Len(ordered_allocs')
          PROVE  End(ordered_allocs'[j]) <= high_water_mark'
      <4>1. CASE j = k
        BY <2>6, <2>7, <4>1
      <4>2. CASE j # k
        <5> DEFINE p == IF j < k THEN j ELSE j - 1
        <5>1. p \in 1 .. Len(ordered_allocs) /\ ordered_allocs'[j] = ordered_allocs[p]
          BY <2>6, <4>2
        <5> HIDE DEF p
        <5>2. End(ordered_allocs[p]) <= high_water_mark /\ End(ordered_allocs[p]) \in Nat
          BY <1>I, <2>2, <5>1, EntryFields DEF RoomInv
        <5> QED BY <2>2, <2>7, <5>1, <5>2
      <4> QED BY <4>1, <4>2
    <3> QED BY <2>1, <3>1 DEF RoomInv
  <2>10. ASSUME NEW t \in Tensors, allocs'[t].size > 0
         PROVE  /\ allocs'[t].tensor = t
                /\ End(allocs'[t]) <= high_water_mark'
                /\ \E i \in 1 .. Len(ordered_allocs') : ordered_allocs'[i] = allocs'[t]
    <3>1. CASE t = req.tensor
      BY <2>4, <2>6, <2>7, <2>8, <3>1
    <3>2. CASE t # req.tensor
      <4>1. /\ allocs[t].tensor = t /\ End(allocs[t]) <= high_water_mark
            /\ allocs'[t] = allocs[t]
        BY <1>I, <2>8, <2>10, <3>2 DEF RecordInv
      <4>2. PICK i \in 1 .. Len(ordered_allocs) : ordered_allocs[i] = allocs[t]
        BY <1>I, <2>1, <2>8, <2>10, <3>2 DEF RecordInv
      <4>3. \E j \in 1 .. Len(ordered_allocs') : ordered_allocs'[j] = ordered_allocs[i]
        <5> DEFINE q == IF i < k THEN i ELSE i + 1
        <5>1. q \in 1 .. Len(ordered_allocs') /\ ordered_allocs'[q] = ordered_allocs[i]
          BY <2>6
        <5> HIDE DEF q
        <5> QED BY <5>1
      <4>4. End(allocs[t]) \in Nat
        BY <1>R
      <4> QED BY <2>2, <2>7, <4>1, <4>2, <4>3, <4>4
    <3> QED BY <3>1, <3>2
  <2>11. RecordInv'
    BY <1>I, <2>1, <2>8, <2>10 DEF RecordInv
  <2>12. ResolvedInsideBuffer'
    BY <1>I, <2>1, <2>8 DEF ResolvedInsideBuffer, bufferVars
  <2>13. ContentsIntact'
    BY <1>I, <1>P, <2>1, <2>8 DEF ContentsIntact, bufferVars, Bytes, TypeOK
  <2> QED BY <1>P, <2>9, <2>11, <2>12, <2>13 DEF ArenaInv
<1>4. ASSUME NEW t \in Tensors, DeallocateStart(t) PROVE ArenaInv'
  <2>1. /\ UNCHANGED <<planVars, bufferVars, callerVars>>
        /\ pc = "idle" /\ pc' = "erase" /\ req'.tensor = t
    BY <1>4 DEF DeallocateStart, NoRequest
  <2>2. RoomInv'
    BY <1>I, <2>1 DEF RoomInv, RequiredBufferSize, planVars, bufferVars, callerVars
  <2>3. RecordInv'
    BY <1>I, <2>1 DEF RecordInv, planVars, callerVars
  <2>4. ResolvedInsideBuffer' /\ ContentsIntact'
    BY <1>I, <2>1 DEF ResolvedInsideBuffer, ContentsIntact, bufferVars, callerVars, Bytes
  <2> QED BY <1>P, <2>2, <2>3, <2>4 DEF ArenaInv
<1>5. CASE DeallocateErase
  <2>1. /\ UNCHANGED <<bufferVars, callerVars, high_water_mark, pc, req>>
        /\ pc = "erase" /\ it \in 1 .. Len(ordered_allocs) /\ ordered_allocs \in Seq(Alloc)
    BY <1>5, <1>P DEF DeallocateErase, TypeOK
  <2>2. ResolvedInsideBuffer' /\ ContentsIntact'
    BY <1>I, <2>1 DEF ResolvedInsideBuffer, ContentsIntact, bufferVars, callerVars, Bytes
  <2>3. CASE ordered_allocs' = ordered_allocs
    <3>1. RoomInv'
      BY <1>I, <2>1, <2>3 DEF RoomInv, RequiredBufferSize, bufferVars, callerVars
    <3>2. RecordInv'
      BY <1>I, <2>1, <2>3 DEF RecordInv, callerVars
    <3> QED BY <1>P, <2>2, <3>1, <3>2 DEF ArenaInv
  <2>4. CASE /\ ordered_allocs[it].tensor = req.tensor
             /\ ordered_allocs' = RemoveAt(ordered_allocs, it)
    <3>1. /\ Len(ordered_allocs') = Len(ordered_allocs) - 1
          /\ \A j \in 1 .. Len(ordered_allocs) - 1 :
                ordered_allocs'[j] = IF j < it THEN ordered_allocs[j]
                                     ELSE ordered_allocs[j + 1]
      BY <2>1, <2>4, RemoveAtProperties
    <3>2. \A j \in 1 .. Len(ordered_allocs') :
             \E p \in 1 .. Len(ordered_allocs) : ordered_allocs'[j] = ordered_allocs[p]
      BY <2>1, <3>1
    <3>3. ASSUME NEW i \in 1 .. Len(ordered_allocs), i # it
          PROVE  \E j \in 1 .. Len(ordered_allocs') : ordered_allocs'[j] = ordered_allocs[i]
      <4> DEFINE q == IF i < it THEN i ELSE i - 1
      <4>1. q \in 1 .. Len(ordered_allocs') /\ ordered_allocs'[q] = ordered_allocs[i]
        BY <2>1, <3>1, <3>3
      <4> HIDE DEF q
      <4> QED BY <4>1
    <3>4. RoomInv'
      BY <1>I, <2>1, <3>2 DEF RoomInv, RequiredBufferSize, bufferVars, callerVars
    <3>5. RecordInv'
      BY <1>I, <2>1, <2>4, <3>3 DEF RecordInv, callerVars
    <3> QED BY <1>P, <2>2, <3>4, <3>5 DEF ArenaInv
  <2> QED BY <1>5, <2>3, <2>4 DEF DeallocateErase
<1>6. CASE DeallocateFinish
  <2>1. /\ UNCHANGED <<planVars, bufferVars, stale>> /\ pc = "erase" /\ pc' = "idle"
        /\ written' = written \ {req.tensor}
    BY <1>6 DEF DeallocateFinish
  <2>2. /\ req.tensor \in Tensors
        /\ allocs'[req.tensor].size = 0 /\ ptr'[req.tensor] = Null
        /\ \A t \in Tensors \ {req.tensor} : allocs'[t] = allocs[t] /\ ptr'[t] = ptr[t]
    BY <1>6, <1>P, <1>I DEF DeallocateFinish, TypeOK, ResetAlloc, RecordInv
  <2>3. RoomInv'
    BY <1>I, <2>1 DEF RoomInv, RequiredBufferSize, planVars, bufferVars
  <2>4. RecordInv'
    BY <1>I, <2>1, <2>2 DEF RecordInv, planVars
  <2>5. ResolvedInsideBuffer'
    BY <1>I, <2>1, <2>2 DEF ResolvedInsideBuffer, bufferVars
  <2>6. ContentsIntact'
    BY <1>I, <1>P, <2>1, <2>2 DEF ContentsIntact, bufferVars, Bytes, TypeOK
  <2> QED BY <1>P, <2>3, <2>4, <2>5, <2>6 DEF ArenaInv
<1>7. CASE CommitGrow
  <2>1. /\ UNCHANGED <<planVars, loopVars, allocs, written>> /\ pc = "idle"
        /\ underlying_buffer_size' = RequiredBufferSize
    BY <1>7 DEF CommitGrow
  <2>2. \A t \in Tensors : ptr'[t] = Null
    BY <1>7 DEF CommitGrow
  <2>3. PICK gap \in 0 .. ArenaAlignment - 1 :
             memory' = Copied(RequiredBufferSize, gap)
    BY <1>7 DEF CommitGrow
  <2>4. /\ high_water_mark \in Nat /\ underlying_buffer_size \in Nat
        /\ slack \in 0 .. ArenaAlignment - 1
        /\ DOMAIN memory = 0 .. underlying_buffer_size - slack - 1
    BY <1>P DEF TypeOK
  <2>5. RoomInv'
    <3>1. RequiredBufferSize' = RequiredBufferSize /\ RequiredBufferSize \in Nat
      BY <2>1, <2>4 DEF RequiredBufferSize, planVars
    <3>2. underlying_buffer_size' >= RequiredBufferSize'
      BY <2>1, <3>1
    <3> QED BY <1>I, <2>1, <3>2 DEF RoomInv, planVars
  <2>6. RecordInv'
    BY <1>I, <2>1, <2>2 DEF RecordInv, planVars, loopVars
  <2>7. ResolvedInsideBuffer'
    BY <2>2 DEF ResolvedInsideBuffer
  <2>8. ASSUME NEW t \in written, NEW b \in Bytes(allocs[t])
        PROVE  b \in DOMAIN memory' /\ memory'[b] = t
    <3>1. t \in Tensors
      BY <1>P DEF TypeOK
    <3>2. /\ allocs[t].offset \in Nat /\ allocs[t].size \in Nat
          /\ End(allocs[t]) = allocs[t].offset + allocs[t].size
      BY <1>R, <3>1
    <3>3. allocs[t].size > 0 /\ End(allocs[t]) <= high_water_mark
      BY <1>I, <3>1 DEF RecordInv
    <3>4. b \in Nat /\ b < high_water_mark
      BY <2>4, <3>2, <3>3 DEF Bytes
    <3>5. b \in DOMAIN memory /\ memory[b] = t
      BY <1>I DEF ContentsIntact
    <3>6. b < underlying_buffer_size - slack /\ underlying_buffer_size > 0
      BY <2>4, <3>4, <3>5
    <3>7. b < RequiredBufferSize - gap
      BY <2>4, <3>4 DEF RequiredBufferSize
    <3>8. b < CopyAmount(RequiredBufferSize, gap)
      BY <2>4, <3>4, <3>6, <3>7 DEF CopyAmount, RequiredBufferSize
    <3>9. b \in 0 .. RequiredBufferSize - gap - 1
      BY <2>4, <3>4, <3>7 DEF RequiredBufferSize
    <3>10. DOMAIN memory' = 0 .. RequiredBufferSize - gap - 1 /\ memory'[b] = memory[b]
      BY <2>3, <3>8, <3>9 DEF Copied
    <3> QED BY <3>5, <3>9, <3>10
  <2>9. ContentsIntact'
    BY <2>1, <2>8 DEF ContentsIntact, Bytes
  <2> QED BY <1>P, <2>5, <2>6, <2>7, <2>9 DEF ArenaInv
<1>8. CASE CommitKeep
  <2>1. /\ UNCHANGED <<planVars, underlying_buffer_size, slack, memory, loopVars,
                       allocs, ptr, written>>
        /\ RequiredBufferSize <= underlying_buffer_size
    BY <1>8 DEF CommitKeep
  <2>2. RoomInv'
    <3>1. RequiredBufferSize' = RequiredBufferSize /\ RequiredBufferSize \in Nat
          /\ underlying_buffer_size \in Nat
      BY <1>P, <2>1 DEF RequiredBufferSize, planVars, TypeOK
    <3>2. underlying_buffer_size' >= RequiredBufferSize'
      BY <2>1, <3>1
    <3> QED BY <1>I, <2>1, <3>2 DEF RoomInv, planVars
  <2>3. RecordInv'
    BY <1>I, <2>1 DEF RecordInv, planVars, loopVars
  <2>4. ResolvedInsideBuffer' /\ ContentsIntact'
    BY <1>I, <2>1 DEF ResolvedInsideBuffer, ContentsIntact, Bytes
  <2> QED BY <1>P, <2>2, <2>3, <2>4 DEF ArenaInv
<1>9. ASSUME NEW t \in Tensors, ResolveAlloc(t) PROVE ArenaInv'
  <2>1. /\ UNCHANGED <<planVars, bufferVars, loopVars, allocs, stale, written>>
        /\ committed /\ ~stale
        /\ ptr'[t] = IF allocs[t].size = 0 THEN Null ELSE allocs[t].offset
        /\ \A u \in Tensors \ {t} : ptr'[u] = ptr[u]
    BY <1>9, <1>P DEF ResolveAlloc, TypeOK
  <2>2. RoomInv'
    BY <1>I, <2>1 DEF RoomInv, RequiredBufferSize, planVars, bufferVars
  <2>3. RecordInv'
    BY <1>I, <1>R, <2>1 DEF RecordInv, planVars, loopVars
  <2>4. ptr'[t] # Null => ptr'[t] + allocs[t].size <= underlying_buffer_size - slack
    <3>1. /\ high_water_mark \in Nat /\ underlying_buffer_size \in Nat
          /\ slack \in 0 .. ArenaAlignment - 1
      BY <1>P DEF TypeOK
    <3>2. underlying_buffer_size >= RequiredBufferSize
      BY <1>I, <2>1 DEF RoomInv
    <3>3. allocs[t].size > 0 => End(allocs[t]) <= high_water_mark
      BY <1>I DEF RecordInv
    <3> QED BY <1>R, <2>1, <3>1, <3>2, <3>3 DEF RequiredBufferSize
  <2>5. ResolvedInsideBuffer'
    BY <1>I, <2>1, <2>4 DEF ResolvedInsideBuffer, bufferVars
  <2>6. ContentsIntact'
    BY <1>I, <2>1 DEF ContentsIntact, bufferVars, Bytes
  <2> QED BY <1>P, <2>2, <2>3, <2>5, <2>6 DEF ArenaInv
<1>10. ASSUME NEW t \in Tensors, Write(t) PROVE ArenaInv'
  <2>1. /\ UNCHANGED <<planVars, committed, underlying_buffer_size, slack,
                       loopVars, allocs, ptr, stale>>
        /\ pc = "idle" /\ ptr[t] # Null
        /\ memory' = [b \in DOMAIN memory |->
                         IF b \in ptr[t] .. ptr[t] + allocs[t].size - 1
                         THEN t ELSE memory[b]]
        /\ written' = {u \in written : ~Apart(allocs[u], allocs[t])} \cup {t}
    BY <1>10 DEF Write
  <2>2. allocs[t].size > 0 /\ ptr[t] = allocs[t].offset
    BY <1>I, <2>1 DEF RecordInv
  <2>3. RoomInv'
    BY <1>I, <2>1 DEF RoomInv, RequiredBufferSize, planVars
  <2>4. RecordInv'
    BY <1>I, <2>1, <2>2 DEF RecordInv, planVars, loopVars
  <2>5. ResolvedInsideBuffer'
    BY <1>I, <2>1 DEF ResolvedInsideBuffer
  <2>6. ASSUME NEW u \in written', NEW b \in Bytes(allocs[u])
        PROVE  b \in DOMAIN memory' /\ memory'[b] = u
    <3>1. CASE u = t
      <4>1. b \in ptr[t] .. ptr[t] + allocs[t].size - 1
        BY <1>R, <2>2, <3>1 DEF Bytes
      <4>2. /\ ptr[t] + allocs[t].size <= underlying_buffer_size - slack
            /\ underlying_buffer_size - slack \in Int
            /\ DOMAIN memory = 0 .. underlying_buffer_size - slack - 1
        BY <1>I, <1>P, <2>1 DEF ResolvedInsideBuffer, TypeOK
      <4>3. b \in DOMAIN memory
        BY <1>R, <2>2, <4>1, <4>2
      <4> QED BY <2>1, <3>1, <4>1, <4>3
    <3>2. CASE u # t
      <4>1. u \in written /\ ~Apart(allocs[u], allocs[t]) /\ u \in Tensors
        BY <1>P, <2>1, <3>2 DEF TypeOK
      <4>2. b \in DOMAIN memory /\ memory[b] = u
        BY <1>I, <4>1 DEF ContentsIntact
      <4>3. allocs[u].size > 0 /\ allocs[u].tensor = u /\ allocs[t].tensor = t
        BY <1>I, <2>2, <4>1 DEF RecordInv
      <4>4. PICK i \in 1 .. Len(ordered_allocs) : ordered_allocs[i] = allocs[u]
        BY <1>I, <2>1, <4>1, <4>3 DEF RecordInv
      <4>5. PICK j \in 1 .. Len(ordered_allocs) : ordered_allocs[j] = allocs[t]
        BY <1>I, <2>1, <2>2 DEF RecordInv
      <4>6. i # j
        BY <3>2, <4>3, <4>4, <4>5
      <4>7. \/ End(allocs[u]) <= allocs[t].offset
            \/ End(allocs[t]) <= allocs[u].offset
        BY <1>P, <4>1, <4>4, <4>5, <4>6 DEF PlanInv, NoOverlap
      <4>8. b \notin ptr[t] .. ptr[t] + allocs[t].size - 1
        <5>1. /\ End(allocs[u]) = allocs[u].offset + allocs[u].size
              /\ End(allocs[t]) = allocs[t].offset + allocs[t].size
              /\ allocs[u].offset \in Nat /\ allocs[u].size \in Nat
              /\ allocs[t].offset \in Nat /\ allocs[t].size \in Nat
          BY <1>R, <4>1
        <5>2. b \in allocs[u].offset .. allocs[u].offset + allocs[u].size - 1
          BY <5>1 DEF Bytes
        <5>3. \/ allocs[u].offset + allocs[u].size <= allocs[t].offset
              \/ allocs[t].offset + allocs[t].size <= allocs[u].offset
          BY <4>7, <5>1
        <5> QED BY <2>2, <5>1, <5>2, <5>3, DisjointIntervals
      <4> QED BY <2>1, <4>2, <4>8
    <3> QED BY <3>1, <3>2
  <2>7. ContentsIntact'
    BY <2>1, <2>6 DEF ContentsIntact, Bytes
  <2> QED BY <1>P, <2>3, <2>4, <2>5, <2>7 DEF ArenaInv
<1>11. CASE ClearPlan
  <2>1. /\ ordered_allocs' = <<>> /\ committed' = FALSE /\ written' = {} /\ pc' = "idle"
    BY <1>11 DEF ClearPlan, loopVars
  <2>2. \A t \in Tensors : ptr'[t] = Null /\ allocs'[t].size = 0
    BY <1>11 DEF ClearPlan, ResetAlloc
  <2>3. RoomInv'
    BY <2>1 DEF RoomInv
  <2>4. RecordInv'
    BY <2>1, <2>2 DEF RecordInv
  <2>5. ResolvedInsideBuffer' /\ ContentsIntact'
    BY <2>1, <2>2 DEF ResolvedInsideBuffer, ContentsIntact
  <2> QED BY <1>P, <2>3, <2>4, <2>5 DEF ArenaInv
<1>12. CASE ReleaseBuffer
  <2>1. /\ UNCHANGED <<planVars, loopVars, allocs, stale>>
        /\ committed' = FALSE /\ written' = {}
    BY <1>12 DEF ReleaseBuffer
  <2>2. \A t \in Tensors : ptr'[t] = Null
    BY <1>12 DEF ReleaseBuffer
  <2>3. RoomInv'
    BY <1>I, <2>1 DEF RoomInv, planVars
  <2>4. RecordInv'
    BY <1>I, <2>1, <2>2 DEF RecordInv, planVars, loopVars
  <2>5. ResolvedInsideBuffer' /\ ContentsIntact'
    BY <2>1, <2>2 DEF ResolvedInsideBuffer, ContentsIntact
  <2> QED BY <1>P, <2>3, <2>4, <2>5 DEF ArenaInv
<1>13. CASE UNCHANGED vars
  <2>1. RoomInv' /\ RecordInv'
    BY <1>I, <1>13 DEF RoomInv, RecordInv, RequiredBufferSize, vars, planVars,
                       bufferVars, loopVars, callerVars
  <2>2. ResolvedInsideBuffer' /\ ContentsIntact'
    BY <1>I, <1>13 DEF ResolvedInsideBuffer, ContentsIntact, vars, bufferVars,
                       callerVars, Bytes
  <2> QED BY <1>P, <2>1, <2>2 DEF ArenaInv
<1>14. ASSUME NEW r \in Requests, AllocateStart(r) PROVE ArenaInv'
  BY <1>2, <1>14 DEF AllocateStart
<1>15. CASE AllocateScan
  BY <1>2, <1>15 DEF AllocateScan
<1> QED BY <1>1, <1>3, <1>4, <1>5, <1>6, <1>7, <1>8, <1>9, <1>10, <1>11,
           <1>12, <1>13, <1>14, <1>15 DEF Next, PlanNext

-----------------------------------------------------------------------------
(* Every step of the arena keeps the type invariant.                       *)
THEOREM TypeCorrect == Spec => []TypeOK
BY TypeInit, TypeStep, PTL DEF Spec

(* The plan of the arena is sound for plans of any length: ordered_allocs  *)
(* stays sorted, and two allocations whose usage intervals meet are        *)
(* disjoint, whatever Allocate, Deallocate and ClearPlan were called with. *)
THEOREM PlanSafe == Spec => [](SortedByOffset /\ NoOverlap)
<1>1. PlanInv => SortedByOffset /\ NoOverlap
  BY DEF PlanInv
<1> QED BY <1>1, PlanInit, PlanStep, PTL DEF Spec

(* A pointer that ResolveAlloc returned after Commit stays inside the      *)
(* buffer, whatever alignment the buffer happened to have.                 *)
THEOREM ResolvedSafe == Spec => []ResolvedInsideBuffer
<1>1. ArenaInv => ResolvedInsideBuffer
  BY DEF ArenaInv
<1> QED BY <1>1, ArenaInit, ArenaStep, PTL DEF Spec

(* The value of a tensor survives the writes to tensors in use at the same *)
(* time and every growth of the buffer in Commit.                          *)
THEOREM ContentsSafe == Spec => []ContentsIntact
<1>1. ArenaInv => ContentsIntact
  BY DEF ArenaInv
<1> QED BY <1>1, ArenaInit, ArenaStep, PTL DEF Spec
=============================================================================
