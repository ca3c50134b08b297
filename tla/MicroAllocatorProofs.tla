------------------------- MODULE MicroAllocatorProofs -------------------------
(***************************************************************************)
(* Proofs about SimpleMemoryAllocator and MicroAllocator, for every arena, *)
(* alignment, width of size_t, number of models and sizes.                 *)
(*                                                                         *)
(* Of SimpleMemoryAllocator the conjunction of AllocatorTypeOK,            *)
(* SectionsApart and TempsChained is inductive: what a call may reach is   *)
(* decided by head and tail alone, and alignment only ever moves a tail    *)
(* down and a temporary block up.  MicroAllocator uses it by its           *)
(* operations only, whatever fails, and between allocations no memory is   *)
(* handed out inside the plan of a model.                                  *)
(***************************************************************************)
EXTENDS MicroAllocator, SequenceTheorems, TLAPS

(* The multiple of a below p, and how far below.                           *)
LEMMA DivBounds ==
    ASSUME NEW p \in Int, NEW a \in Nat \ {0}
    PROVE  /\ p \div a \in Int
           /\ (p \div a) * a \in Int
           /\ (p \div a) * a <= p
           /\ p < (p \div a) * a + a
  OBVIOUS

(* AlignPointerDown never goes up, whatever the alignment.                 *)
LEMMA AlignedDown ==
    ASSUME NEW p \in Int, NEW a \in Nat \ {0}
    PROVE  AlignPointerDown(p, a) \in Int /\ AlignPointerDown(p, a) <= p
  BY DivBounds DEF AlignPointerDown

(* AlignPointerUp never goes down.                                         *)
LEMMA AlignedUp ==
    ASSUME NEW p \in Int, NEW a \in Nat \ {0}
    PROVE  AlignPointerUp(p, a) \in Int /\ AlignPointerUp(p, a) >= p
<1>1. p + (a - 1) \in Int
  OBVIOUS
<1>2. /\ p + (a - 1) < ((p + (a - 1)) \div a) * a + a
      /\ ((p + (a - 1)) \div a) * a \in Int
  BY <1>1, DivBounds
<1> QED BY <1>2 DEF AlignPointerUp

(* An address that is aligned stays where it is.                           *)
LEMMA AlignedStays ==
    ASSUME NEW p \in Nat, NEW a \in Nat \ {0}, p % a = 0
    PROVE  AlignPointerUp(p, a) = p
<1> DEFINE q == p \div a
           r == (p + (a - 1)) \div a
<1>1. q \in Int /\ q * a = p
  OBVIOUS
<1>2. r \in Int /\ r * a \in Int /\ r * a <= p + (a - 1) /\ p + (a - 1) < r * a + a
  BY DivBounds
<1> HIDE DEF q, r
<1>3. (r - q) * a = r * a - q * a
  BY <1>1, <1>2
<1>4. r - q \in Int /\ (r - q) * a < a /\ (r - q) * a > -1
  BY <1>1, <1>2, <1>3
<1>5. r - q = 0
  BY <1>4
<1> QED BY <1>1, <1>2, <1>5 DEF AlignPointerUp, r

-----------------------------------------------------------------------------
AllocatorInv == AllocatorTypeOK /\ SectionsApart /\ TempsChained

(* SetHeadBufferSize keeps the invariant: the head section starts where    *)
(* the buffer does, and ends below the tail.                               *)
LEMMA SetHeadKeeps ==
    ASSUME AllocatorInv, NEW size \in Sizes, NEW a \in Alignments, SetHeadBufferSize(size, a)
    PROVE  AllocatorInv'
<1> USE AllocatorAssumption
<1>1. AlignPointerUp(BufferHead, a) = BufferHead
  BY AlignedStays
<1>2. /\ head \in Nat /\ tail \in Nat /\ BufferHead <= tail /\ tail <= BufferTail
      /\ size \in Nat
  BY DEF AllocatorInv, AllocatorTypeOK, Sizes
<1>3. (tail - BufferHead) % Modulus = tail - BufferHead
  BY <1>2
<1>4. head' = BufferHead + size /\ head' <= tail /\ temp' = head'
  BY <1>1, <1>2, <1>3 DEF SetHeadBufferSize, HeadFits, Available
<1>5. AllocatorTypeOK'
  BY <1>2, <1>4 DEF AllocatorInv, AllocatorTypeOK, SetHeadBufferSize
<1>6. SectionsApart'
  BY <1>2, <1>4 DEF AllocatorInv, SectionsApart, SetHeadBufferSize
<1>7. TempsChained'
  BY <1>2, <1>4 DEF TempsChained, SetHeadBufferSize
<1> QED BY <1>5, <1>6, <1>7 DEF AllocatorInv

(* AllocateFromTail keeps it: the new block ends at or below the old tail. *)
LEMMA FromTailKeeps ==
    ASSUME AllocatorInv, NEW size \in TailSizes, NEW a \in Alignments, AllocateFromTail(size, a)
    PROVE  AllocatorInv'
<1> DEFINE at  == AlignPointerDown(tail - size, a)
           new == Block(at, size)
<1>1. /\ head \in Nat /\ tail \in Nat /\ temp \in Nat /\ tail <= BufferTail
      /\ BufferTail \in Nat /\ BufferHead \in Nat /\ BufferHead <= head /\ size \in Nat /\ a \in Nat \ {0}
  BY AllocatorAssumption DEF AllocatorInv, AllocatorTypeOK, TailSizes
<1>2. /\ persistent' = persistent \cup {new} /\ tail' = at
      /\ head' = head /\ temp' = temp /\ temps' = temps
  BY DEF AllocateFromTail
<1>3. at \in Nat /\ at + size \in Nat /\ at + size <= tail /\ at <= tail /\ head <= at
  <2>1. head <= at
    BY DEF AllocateFromTail, TailFits
  <2>2. tail - size \in Int
    BY <1>1
  <2>3. at \in Int /\ at <= tail - size
    BY <1>1, <2>2, AlignedDown
  <2> HIDE DEF at
  <2> QED BY <1>1, <2>1, <2>3
<1> HIDE DEF at
<1>4. new \in BlockType /\ new.start = at /\ new.end = at + size
  BY <1>3 DEF Block, BlockType
<1> HIDE DEF new
<1>5. AllocatorTypeOK'
  BY <1>1, <1>2, <1>3, <1>4 DEF AllocatorInv, AllocatorTypeOK
<1>6. \A p \in persistent : /\ p.start \in Nat /\ p.end \in Nat
                            /\ tail <= p.start /\ p.start <= p.end /\ p.end <= BufferTail
  BY DEF AllocatorInv, AllocatorTypeOK, SectionsApart, BlockType
<1>7. ASSUME NEW p \in persistent'
      PROVE  tail' <= p.start /\ p.start <= p.end /\ p.end <= BufferTail
  <2>1. CASE p \in persistent
    BY <2>1, <1>1, <1>2, <1>3, <1>6
  <2>2. CASE p = new
    BY <2>2, <1>1, <1>2, <1>3, <1>4
  <2> QED BY <2>1, <2>2, <1>2
<1>8. ASSUME NEW p \in persistent', NEW q \in persistent', p # q
      PROVE  Apart(p, q)
  <2>1. CASE p \in persistent /\ q \in persistent
    BY <2>1, <1>8 DEF AllocatorInv, SectionsApart
  <2>2. CASE p = new /\ q \in persistent
    BY <2>2, <1>1, <1>3, <1>4, <1>6 DEF Apart
  <2>3. CASE p \in persistent /\ q = new
    BY <2>3, <1>1, <1>3, <1>4, <1>6 DEF Apart
  <2> QED BY <2>1, <2>2, <2>3, <1>2, <1>8
<1>9. SectionsApart'
  BY <1>1, <1>2, <1>3, <1>7, <1>8 DEF SectionsApart, AllocatorInv, Apart
<1>10. TempsChained'
  BY <1>2 DEF AllocatorInv, TempsChained, Apart
<1> QED BY <1>5, <1>9, <1>10 DEF AllocatorInv

(* AllocateTemp keeps it: the new block starts at or above the old end of  *)
(* the chain, wherever the tail is, or it ends past the address space.     *)
LEMMA TempKeeps ==
    ASSUME AllocatorInv, NEW size \in Sizes, NEW a \in Alignments, AllocateTemp(size, a)
    PROVE  AllocatorInv'
<1> DEFINE at  == AlignPointerUp(temp, a)
           new == Block(at, size)
<1>1. /\ temp \in Nat /\ head \in Nat /\ size \in Nat /\ a \in Nat \ {0}
      /\ Modulus \in Nat \ {0}
  BY AllocatorAssumption DEF AllocatorInv, AllocatorTypeOK, Sizes
<1>2. at \in Nat /\ temp <= at
  BY <1>1, AlignedUp
<1>3. /\ temp' = (at + size) % Modulus /\ temps' = temps \cup {new}
      /\ head' = head /\ tail' = tail /\ persistent' = persistent
  BY DEF AllocateTemp
<1> HIDE DEF at
<1>4. new \in BlockType /\ new.start = at /\ new.end = at + size /\ at + size \in Nat
  BY <1>1, <1>2 DEF Block, BlockType
<1> HIDE DEF new
<1>5. AllocatorTypeOK'
  <2>1. (at + size) % Modulus \in Nat
    BY <1>1, <1>4
  <2> QED BY <2>1, <1>3, <1>4 DEF AllocatorInv, AllocatorTypeOK
<1>6. SectionsApart'
  BY <1>3 DEF AllocatorInv, SectionsApart, Apart
<1>7. TempsChained'
  <2> SUFFICES ASSUME \A t \in temps' : t.end < Modulus
               PROVE  /\ head <= temp'
                      /\ \A t \in temps' : head <= t.start /\ t.start <= t.end /\ t.end <= temp'
                      /\ \A t, u \in temps' : t # u => Apart(t, u)
    BY <1>3 DEF TempsChained, Apart
  <2>1. at + size < Modulus
    BY <1>3, <1>4
  <2>2. temp' = at + size
    BY <1>1, <1>3, <1>4, <2>1
  <2>3. /\ head <= temp
        /\ \A t \in temps : /\ t.start \in Nat /\ t.end \in Nat
                          /\ head <= t.start /\ t.start <= t.end /\ t.end <= temp
        /\ \A t, u \in temps : t # u => Apart(t, u)
    BY <1>3 DEF AllocatorInv, AllocatorTypeOK, TempsChained, BlockType
  <2>4. ASSUME NEW t \in temps'
        PROVE  head <= t.start /\ t.start <= t.end /\ t.end <= temp'
    <3>1. CASE t \in temps
      BY <3>1, <1>1, <1>2, <2>2, <2>3
    <3>2. CASE t = new
      BY <3>2, <1>1, <1>2, <1>4, <2>2, <2>3
    <3> QED BY <3>1, <3>2, <1>3
  <2>5. ASSUME NEW t \in temps', NEW u \in temps', t # u
        PROVE  Apart(t, u)
    <3>1. CASE t \in temps /\ u \in temps
      BY <3>1, <2>3, <2>5
    <3>2. CASE t = new /\ u \in temps
      BY <3>2, <1>1, <1>2, <1>4, <2>3 DEF Apart
    <3>3. CASE t \in temps /\ u = new
      BY <3>3, <1>1, <1>2, <1>4, <2>3 DEF Apart
    <3> QED BY <3>1, <3>2, <3>3, <1>3, <2>5
  <2>6. head <= temp'
    BY <1>1, <1>2, <2>2, <2>3
  <2> QED BY <2>4, <2>5, <2>6
<1> QED BY <1>5, <1>6, <1>7 DEF AllocatorInv

(* ResetTempAllocations keeps it.                                          *)
LEMMA ResetKeeps ==
    ASSUME AllocatorInv, ResetTempAllocations
    PROVE  AllocatorInv'
  BY AllocatorAssumption
     DEF AllocatorInv, AllocatorTypeOK, SectionsApart, TempsChained, Apart, ResetTempAllocations

(* So does every step.                                                     *)
LEMMA StepKeeps ==
    ASSUME AllocatorInv, [AllocatorNext]_arena
    PROVE  AllocatorInv'
<1>1. ASSUME NEW size \in Sizes, NEW a \in Alignments, SetHeadBufferSize(size, a)
      PROVE  AllocatorInv'
  BY <1>1, SetHeadKeeps
<1>2. ASSUME NEW size \in Sizes, NEW a \in Alignments, AllocateTemp(size, a)
      PROVE  AllocatorInv'
  BY <1>2, TempKeeps
<1>3. ASSUME NEW size \in TailSizes, NEW a \in Alignments, AllocateFromTail(size, a)
      PROVE  AllocatorInv'
  BY <1>3, FromTailKeeps
<1>4. CASE ResetTempAllocations
  BY <1>4, ResetKeeps
<1>5. CASE UNCHANGED arena
  BY <1>5 DEF arena, AllocatorInv, AllocatorTypeOK, SectionsApart, TempsChained, Apart
<1> QED BY <1>1, <1>2, <1>3, <1>4, <1>5 DEF AllocatorNext

(* A new arena satisfies the invariant.                                    *)
LEMMA AllocatorStart == AllocatorInit => AllocatorInv
  BY AllocatorAssumption DEF AllocatorInit, AllocatorInv, AllocatorTypeOK, SectionsApart, TempsChained

(* Whatever calls are made in whatever order (AllocateFromTail,            *)
(* SetHeadBufferSize, AllocateTemp, ResetTempAllocations): head and tail   *)
(* sections are in the buffer and apart, and temporary blocks are a chain  *)
(* behind the head section.                                                *)
THEOREM AllocatorSafe == AllocatorSpec => [](AllocatorTypeOK /\ SectionsApart /\ TempsChained)
<1>1. AllocatorInit => AllocatorInv
  BY AllocatorStart
<1>2. AllocatorInv /\ [AllocatorNext]_arena => AllocatorInv'
  BY StepKeeps
<1>3. AllocatorInv => AllocatorTypeOK /\ SectionsApart /\ TempsChained
  BY DEF AllocatorInv
<1> QED BY <1>1, <1>2, <1>3, PTL DEF AllocatorSpec

(* head_ and tail_ never leave the buffer.                                 *)
THEOREM AllocatorTypeCorrect == AllocatorSpec => []AllocatorTypeOK
  BY AllocatorSafe, PTL

-----------------------------------------------------------------------------
(* Calls of SimpleMemoryAllocator with sizes that MicroAllocator has are   *)
(* its steps.                                                              *)
LEMMA SetHeadIsStep ==
    ASSUME AllocatorInv, NEW size \in Nat, NEW a \in Alignments, SetHeadBufferSize(size, a)
    PROVE  AllocatorNext
<1>1. AlignPointerUp(BufferHead, a) \in Int /\ tail \in Int /\ Modulus \in Nat \ {0}
  BY AllocatorAssumption, MicroAssumption DEF AllocatorInv, AllocatorTypeOK, AlignPointerUp
<1>2. Available(AlignPointerUp(BufferHead, a)) \in 0 .. (Modulus - 1)
  BY <1>1 DEF Available
<1>3. size \in Sizes
  BY <1>1, <1>2 DEF SetHeadBufferSize, HeadFits, Sizes
<1> QED BY <1>3 DEF AllocatorNext

(* A temporary block of any size that fits is a step of the allocator.     *)
LEMMA TempIsStep ==
    ASSUME AllocatorInv, NEW size \in Nat, NEW a \in Alignments, AllocateTemp(size, a)
    PROVE  AllocatorNext
<1>1. AlignPointerUp(temp, a) \in Int /\ tail \in Int /\ Modulus \in Nat \ {0}
  BY AllocatorAssumption, MicroAssumption DEF AllocatorInv, AllocatorTypeOK, AlignPointerUp
<1>2. Available(AlignPointerUp(temp, a)) \in 0 .. (Modulus - 1)
  BY <1>1 DEF Available
<1>3. size \in Sizes
  BY <1>1, <1>2 DEF AllocateTemp, TempFits, Sizes
<1> QED BY <1>3 DEF AllocatorNext

(* A persistent block below the address of the buffer is one.              *)
LEMMA TailIsStep ==
    ASSUME NEW size \in 0 .. BufferHead, NEW a \in Alignments, AllocateFromTail(size, a)
    PROVE  AllocatorNext
  BY DEF AllocatorNext, TailSizes

-----------------------------------------------------------------------------
InterpType == [init_ok : BOOLEAN, allocated : BOOLEAN, eval : {"null", "unplanned", "planned"}]

(* The part of TypeOK that says what the interpreters have.                *)
MicroType ==
    /\ cur \in Models /\ node \in 1 .. NumNodes
    /\ allocating \in BOOLEAN /\ max_head \in Nat
    /\ requests \in Seq(0 .. NumNodes) /\ Len(requests) <= MaxRequests
    /\ interp \in [Models -> InterpType]

(* The sizes that are asked for.                                           *)
LEMMA SizesFit ==
    ASSUME MicroType
    PROVE  /\ \A s \in DOMAIN Size : Size[s] \in 0 .. BufferHead
           /\ {"request", "eval", "nodes", "buffer", "handle", "info", "planner", "tensor"} = DOMAIN Size
           /\ \A s \in DOMAIN Size : Size[s] \in Nat
           /\ Size["request"] * MaxScratch \in Nat
           /\ Size["request"] * (Len(requests) + MaxScratch) \in Nat
           /\ Size["handle"] * Len(requests) \in 0 .. BufferHead
           /\ HeadUsage \in Nat
           /\ VarBytes[cur] \in 0 .. BufferHead
           /\ {BufferAlign, StructAlign} \subseteq Alignments
<1>1. /\ BufferHead \in Nat /\ MaxScratch \in Nat /\ MaxRequests \in Nat
      /\ {BufferAlign, StructAlign} \subseteq Alignments
      /\ VarBytes[cur] \in 0 .. BufferHead /\ PlanBytes[cur] \in Nat
  BY AllocatorAssumption, MicroAssumption DEF MicroType
<1>2. /\ DOMAIN Size = {"request", "eval", "nodes", "buffer", "handle", "info", "planner", "tensor"}
      /\ \A s \in DOMAIN Size : Size[s] \in 0 .. BufferHead
  BY AllocatorAssumption, MicroAssumption
<1>3. Len(requests) \in 0 .. MaxRequests
  BY <1>1 DEF MicroType
<1>4. \A s \in DOMAIN Size : Size[s] \in Nat
  BY <1>1, <1>2
<1>5. Size["request"] \in Nat /\ Size["handle"] \in Nat
  BY <1>2, <1>4
<1>6. Size["request"] * MaxScratch \in Nat /\ Size["request"] * (Len(requests) + MaxScratch) \in Nat
  BY <1>1, <1>3, <1>5
<1>7. Size["handle"] * Len(requests) <= BufferHead
  BY <1>3, AllocatorAssumption, MicroAssumption
<1>8. Size["handle"] * Len(requests) \in Nat
  BY <1>3, <1>5, <1>1
<1>9. Size["handle"] * Len(requests) \in 0 .. BufferHead
  BY <1>1, <1>7, <1>8
<1>10. HeadUsage \in Nat
  BY <1>1 DEF HeadUsage, MicroType
<1> QED BY <1>1, <1>2, <1>4, <1>6, <1>9, <1>10

(* Each step makes one call of the arena, or none.                         *)
LEMMA StepUsesArena ==
    ASSUME AllocatorInv, MicroType, [Next]_vars
    PROVE  [AllocatorNext]_arena
<1> DEFINE Idle == UNCHANGED arena
<1>0. Idle => [AllocatorNext]_arena
  BY DEF arena
<1>1. ASSUME NEW m \in Models, CallAllocateTensors(m) \/ CallInvoke(m)
      PROVE  Idle
  BY <1>1 DEF CallAllocateTensors, CallInvoke, AllocateTensors, arena
<1>2. CASE InitScratchBufferData
  BY <1>0, <1>2, SizesFit, SetHeadIsStep DEF InitScratchBufferData
<1>3. CASE AllocateTfLiteEvalTensors
  BY <1>0, <1>3, SizesFit, TailIsStep DEF AllocateTfLiteEvalTensors
<1>4. CASE AllocateNodes
  BY <1>0, <1>4, SizesFit, TailIsStep DEF AllocateNodes
<1>5. CASE KernelGetTensor
  BY <1>0, <1>5, SizesFit, TempIsStep DEF KernelGetTensor
<1>6. CASE KernelPersistentBuffer
  BY <1>0, <1>6, SizesFit, TailIsStep DEF KernelPersistentBuffer, Fails
<1>7. CASE RequestScratchBufferInArena \/ PrepareFails
  BY <1>0, <1>7 DEF RequestScratchBufferInArena, PrepareFails, Fails
<1>8. CASE PrepareReturns \/ ResetPlanner \/ InvokeNode
  BY <1>8 DEF PrepareReturns, ResetPlanner, InvokeNode, AllocatorNext
<1>9. CASE FinishPrepareNodeAllocations
  BY <1>0, <1>9, SizesFit, SetHeadIsStep DEF FinishPrepareNodeAllocations
<1>10. CASE AllocateScratchBufferHandles
  BY <1>0, <1>10, SizesFit, TailIsStep DEF AllocateScratchBufferHandles
<1>11. CASE AllocateInfo
  BY <1>0, <1>11, SizesFit, TempIsStep DEF AllocateInfo, Fails
<1>12. CASE AllocatePlanner
  <2>1. GetAvailableMemory(BufferAlign) \in Nat
    <3>1. /\ AlignPointerDown(tail, BufferAlign) \in Int
          /\ AlignPointerUp(temp, BufferAlign) \in Int
          /\ Modulus \in Nat \ {0}
      <4>1. BufferHead \in Nat /\ BufferTail \in Nat /\ Modulus \in Nat \ {0}
        BY AllocatorAssumption, MicroAssumption
      <4>2. BufferAlign \in Nat \ {0}
        <5>1. BufferAlign \in Alignments /\ Alignments \subseteq Nat \ {0}
          BY AllocatorAssumption, MicroAssumption
        <5> QED BY <5>1
      <4>3. tail \in Int /\ temp \in Int
        BY <4>1 DEF AllocatorInv, AllocatorTypeOK
      <4> QED BY <4>1, <4>2, <4>3 DEF AlignPointerDown, AlignPointerUp
    <3> QED BY <3>1 DEF GetAvailableMemory
  <2> QED BY <1>0, <1>12, <2>1, SizesFit, TempIsStep DEF AllocatePlanner, Fails
<1>13. CASE CommitPlan
  BY <1>0, <1>13, SizesFit, SetHeadIsStep DEF CommitPlan, Fails
<1>14. CASE AllocateVariables
  BY <1>0, <1>14, SizesFit, TailIsStep DEF AllocateVariables, Fails
<1>15. CASE ClientTensor
  BY <1>0, <1>15, SizesFit, TailIsStep DEF ClientTensor
<1>16. CASE UNCHANGED vars
  BY <1>0, <1>16 DEF vars
<1> QED BY <1>0, <1>1, <1>2, <1>3, <1>4, <1>5, <1>6, <1>7, <1>8, <1>9, <1>10, <1>11, <1>12,
           <1>13, <1>14, <1>15, <1>16
        DEF Next, StartModelAllocation, Kernel, FinishModelAllocation
-----------------------------------------------------------------------------
(* A function on 1 .. n is a sequence.                                     *)
LEMMA FunctionIsSeq ==
    ASSUME NEW S, NEW n \in Nat, NEW f \in [1 .. n -> S]
    PROVE  f \in Seq(S)
<1>1. [1 .. n -> S] \in {[1 .. k -> S] : k \in Nat}
  BY Zenon
<1> QED BY <1>1, SeqDef, Zenon

Frame == UNCHANGED <<cur, node, allocating, max_head, requests, interp>>

(* Every step keeps the types of the interpreters' fields.                 *)
LEMMA TypeStep ==
    ASSUME MicroType, [Next]_vars
    PROVE  MicroType'
<1> USE DEF MicroType
<1>0. Frame => MicroType'
  BY DEF Frame
<1>1. ASSUME NEW m \in Models, CallAllocateTensors(m) \/ CallInvoke(m)
      PROVE  MicroType'
  <2>1. [interp EXCEPT ![m].init_ok = FALSE] \in [Models -> InterpType]
    BY DEF InterpType
  <2>2. 1 \in 1 .. NumNodes
    BY AllocatorAssumption, MicroAssumption
  <2>3. CASE CallAllocateTensors(m)
    BY <2>1, <2>2, <2>3 DEF CallAllocateTensors, AllocateTensors
  <2>4. CASE CallInvoke(m)
    BY <2>1, <2>2, <2>4 DEF CallInvoke, AllocateTensors, Keep
  <2> QED BY <1>1, <2>3, <2>4
<1>2. StartFails => MicroType'
  BY DEF StartFails, GoTo, InterpType
<1>3. CASE InitScratchBufferData
  <2>1. <<>> \in Seq(0 .. NumNodes) /\ Len(<<>>) <= MaxRequests
    BY AllocatorAssumption, MicroAssumption
  <2> QED BY <1>2, <1>3, <2>1 DEF InitScratchBufferData, GoTo
<1>4. CASE AllocateTfLiteEvalTensors
  BY <1>2, <1>4 DEF AllocateTfLiteEvalTensors, GoTo, InterpType
<1>5. CASE AllocateNodes
  BY <1>0, <1>2, <1>5 DEF AllocateNodes, GoTo, Keep, Frame
<1>6. CASE \/ KernelGetTensor \/ KernelPersistentBuffer \/ PrepareFails \/ AllocateInfo
           \/ AllocatePlanner \/ ResetPlanner \/ ClientTensor \/ AllocateScratchBufferHandles
  BY <1>0, <1>6 DEF KernelGetTensor, KernelPersistentBuffer, PrepareFails, AllocateInfo,
      AllocatePlanner, ResetPlanner, ClientTensor, AllocateScratchBufferHandles, Fails, GoTo, Keep, Frame
<1>7. CASE RequestScratchBufferInArena
  <2>1. 0 \in 0 .. NumNodes /\ MaxRequests \in Nat
    BY AllocatorAssumption, MicroAssumption
  <2>2. /\ requests' = Append(requests, 0) /\ Len(requests) < MaxRequests
        /\ UNCHANGED <<cur, node, allocating, max_head, interp>>
    BY <1>7 DEF RequestScratchBufferInArena, GoTo
  <2>3. requests' \in Seq(0 .. NumNodes) /\ Len(requests') = Len(requests) + 1
    BY <2>1, <2>2, AppendProperties
  <2>4. Len(requests') <= MaxRequests
    BY <2>1, <2>2, <2>3, LenProperties
  <2> QED BY <2>2, <2>3, <2>4
<1>8. CASE PrepareReturns
  <2> DEFINE r == [i \in DOMAIN requests |-> IF requests[i] = 0 THEN node ELSE requests[i]]
  <2>1. r \in Seq(0 .. NumNodes) /\ Len(r) = Len(requests)
    <3>0. /\ requests \in Seq(0 .. NumNodes)
          /\ NumNodes \in Nat /\ node \in 0 .. NumNodes
      BY AllocatorAssumption, MicroAssumption
    <3> HIDE DEF MicroType
    <3>1. Len(requests) \in Nat /\ DOMAIN requests = 1 .. Len(requests)
      BY <3>0
    <3>2. \A i \in DOMAIN requests : requests[i] \in 0 .. NumNodes
      BY <3>0
    <3>3. DOMAIN r = 1 .. Len(requests) /\ r = [i \in 1 .. Len(requests) |-> r[i]]
      BY <3>1
    <3>4. \A i \in 1 .. Len(requests) : r[i] \in 0 .. NumNodes
      BY <3>0, <3>1, <3>2
    <3> HIDE DEF r
    <3>5. r \in [1 .. Len(requests) -> 0 .. NumNodes]
      BY <3>3, <3>4
    <3>6. r \in Seq(0 .. NumNodes)
      BY <3>1, <3>5, FunctionIsSeq
    <3> QED BY <3>1, <3>3, <3>6
  <2> HIDE DEF r
  <2>2. requests' = r
    BY <1>8 DEF PrepareReturns, r
  <2>3. UNCHANGED <<cur, node, allocating, max_head, interp>>
    BY <1>8 DEF PrepareReturns, GoTo
  <2> QED BY <2>1, <2>2, <2>3
<1>9. CASE FinishPrepareNodeAllocations
  <2>1. UNCHANGED <<cur, allocating, max_head, requests, interp>>
    BY <1>9 DEF FinishPrepareNodeAllocations, Keep
  <2>2. node' \in 1 .. NumNodes
    BY <1>9, AllocatorAssumption, MicroAssumption DEF FinishPrepareNodeAllocations
  <2> QED BY <2>1, <2>2
<1>10. CASE CommitPlan
  <2>1. CASE Frame
    BY <1>0, <2>1
  <2>2. CASE /\ interp' = [interp EXCEPT ![cur].eval = "planned"]
             /\ max_head' = HeadUsage
             /\ UNCHANGED <<cur, node, allocating, requests>>
    <3>1. interp' \in [Models -> InterpType]
      BY <2>2 DEF InterpType
    <3>2. max_head' \in Nat
      BY <2>2, SizesFit
    <3> QED BY <2>2, <3>1, <3>2
  <2> HIDE DEF MicroType
  <2> QED BY <1>10, <2>1, <2>2 DEF CommitPlan, GoTo, Fails, Keep, Frame
<1>11. CASE AllocateVariables
  <2>1. CASE Frame
    BY <1>0, <2>1
  <2>2. CASE /\ interp' = [interp EXCEPT ![cur].allocated = TRUE]
             /\ allocating' = FALSE
             /\ UNCHANGED <<cur, node, max_head, requests>>
    <3>1. interp' \in [Models -> InterpType]
      BY <2>2 DEF InterpType
    <3> QED BY <2>2, <3>1
  <2> HIDE DEF MicroType
  <2> QED BY <1>11, <2>1, <2>2 DEF AllocateVariables, GoTo, Fails, Keep, Frame
<1>12. CASE InvokeNode
  <2>1. UNCHANGED <<cur, allocating, max_head, requests, interp>>
    BY <1>12 DEF InvokeNode, GoTo, Keep
  <2>2. GoTo("idle") => node' = node
    BY DEF GoTo
  <2>3. node' = node \/ (node < NumNodes /\ node' = node + 1)
    BY <1>12, <2>2, Zenon DEF InvokeNode
  <2>4. node \in 1 .. NumNodes /\ NumNodes \in Nat
    BY AllocatorAssumption, MicroAssumption
  <2>5. node' \in 1 .. NumNodes
    BY <2>3, <2>4
  <2> QED BY <2>1, <2>5
<1>13. CASE UNCHANGED vars
  BY <1>0, <1>13 DEF vars, Frame
<1> QED BY <1>1, <1>3, <1>4, <1>5, <1>6, <1>7, <1>8, <1>9, <1>10, <1>11, <1>12, <1>13
        DEF Next, StartModelAllocation, Kernel, FinishModelAllocation

-----------------------------------------------------------------------------
AllocatingAt ==
    {"scratch", "eval", "nodes", "prepare", "prepared", "handles", "info", "arena", "reset",
     "commit", "variables"}

(* max_head_buffer_usage_ covers the plan of every model, and the head     *)
(* covers it whenever no model is being allocated.                         *)
HeadInv ==
    /\ \A m \in Models : interp[m].allocated => PlanBytes[m] <= max_head
    /\ pc \in AllocatingAt => allocating
    /\ pc = "variables" => head = BufferHead + max_head /\ PlanBytes[cur] <= max_head
    /\ ~allocating => head = BufferHead + max_head

(* Every step keeps HeadInv: the head is below the largest plan only while *)
(* a model is being allocated, and an allocation ends where CommitPlan has *)
(* set it again.                                                           *)
LEMMA HeadStep ==
    ASSUME MicroType, HeadInv, [Next]_vars
    PROVE  HeadInv'
<1> USE DEF HeadInv, AllocatingAt
<1>0. ASSUME UNCHANGED <<head, cur, allocating, max_head, interp>>, pc' # "variables",
             pc' \in AllocatingAt => pc \in AllocatingAt
      PROVE  HeadInv'
  BY <1>0
<1>1. ASSUME NEW m \in Models, CallAllocateTensors(m) \/ CallInvoke(m)
      PROVE  HeadInv'
  BY <1>1 DEF CallAllocateTensors, CallInvoke, AllocateTensors, Keep, InterpType, MicroType, arena
<1>2. pc \in AllocatingAt /\ StartFails => HeadInv'
  BY DEF StartFails, GoTo, InterpType, MicroType
<1>3. CASE InitScratchBufferData
  BY <1>2, <1>3 DEF InitScratchBufferData, GoTo
<1>4. CASE AllocateTfLiteEvalTensors
  BY <1>2, <1>4 DEF AllocateTfLiteEvalTensors, GoTo, InterpType, MicroType, AllocateFromTail
<1>5. CASE AllocateNodes
  BY <1>2, <1>5 DEF AllocateNodes, GoTo, Keep, AllocateFromTail
<1>6. CASE \/ KernelGetTensor \/ KernelPersistentBuffer \/ PrepareFails \/ AllocateInfo
           \/ AllocatePlanner \/ ResetPlanner \/ ClientTensor \/ AllocateScratchBufferHandles
           \/ RequestScratchBufferInArena \/ PrepareReturns \/ InvokeNode
  BY <1>0, <1>6 DEF KernelGetTensor, KernelPersistentBuffer, PrepareFails, AllocateInfo,
      AllocatePlanner, ResetPlanner, ClientTensor, AllocateScratchBufferHandles, Fails, GoTo, Keep,
      RequestScratchBufferInArena, PrepareReturns, InvokeNode, arena,
      AllocateFromTail, AllocateTemp, ResetTempAllocations
<1>7. CASE FinishPrepareNodeAllocations
  BY <1>7 DEF FinishPrepareNodeAllocations, Keep
<1>8. CASE CommitPlan
  <2>1. /\ HeadUsage \in Nat /\ max_head <= HeadUsage /\ PlanBytes[cur] <= HeadUsage
        /\ \A m \in Models : PlanBytes[m] \in Nat
    BY AllocatorAssumption, MicroAssumption DEF HeadUsage, MicroType
  <2>2. SetHeadBufferSize(HeadUsage, BufferAlign) => head' = BufferHead + HeadUsage
    <3>2. BufferHead \in Nat /\ BufferAlign \in Nat \ {0} /\ BufferHead % BufferAlign = 0
      BY AllocatorAssumption, MicroAssumption
    <3>3. AlignPointerUp(BufferHead, BufferAlign) = BufferHead
      BY <3>2, AlignedStays, AllocatorAssumption, MicroAssumption
    <3> QED BY <3>3 DEF SetHeadBufferSize
  <2>3. CASE UNCHANGED arena /\ Keep /\ (GoTo("idle") \/ GoTo("crashed"))
    BY <1>0, <2>3 DEF Keep, GoTo, arena
  <2>4. CASE /\ interp' = [interp EXCEPT ![cur].eval = "planned"]
             /\ max_head' = HeadUsage /\ cur' = cur /\ allocating' = allocating
             /\ \/ SetHeadBufferSize(HeadUsage, BufferAlign) /\ pc' = "variables"
                \/ pc' = "idle"
    <3>1. \A m \in Models : interp'[m].allocated = interp[m].allocated
      BY <2>4 DEF MicroType, InterpType
    <3>2. allocating
      BY <1>8 DEF CommitPlan
    <3> QED BY <2>1, <2>2, <2>4, <3>1, <3>2 DEF MicroType
  <2> QED BY <1>8, <2>3, <2>4 DEF CommitPlan, Fails, GoTo
<1>9. CASE AllocateVariables
  <2>1. CASE Fails
    BY <2>1, <1>0 DEF Fails, GoTo, Keep, arena
  <2>2. CASE /\ interp' = [interp EXCEPT ![cur].allocated = TRUE]
             /\ UNCHANGED <<head, max_head, cur>> /\ pc' \in {"run", "idle"}
    <3>1. \A m \in Models : interp'[m].allocated => interp[m].allocated \/ m = cur
      BY <2>2 DEF MicroType, InterpType
    <3> QED BY <1>9, <2>2, <3>1 DEF AllocateVariables
  <2> QED BY <1>9, <2>1, <2>2 DEF AllocateVariables, GoTo, arena, AllocateFromTail
<1>10. CASE UNCHANGED vars
  BY <1>10 DEF vars, arena
<1> QED BY <1>1, <1>3, <1>4, <1>5, <1>6, <1>7, <1>8, <1>9, <1>10
        DEF Next, StartModelAllocation, Kernel, FinishModelAllocation

(* Tensors of clients are in the tail section.                             *)
TensorsKept == tensors \subseteq persistent

(* The tail section only grows, so that clients keep their tensors.        *)
LEMMA TensorsStep ==
    ASSUME TensorsKept, [AllocatorNext]_arena, [Next]_vars
    PROVE  TensorsKept'
<1>1. persistent \subseteq persistent'
  BY DEF AllocatorNext, arena, SetHeadBufferSize, AllocateTemp, AllocateFromTail,
      ResetTempAllocations
<1>2. CASE ClientTensor
  BY <1>1, <1>2 DEF ClientTensor, AllocateFromTail, TensorsKept, Keep
<1>3. CASE UNCHANGED tensors
  BY <1>1, <1>3 DEF TensorsKept
<1>4. CASE ~ClientTensor
  <2>1. \A m \in Models : CallAllocateTensors(m) \/ CallInvoke(m) => UNCHANGED tensors
    BY DEF CallAllocateTensors, CallInvoke, AllocateTensors, Keep
  <2>2. StartModelAllocation => UNCHANGED tensors
    BY DEF StartModelAllocation, InitScratchBufferData, AllocateTfLiteEvalTensors, AllocateNodes,
        StartFails, Keep
  <2>3. Kernel => UNCHANGED tensors
    BY DEF Kernel, KernelGetTensor, KernelPersistentBuffer, RequestScratchBufferInArena,
        PrepareFails, PrepareReturns, Fails, Keep
  <2>4. FinishPrepareNodeAllocations \/ InvokeNode => UNCHANGED tensors
    BY DEF FinishPrepareNodeAllocations, InvokeNode, Keep
  <2>5. FinishModelAllocation => UNCHANGED tensors
    BY DEF FinishModelAllocation, AllocateScratchBufferHandles, AllocateInfo, AllocatePlanner,
        ResetPlanner, CommitPlan, AllocateVariables, Fails, Keep
  <2>6. UNCHANGED vars => UNCHANGED tensors
    BY DEF vars
  <2> QED BY <1>3, <1>4, <2>1, <2>2, <2>3, <2>4, <2>5, <2>6 DEF Next
<1> QED BY <1>2, <1>4

(* What is always true of the arena, the interpreters and the head.        *)
MicroInv == AllocatorInv /\ MicroType /\ HeadInv /\ TensorsKept

(* MicroInv is an inductive invariant.                                     *)
LEMMA MicroInvariant == Spec => []MicroInv
<1>1. Init => MicroInv
  <2> SUFFICES ASSUME Init PROVE MicroInv
    OBVIOUS
  <2>1. AllocatorInv
    BY AllocatorStart DEF Init
  <2>2. MicroType
    <3>1. <<>> \in Seq(0 .. NumNodes) /\ Len(<<>>) <= MaxRequests /\ 1 \in 1 .. NumNodes
      BY AllocatorAssumption, MicroAssumption
    <3> QED BY <3>1 DEF Init, MicroType, InterpType
  <2>3. HeadInv
    BY AllocatorAssumption, MicroAssumption DEF Init, HeadInv, AllocatingAt, AllocatorInit
  <2> QED BY <2>1, <2>2, <2>3 DEF MicroInv, TensorsKept, Init
<1>2. MicroInv /\ [Next]_vars => MicroInv'
  BY StepUsesArena, StepKeeps, TypeStep, HeadStep, TensorsStep DEF MicroInv
<1> QED BY <1>1, <1>2, PTL DEF Spec

(* The types of the allocator and of all its interpreters hold always.     *)
THEOREM MicroTypeCorrect == Spec => []TypeOK
<1>1. MicroInv => TypeOK
  BY DEF MicroInv, AllocatorInv, MicroType, InterpType, TensorsKept, TypeOK
<1> QED BY <1>1, MicroInvariant, PTL

(* Between allocations, nothing persistent or temporary is in the memory   *)
(* plan of any model: the head is at the largest plan, persistent blocks   *)
(* are in the tail section, temporary ones between the two.                *)
THEOREM PlansSafe == Spec => []PlansProtected
<1>1. MicroInv => PlansProtected
  <2> SUFFICES ASSUME MicroInv, ~allocating, \A t \in temps : t.end < Modulus,
                      NEW b \in persistent \cup temps, NEW m \in Models, interp[m].allocated
               PROVE  b.start >= BufferHead + PlanBytes[m]
    BY DEF PlansProtected, OutsidePlans
  <2>1. /\ head = BufferHead + max_head /\ PlanBytes[m] <= max_head
        /\ BufferHead \in Nat /\ BufferTail \in Nat /\ PlanBytes[m] \in Nat /\ max_head \in Nat
    BY AllocatorAssumption, MicroAssumption DEF MicroInv, HeadInv, MicroType
  <2>2. b.start \in Int /\ head <= b.start
    <3>1. CASE b \in persistent
      BY <2>1, <3>1 DEF MicroInv, AllocatorInv, AllocatorTypeOK, BlockType, SectionsApart
    <3>2. CASE b \in temps
      BY <2>1, <3>2 DEF MicroInv, AllocatorInv, AllocatorTypeOK, BlockType, TempsChained
    <3> QED BY <3>1, <3>2
  <2> QED BY <2>1, <2>2
<1> QED BY <1>1, MicroInvariant, PTL

-----------------------------------------------------------------------------
(* Where the head is set, and wherever an allocation may begin, there is   *)
(* no temporary block.  Nothing is said of a failed allocation: from then  *)
(* on model_is_allocating_ is set, and no other one begins.                *)
ResetInv ==
    /\ pc \in {"scratch", "prepared", "commit", "variables"} => temp = head
    /\ pc = "idle" /\ ~allocating => temp = head

(* Every step keeps ResetInv.                                              *)
LEMMA ResetStep ==
    ASSUME HeadInv, ResetInv, [Next]_vars
    PROVE  ResetInv'
<1> USE DEF ResetInv, HeadInv, AllocatingAt
<1>1. ASSUME NEW m \in Models, CallAllocateTensors(m) \/ CallInvoke(m)
      PROVE  ResetInv'
  BY <1>1 DEF CallAllocateTensors, CallInvoke, AllocateTensors, Keep, arena
<1>2. pc \in AllocatingAt /\ (StartFails \/ Fails) => ResetInv'
  BY DEF StartFails, Fails, Keep, GoTo
<1>3. CASE StartModelAllocation
  BY <1>2, <1>3 DEF StartModelAllocation, InitScratchBufferData, AllocateTfLiteEvalTensors,
      AllocateNodes, GoTo
<1>4. CASE Kernel
  <2>1. CASE PrepareReturns
    BY <2>1 DEF PrepareReturns, ResetTempAllocations, GoTo
  <2>2. CASE KernelGetTensor \/ KernelPersistentBuffer \/ RequestScratchBufferInArena \/ PrepareFails
    BY <1>2, <2>2 DEF KernelGetTensor, KernelPersistentBuffer, RequestScratchBufferInArena,
        PrepareFails, GoTo
  <2> QED BY <1>4, <2>1, <2>2 DEF Kernel
<1>5. CASE FinishPrepareNodeAllocations
  BY <1>5 DEF FinishPrepareNodeAllocations
<1>6. CASE AllocateScratchBufferHandles \/ AllocateInfo \/ AllocatePlanner
  BY <1>2, <1>6 DEF AllocateScratchBufferHandles, AllocateInfo, AllocatePlanner, Keep, GoTo
<1>7. CASE ResetPlanner \/ InvokeNode
  BY <1>7 DEF ResetPlanner, InvokeNode, ResetTempAllocations, Keep, GoTo
<1>8. CASE CommitPlan
  BY <1>2, <1>8 DEF CommitPlan, SetHeadBufferSize, Keep, GoTo
<1>9. CASE AllocateVariables
  BY <1>2, <1>9 DEF AllocateVariables, AllocateFromTail, arena, GoTo
<1>10. CASE ClientTensor
  BY <1>10 DEF ClientTensor, AllocateFromTail, Keep, GoTo
<1>11. CASE UNCHANGED vars
  BY <1>11 DEF vars, arena
<1> QED BY <1>1, <1>3, <1>4, <1>5, <1>6, <1>7, <1>8, <1>9, <1>10, <1>11
        DEF Next, FinishModelAllocation

(* SetHeadBufferSize is called after ResetTempAllocations only, whatever   *)
(* fails and whoever is next: it never returns its "Internal error".       *)
THEOREM HeadNeverSetUnderTemps == Spec => []HeadSetAfterReset
<1>1. Init => ResetInv
  BY DEF Init, AllocatorInit, ResetInv
<1>2. MicroInv /\ ResetInv /\ [Next]_vars => ResetInv'
  BY ResetStep DEF MicroInv
<1>3. ResetInv => HeadSetAfterReset
  BY DEF ResetInv, HeadSetAfterReset
<1> QED BY <1>1, <1>2, <1>3, MicroInvariant, PTL DEF Spec

-----------------------------------------------------------------------------
(* Tensors stay planned once AllocateTensors has succeeded, when clients   *)
(* do not call it again.                                                   *)
PlannedInv ==
    /\ \A m \in Models : interp[m].allocated => interp[m].eval = "planned"
    /\ pc \in AllocatingAt => ~interp[cur].allocated
    /\ pc = "variables" => interp[cur].eval = "planned"
    /\ pc = "run" => interp[cur].allocated

(* Every step keeps PlannedInv.                                            *)
LEMMA PlannedStep ==
    ASSUME Again = FALSE, MicroType, PlannedInv, [Next]_vars
    PROVE  PlannedInv'
<1> USE DEF PlannedInv, AllocatingAt
<1>0. ASSUME UNCHANGED <<cur, interp>>, pc' # "variables",
             pc' \in AllocatingAt => pc \in AllocatingAt, pc' = "run" => pc = "run"
      PROVE  PlannedInv'
  BY <1>0
<1>1. ASSUME NEW m \in Models, CallAllocateTensors(m) \/ CallInvoke(m)
      PROVE  PlannedInv'
  BY <1>1 DEF CallAllocateTensors, CallInvoke, AllocateTensors, Keep, InterpType, MicroType
<1>2. pc \in AllocatingAt /\ StartFails => PlannedInv'
  BY DEF StartFails, GoTo, InterpType, MicroType
<1>3. CASE InitScratchBufferData
  BY <1>2, <1>3 DEF InitScratchBufferData, GoTo
<1>4. CASE AllocateTfLiteEvalTensors
  BY <1>2, <1>4 DEF AllocateTfLiteEvalTensors, GoTo, InterpType, MicroType
<1>5. CASE AllocateNodes
  BY <1>2, <1>5 DEF AllocateNodes, GoTo, Keep
<1>6. CASE \/ KernelGetTensor \/ KernelPersistentBuffer \/ PrepareFails \/ AllocateInfo
           \/ AllocatePlanner \/ ResetPlanner \/ ClientTensor \/ AllocateScratchBufferHandles
           \/ RequestScratchBufferInArena \/ PrepareReturns \/ InvokeNode
  BY <1>0, <1>6 DEF KernelGetTensor, KernelPersistentBuffer, PrepareFails, AllocateInfo,
      AllocatePlanner, ResetPlanner, ClientTensor, AllocateScratchBufferHandles, Fails, GoTo, Keep,
      RequestScratchBufferInArena, PrepareReturns, InvokeNode
<1>7. CASE FinishPrepareNodeAllocations
  BY <1>7 DEF FinishPrepareNodeAllocations, Keep
<1>8. CASE CommitPlan
  BY <1>0, <1>8 DEF CommitPlan, Fails, GoTo, Keep, InterpType, MicroType
<1>9. CASE AllocateVariables
  BY <1>0, <1>9 DEF AllocateVariables, Fails, GoTo, Keep, InterpType, MicroType
<1>10. CASE UNCHANGED vars
  BY <1>10 DEF vars
<1> QED BY <1>1, <1>3, <1>4, <1>5, <1>6, <1>7, <1>8, <1>9, <1>10
        DEF Next, StartModelAllocation, Kernel, FinishModelAllocation

(* Operators run on planned tensors, whatever allocation fails on the way, *)
(* if clients call AllocateTensors only until it succeeds.                 *)
THEOREM PlannedSafe ==
    ASSUME Again = FALSE
    PROVE  Spec => []RunsPlanned
<1>1. Init => PlannedInv
  BY DEF Init, PlannedInv, AllocatingAt
<1>2. MicroInv /\ PlannedInv /\ [Next]_vars => PlannedInv'
  BY PlannedStep DEF MicroInv
<1>3. MicroInv /\ PlannedInv => RunsPlanned
  BY DEF MicroInv, MicroType, PlannedInv, RunsPlanned
<1> QED BY <1>1, <1>2, <1>3, MicroInvariant, PTL DEF Spec
=============================================================================
