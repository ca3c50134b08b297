----------------------- MODULE GreedyMemoryPlannerProofs -----------------------
(***************************************************************************)
(* Proofs about GreedyMemoryPlanner, for every number of buffers, every    *)
(* size, usage interval and offline plan: no online planned buffer shares  *)
(* a byte with a buffer that is in use at the same time.                   *)
(***************************************************************************)
EXTENDS GreedyMemoryPlanner, OpsProofs

(* The list with a new entry: what is in front of it stays, the rest moves *)
(* up by one.                                                              *)
LEMMA InsertProperties ==
    ASSUME NEW S, entries \in Seq(S), NEW k \in 1 .. Len(entries) + 1, NEW e \in S
    PROVE  /\ Insert(e, k) \in Seq(S)
           /\ Len(Insert(e, k)) = Len(entries) + 1
           /\ \A j \in 1 .. Len(entries) + 1 :
                 Insert(e, k)[j] = IF j < k THEN entries[j]
                                   ELSE IF j = k THEN e ELSE entries[j - 1]
<1> DEFINE front == SubSeq(entries, 1, k - 1)
           back  == SubSeq(entries, k, Len(entries))
<1>1. /\ front \in Seq(S) /\ Len(front) = k - 1
      /\ \A j \in 1 .. k - 1 : front[j] = entries[j]
  BY SubSeqProperties
<1>2. /\ back \in Seq(S) /\ Len(back) = Len(entries) - k + 1
      /\ \A j \in 1 .. Len(entries) - k + 1 : back[j] = entries[k + j - 1]
  BY SubSeqProperties
<1> DEFINE upto == front \o <<e>>
<1>3. /\ upto \in Seq(S) /\ Len(upto) = k
      /\ \A j \in 1 .. k : upto[j] = IF j < k THEN entries[j] ELSE e
  BY <1>1
<1> HIDE DEF front, back, upto
<1>4. /\ upto \o back \in Seq(S)
      /\ Len(upto \o back) = Len(upto) + Len(back)
      /\ \A j \in 1 .. Len(upto) + Len(back) :
            (upto \o back)[j] = IF j <= Len(upto) THEN upto[j] ELSE back[j - Len(upto)]
  BY <1>2, <1>3, ConcatProperties
<1>5. /\ Len(upto \o back) = Len(entries) + 1
      /\ \A j \in 1 .. Len(entries) + 1 :
            (upto \o back)[j] = IF j < k THEN entries[j]
                                ELSE IF j = k THEN e ELSE entries[j - 1]
  BY <1>2, <1>3, <1>4
<1> QED BY <1>4, <1>5 DEF Insert, front, back, upto

(* No buffer is in the list with a new entry that was not, but its own.    *)
LEMMA InsertPlaces ==
    ASSUME entries \in Seq(Entry), NEW e, NEW k \in 1 .. Len(entries) + 1,
           entries' = Insert(e, k)
    PROVE  Placed' \ Placed \subseteq {e.requirements_index}
<1> DEFINE S == Entry \cup {e}
<1>1. entries \in Seq(S) /\ e \in S /\ Len(entries) \in Nat
  BY SeqMonotonic
<1> HIDE DEF S
<1>2. /\ Len(Insert(e, k)) = Len(entries) + 1
      /\ \A j \in 1 .. Len(entries) + 1 :
            Insert(e, k)[j] = IF j < k THEN entries[j]
                              ELSE IF j = k THEN e ELSE entries[j - 1]
  BY <1>1, InsertProperties
<1>3. ASSUME NEW j \in 1 .. Len(entries) + 1
      PROVE  entries'[j].requirements_index \in Placed \cup {e.requirements_index}
  <2>1. CASE j = k
    BY <1>2, <2>1
  <2>2. CASE j < k
    <3>1. j \in 1 .. Len(entries) /\ entries'[j] = entries[j]
      BY <1>1, <1>2, <2>2
    <3> QED BY <3>1 DEF Placed
  <2>3. CASE j > k
    <3>1. j - 1 \in 1 .. Len(entries) /\ entries'[j] = entries[j - 1]
      BY <1>1, <1>2, <2>3
    <3> QED BY <3>1 DEF Placed
  <2> QED BY <1>1, <2>1, <2>2, <2>3
<1>4. Placed' = {entries'[i].requirements_index : i \in 1 .. Len(entries) + 1}
  BY <1>2 DEF Placed
<1> QED BY <1>3, <1>4

-----------------------------------------------------------------------------
(* Entries are of buffers that were added, with their recorded offsets.    *)
Recorded ==
    \A k \in 1 .. Len(entries) :
        /\ entries[k].requirements_index \in Ids
        /\ entries[k].offset = offsets[entries[k].requirements_index]

Sorted == \A j, k \in 1 .. Len(entries) : j < k => entries[j].offset <= entries[k].offset

(* The search for wanted buffer b has left the active entries up to prior  *)
(* behind.                                                                 *)
Behind ==
    searching => \A b \in Unplaced : Wanted(b) =>
        \A k \in 1 .. prior :
            DoesEntryOverlapInTime(entries[k].requirements_index, b) =>
                EntryEnd(entries[k]) <= candidate_offset

(* Offline planned buffers are placed first.                               *)
OnlineLast == searching => \A b \in Placed, c \in Unplaced : Online(b) => Online(c)

PlacedApart ==
    \A b, c \in Placed :
        b # c /\ (Online(b) \/ Online(c)) => ~Overlap(b, offsets[b], c, offsets[c])

PlanComplete == UpToDate => Unplaced = {}

PlannerInv ==
    TypeOK /\ Recorded /\ Sorted /\ Behind /\ OnlineLast /\ PlacedApart /\ PlanComplete

(* A new planner satisfies the invariant.                                  *)
LEMMA PlannerInit == Init => PlannerInv
<1> SUFFICES ASSUME Init PROVE PlannerInv
  OBVIOUS
<1>1. /\ requirements = <<>> /\ offsets = <<>> /\ entries = <<>> /\ Len(entries) = 0
      /\ Len(requirements) = 0
      /\ searching = FALSE /\ need = TRUE /\ prior = 0 /\ candidate_offset = 0
  BY DEF Init
<1>2. TypeOK
  <2>1. MaxBuffers \in Nat
    BY PlannerAssumption
  <2>2. <<>> \in [1 .. 0 -> Nat \cup {kOnlinePlannedBuffer}]
    OBVIOUS
  <2>3. Ids = 1 .. 0
    BY <1>1 DEF Ids
  <2>4. <<>> \in Seq(BufferRequirements) /\ <<>> \in Seq(Entry) /\ 0 <= MaxBuffers
    BY <2>1
  <2>5. offsets \in [Ids -> Nat \cup {kOnlinePlannedBuffer}]
    BY <1>1, <2>2, <2>3, Zenon
  <2>6. need \in BOOLEAN /\ searching \in BOOLEAN
    BY <1>1, Zenon
  <2>7. entries \in Seq(Entry) /\ prior \in 0 .. Len(entries) /\ candidate_offset \in Nat
    BY <1>1, <2>4
  <2> QED BY <1>1, <2>1, <2>4, <2>5, <2>6, <2>7, Zenon DEF TypeOK
<1>3. Placed = {}
  BY <1>1 DEF Placed
<1> QED BY <1>1, <1>2, <1>3
        DEF PlannerInv, Recorded, Sorted, Behind, OnlineLast, PlacedApart, PlanComplete, UpToDate

(* AddBuffer keeps the old plan as it is, and out of date.                 *)
LEMMA AddBufferKeeps ==
    ASSUME PlannerInv, NEW r \in Requirements, AddBuffer(r)
    PROVE  PlannerInv'
<1> USE DEF PlannerInv, TypeOK
<1>0. r \in BufferRequirements /\ MaxBuffers \in Nat
  BY PlannerAssumption
<1>1. /\ requirements' \in Seq(BufferRequirements)
      /\ Len(requirements') = Len(requirements) + 1
      /\ \A b \in Ids : requirements'[b] = requirements[b]
  BY <1>0 DEF AddBuffer, Ids
<1>2. Ids \subseteq Ids' /\ Len(requirements) \in Nat
  BY <1>1 DEF Ids
<1>3. /\ offsets' \in [Ids' -> Nat \cup {kOnlinePlannedBuffer}]
      /\ \A b \in Ids : offsets'[b] = offsets[b]
  <2>1. offsets \in [1 .. Len(requirements) -> Nat \cup {kOnlinePlannedBuffer}]
    BY DEF Ids
  <2>2. offsets \in Seq(Nat \cup {kOnlinePlannedBuffer}) /\ Len(offsets) = Len(requirements)
    BY <1>2, <2>1, FunctionIsSeq
  <2>3. 0 \in Nat \cup {kOnlinePlannedBuffer}
    OBVIOUS
  <2>4. /\ Append(offsets, 0) \in Seq(Nat \cup {kOnlinePlannedBuffer})
        /\ Len(Append(offsets, 0)) = Len(offsets) + 1
        /\ \A b \in 1 .. Len(offsets) : Append(offsets, 0)[b] = offsets[b]
    BY <2>2, <2>3, AppendProperties
  <2>5. Append(offsets, 0) \in [1 .. Len(offsets) + 1 -> Nat \cup {kOnlinePlannedBuffer}]
    BY <2>4, LenProperties
  <2> QED BY <1>1, <2>2, <2>4, <2>5 DEF AddBuffer, Ids
<1>4. /\ entries' = entries /\ searching' = searching /\ prior' = prior /\ ~searching
      /\ candidate_offset' = candidate_offset /\ need' = TRUE /\ Len(requirements) < MaxBuffers
  BY DEF AddBuffer
<1>5. TypeOK'
  BY <1>0, <1>1, <1>2, <1>3, <1>4
<1>6. Recorded'
  BY <1>2, <1>3, <1>4 DEF Recorded
<1>7. Placed' = Placed /\ Placed \subseteq Ids
  BY <1>4 DEF Placed, Recorded
<1>8. PlacedApart'
  <2> SUFFICES ASSUME NEW b \in Placed, NEW c \in Placed, b # c, Online(b)' \/ Online(c)'
               PROVE  ~Overlap(b, offsets[b], c, offsets[c])'
    BY <1>7 DEF PlacedApart
  <2>1. requirements'[b] = requirements[b] /\ requirements'[c] = requirements[c]
    BY <1>1, <1>7
  <2>2. offsets'[b] = offsets[b] /\ offsets'[c] = offsets[c]
    BY <1>3, <1>7
  <2>3. ~Overlap(b, offsets[b], c, offsets[c])
    BY <2>1 DEF PlacedApart, Online
  <2> QED BY <2>1, <2>2, <2>3 DEF Overlap
<1> QED BY <1>4, <1>5, <1>6, <1>8 DEF Sorted, Behind, OnlineLast, PlanComplete, UpToDate

(* A new calculation starts with an empty list.                            *)
LEMMA CalculateKeeps ==
    ASSUME PlannerInv, CalculateOffsetsIfNeeded
    PROVE  PlannerInv'
<1> USE DEF PlannerInv, TypeOK
<1>1. /\ entries' = <<>> /\ Len(entries') = 0 /\ requirements' = requirements
      /\ searching' = TRUE /\ prior' = 0 /\ need' = FALSE /\ candidate_offset' = 0
  BY DEF CalculateOffsetsIfNeeded
<1>2. offsets' \in [Ids' -> Nat \cup {kOnlinePlannedBuffer}]
  <2>1. \A b \in Ids : requirements[b] \in BufferRequirements
    BY DEF Ids
  <2> QED BY <1>1, <2>1 DEF CalculateOffsetsIfNeeded, Ids, BufferRequirements
<1>3. TypeOK'
  <2>1. need' \in BOOLEAN /\ searching' \in BOOLEAN
    BY <1>1, Zenon
  <2>2. entries' \in Seq(Entry) /\ prior' \in 0 .. Len(entries') /\ candidate_offset' \in Nat
    BY <1>1
  <2> QED BY <1>1, <1>2, <2>1, <2>2
<1>4. Placed' = {}
  BY <1>1 DEF Placed
<1> QED BY <1>1, <1>3, <1>4
        DEF Recorded, Sorted, Behind, OnlineLast, PlacedApart, PlanComplete, UpToDate

(* Fields of the requirements and entries are numbers.                     *)
LEMMA Fields ==
    ASSUME TypeOK, Recorded
    PROVE  /\ \A b \in Ids : /\ requirements[b].size \in Nat
                             /\ requirements[b].first_time_used \in Nat
                             /\ requirements[b].last_time_used \in Nat
                             /\ ~Online(b) => requirements[b].offline_offset \in Nat
           /\ \A k \in 1 .. Len(entries) : /\ entries[k].offset \in Nat
                                           /\ entries[k].requirements_index \in Ids
                                           /\ EntryEnd(entries[k]) \in Nat
           /\ Len(entries) \in Nat /\ prior \in 0 .. Len(entries)
           /\ Len(requirements) \in Nat
           /\ candidate_offset \in Nat
<1>1. \A b \in Ids : requirements[b] \in BufferRequirements
  BY DEF TypeOK, Ids
<1>2. \A k \in 1 .. Len(entries) : entries[k] \in Entry
  BY DEF TypeOK
<1>3. \A b \in Ids : /\ requirements[b].size \in Nat
                     /\ requirements[b].first_time_used \in Nat
                     /\ requirements[b].last_time_used \in Nat
                     /\ ~Online(b) => requirements[b].offline_offset \in Nat
  BY <1>1 DEF BufferRequirements, Online
<1>4. \A k \in 1 .. Len(entries) : entries[k].offset \in Nat /\ entries[k].requirements_index \in Ids
  BY <1>2 DEF Entry, Recorded
<1>5. \A k \in 1 .. Len(entries) : EntryEnd(entries[k]) \in Nat
  BY <1>3, <1>4 DEF EntryEnd
<1>6. Len(entries) \in Nat /\ Len(requirements) \in Nat
  BY DEF TypeOK
<1> QED BY <1>3, <1>4, <1>5, <1>6 DEF TypeOK

(* One buffer is wanted at a time.                                         *)
LEMMA OneWanted ==
    ASSUME TypeOK, Recorded, NEW b \in Unplaced, NEW c \in Unplaced, Wanted(b), Wanted(c)
    PROVE  b = c
<1> SUFFICES ASSUME b # c PROVE FALSE
  OBVIOUS
<1>1. Before(b, c) /\ Before(c, b)
  BY DEF Wanted
<1>2. /\ b \in Int /\ c \in Int
      /\ requirements[b].size \in Nat /\ requirements[c].size \in Nat
  BY Fields DEF Unplaced, Ids
<1> QED BY <1>1, <1>2 DEF Before

(* When the search passes an entry, all active entries up to it end before *)
(* the candidate offset.                                                   *)
LEMMA PassKeeps ==
    ASSUME PlannerInv, searching, NEW b \in Unplaced, Wanted(b),
           NEW k \in 1 .. Len(entries), PassEntry(b, k)
    PROVE  PlannerInv'
<1>1. /\ requirements' = requirements /\ need' = need /\ offsets' = offsets
      /\ entries' = entries /\ searching' = searching /\ prior' = k
      /\ NextSimultaneouslyActiveBuffer(b, k)
  BY DEF PassEntry
<1>2. candidate_offset' \in Nat /\ candidate_offset <= candidate_offset'
      /\ EntryEnd(entries[k]) <= candidate_offset'
  BY Fields DEF PassEntry, PlannerInv
<1>3. TypeOK'
  <2>1. Ids' = Ids
    BY <1>1 DEF Ids
  <2> QED BY <1>1, <1>2, <2>1 DEF PlannerInv, TypeOK
<1>4. Unplaced' = Unplaced /\ Placed' = Placed
  BY <1>1 DEF Unplaced, Placed, Ids
<1>5. Behind'
  <2> SUFFICES ASSUME NEW c \in Unplaced, Wanted(c)', NEW j \in 1 .. k,
                      DoesEntryOverlapInTime(entries[j].requirements_index, c)'
               PROVE  EntryEnd(entries[j])' <= candidate_offset'
    BY <1>1, <1>4 DEF Behind
  <2>1. Wanted(c)
    BY <1>1, <1>4 DEF Wanted, Before, Online
  <2>2. c = b
    BY <2>1, OneWanted DEF PlannerInv
  <2>3. DoesEntryOverlapInTime(entries[j].requirements_index, b)
    BY <1>1, <2>2 DEF DoesEntryOverlapInTime
  <2>4. EntryEnd(entries[j])' = EntryEnd(entries[j]) /\ EntryEnd(entries[j]) \in Nat
    BY <1>1, Fields DEF EntryEnd, PlannerInv
  <2>5. prior \in Nat /\ candidate_offset \in Nat
    BY Fields DEF PlannerInv
  <2>6. CASE j <= prior
    <3>1. EntryEnd(entries[j]) <= candidate_offset
      BY <2>3, <2>5, <2>6 DEF Behind, PlannerInv
    <3> QED BY <1>2, <2>4, <2>5, <3>1
  <2>7. CASE prior < j /\ j < k
    BY <1>1, <2>3, <2>5, <2>7 DEF NextSimultaneouslyActiveBuffer
  <2>8. CASE j = k
    BY <1>2, <2>4, <2>8
  <2> QED BY <2>5, <2>6, <2>7, <2>8
<1>6. Recorded' /\ Sorted'
  BY <1>1 DEF PlannerInv, Recorded, Sorted, Ids
<1>7. OnlineLast' /\ PlacedApart' /\ PlanComplete'
  BY <1>1, <1>4 DEF PlannerInv, OnlineLast, PlacedApart, PlanComplete, Online, Overlap, UpToDate
<1> QED BY <1>3, <1>5, <1>6, <1>7 DEF PlannerInv

(* Where the search stops, the wanted buffer shares no byte with a placed  *)
(* one: entries up to prior end before the candidate offset, and those     *)
(* after it start at or behind the next active entry.                      *)
LEMMA GapIsFree ==
    ASSUME PlannerInv, searching, NEW b \in Unplaced, Wanted(b), PlaceBuffer(b),
           NEW c \in Placed, Online(b) \/ Online(c)
    PROVE  ~Overlap(b, PlaceOffset(b), c, offsets[c])
<1> SUFFICES ASSUME Overlap(b, PlaceOffset(b), c, offsets[c])
             PROVE  FALSE
  OBVIOUS
<1>1. Online(b)
  BY DEF PlannerInv, OnlineLast
<1>2. PICK j \in 1 .. Len(entries) : entries[j].requirements_index = c
  BY DEF Placed
<1>3. /\ entries[j].offset = offsets[c] /\ c \in Ids /\ b \in Ids
      /\ EntryEnd(entries[j]) = offsets[c] + requirements[c].size
  BY <1>2 DEF PlannerInv, Recorded, EntryEnd, Unplaced
<1>4. DoesEntryOverlapInTime(c, b)
  <2>1. /\ requirements[b].first_time_used \in Nat /\ requirements[b].last_time_used \in Nat
        /\ requirements[c].first_time_used \in Nat /\ requirements[c].last_time_used \in Nat
    BY <1>3, Fields DEF PlannerInv
  <2>2. /\ requirements[b].first_time_used <= requirements[c].last_time_used
        /\ requirements[c].first_time_used <= requirements[b].last_time_used
    BY DEF Overlap
  <2> QED BY <2>1, <2>2 DEF DoesEntryOverlapInTime
<1>5. /\ prior \in Nat /\ Len(entries) \in Nat /\ candidate_offset \in Nat
      /\ requirements[b].size \in Nat /\ requirements[c].size \in Nat /\ offsets[c] \in Nat
      /\ PlaceOffset(b) = candidate_offset
  BY <1>1, <1>2, <1>3, Fields DEF PlannerInv, PlaceOffset
<1>6. CASE j <= prior
  <2>1. EntryEnd(entries[j]) <= candidate_offset
    BY <1>2, <1>4, <1>5, <1>6 DEF Behind, PlannerInv
  <2> QED BY <1>3, <1>5, <2>1 DEF Overlap
<1>7. CASE j > prior
  <2> DEFINE T == {k \in prior + 1 .. Len(entries) :
                      DoesEntryOverlapInTime(entries[k].requirements_index, b)}
  <2>1. T \in SUBSET Nat /\ j \in T
    BY <1>2, <1>4, <1>5, <1>7
  <2>2. PICK k \in T : \A y \in T : ~(y < k)
    BY <2>1, Smallest
  <2>3. NextSimultaneouslyActiveBuffer(b, k)
    <3> SUFFICES ASSUME NEW i \in prior + 1 .. k - 1
                 PROVE  ~DoesEntryOverlapInTime(entries[i].requirements_index, b)
      BY <1>5, <2>2 DEF NextSimultaneouslyActiveBuffer
    <3> QED BY <1>5, <2>2
  <2>4. k \in 1 .. Len(entries) /\ ~TooSmall(b, k)
    BY <1>1, <1>5, <2>2, <2>3 DEF PlaceBuffer
  <2>5. entries[k].offset <= entries[j].offset /\ entries[k].offset \in Nat
    <3>1. k <= j
      BY <1>5, <2>1, <2>2
    <3>2. entries[k].offset \in Nat
      BY <2>4, Fields DEF PlannerInv
    <3>3. CASE k < j
      BY <2>4, <3>2, <3>3 DEF PlannerInv, Sorted
    <3> QED BY <2>4, <3>1, <3>2, <3>3
  <2> QED BY <1>3, <1>5, <2>4, <2>5 DEF TooSmall, Overlap
<1> QED BY <1>5, <1>6, <1>7

(* The step that places a buffer keeps the list sorted and the plan apart. *)
LEMMA PlaceKeeps ==
    ASSUME PlannerInv, searching, NEW b \in Unplaced, Wanted(b), PlaceBuffer(b)
    PROVE  PlannerInv'
<1> DEFINE o == PlaceOffset(b)
           e == [offset |-> o, requirements_index |-> b]
<1>0. b \in Ids /\ b \notin Placed /\ Ids \subseteq 1 .. MaxBuffers
  BY Fields, PlannerAssumption DEF Unplaced, Ids, PlannerInv, TypeOK
<1>1. o \in Nat
  BY <1>0, Fields DEF PlaceOffset, PlannerInv
<1>2. PICK k \in 1 .. Len(entries) + 1 : InsertionPoint(o, k) /\ entries' = Insert(e, k)
  BY DEF PlaceBuffer
<1>3. e \in Entry /\ entries \in Seq(Entry) /\ Len(entries) \in Nat
  BY <1>0, <1>1 DEF Entry, PlannerInv, TypeOK
<1>4. /\ requirements' = requirements /\ need' = need /\ offsets' = [offsets EXCEPT ![b] = o]
      /\ searching' = (Unplaced # {b}) /\ prior' = 0 /\ candidate_offset' = 0 /\ Ids' = Ids
  BY DEF PlaceBuffer, Ids
<1> HIDE DEF o
<1>5. /\ entries' \in Seq(Entry) /\ Len(entries') = Len(entries) + 1
      /\ \A j \in 1 .. Len(entries) + 1 :
            entries'[j] = IF j < k THEN entries[j] ELSE IF j = k THEN e ELSE entries[j - 1]
  BY <1>2, <1>3, InsertProperties
<1>6. e.offset = o /\ e.requirements_index = b
  OBVIOUS
<1> HIDE DEF e
<1>7. /\ offsets' \in [Ids -> Nat \cup {kOnlinePlannedBuffer}] /\ offsets'[b] = o
      /\ \A c \in Ids : c # b => offsets'[c] = offsets[c]
  BY <1>0, <1>1, <1>4 DEF PlannerInv, TypeOK
<1>8. Placed' = Placed \cup {b}
  <2>1. \A j \in 1 .. Len(entries) + 1 : entries'[j].requirements_index \in Placed \cup {b}
    BY <1>3, <1>5, <1>6 DEF Placed
  <2>2. \A j \in 1 .. Len(entries) : \E i \in 1 .. Len(entries) + 1 : entries'[i] = entries[j]
    <3> SUFFICES ASSUME NEW j \in 1 .. Len(entries)
                 PROVE  \E i \in 1 .. Len(entries) + 1 : entries'[i] = entries[j]
      OBVIOUS
    <3>1. CASE j < k
      <4>1. entries'[j] = entries[j]
        BY <1>3, <1>5, <3>1
      <4> QED BY <1>3, <4>1
    <3>2. CASE j >= k
      <4>1. entries'[j + 1] = entries[j]
        BY <1>2, <1>3, <1>5, <3>2
      <4> QED BY <1>3, <4>1
    <3> QED BY <1>2, <1>3, <3>1, <3>2
  <2>3. entries'[k].requirements_index = b
    BY <1>2, <1>3, <1>5, <1>6
  <2>4. Placed' = {entries'[i].requirements_index : i \in 1 .. Len(entries) + 1}
    BY <1>5 DEF Placed
  <2>5. Placed' \subseteq Placed \cup {b}
    BY <2>1, <2>4
  <2>6. Placed \subseteq Placed'
    BY <2>2, <2>4 DEF Placed
  <2>7. b \in Placed'
    BY <1>2, <2>3, <2>4
  <2> QED BY <2>5, <2>6, <2>7
<1>9. Unplaced' = Unplaced \ {b}
  BY <1>4, <1>8 DEF Unplaced
<1>10. TypeOK'
  <2>1. searching' \in BOOLEAN
    BY <1>4
  <2>2. prior' \in 0 .. Len(entries') /\ candidate_offset' \in Nat
    BY <1>3, <1>4, <1>5
  <2>3. /\ requirements' \in Seq(BufferRequirements) /\ Len(requirements') <= MaxBuffers
        /\ need' \in BOOLEAN
    BY <1>4 DEF PlannerInv, TypeOK
  <2>4. offsets' \in [Ids' -> Nat \cup {kOnlinePlannedBuffer}]
    BY <1>4, <1>7, Zenon
  <2> QED BY <1>5, <2>1, <2>2, <2>3, <2>4, Zenon DEF TypeOK
<1>11. Recorded'
  <2> SUFFICES ASSUME NEW j \in 1 .. Len(entries) + 1
               PROVE  /\ entries'[j].requirements_index \in Ids
                      /\ entries'[j].offset = offsets'[entries'[j].requirements_index]
    BY <1>4, <1>5 DEF Recorded
  <2>1. \A i \in 1 .. Len(entries) :
           /\ entries[i].requirements_index \in Ids
           /\ entries[i].requirements_index # b
           /\ entries[i].offset = offsets'[entries[i].requirements_index]
    BY <1>0, <1>7 DEF PlannerInv, Recorded, Placed
  <2>2. \/ j \in 1 .. Len(entries) /\ entries'[j] = entries[j]
        \/ entries'[j] = e
        \/ j - 1 \in 1 .. Len(entries) /\ entries'[j] = entries[j - 1]
    BY <1>2, <1>3, <1>5
  <2> QED BY <1>0, <1>6, <1>7, <2>1, <2>2
<1>12. Sorted'
  <2> SUFFICES ASSUME NEW i \in 1 .. Len(entries) + 1, NEW j \in 1 .. Len(entries) + 1, i < j
               PROVE  entries'[i].offset <= entries'[j].offset
    BY <1>5 DEF Sorted
  <2>1. \A m \in 1 .. Len(entries) : entries[m].offset \in Nat
    BY Fields DEF PlannerInv
  <2>2. \A m, n \in 1 .. Len(entries) : m <= n => entries[m].offset <= entries[n].offset
    <3> SUFFICES ASSUME NEW m \in 1 .. Len(entries), NEW n \in 1 .. Len(entries), m <= n
                 PROVE  entries[m].offset <= entries[n].offset
      OBVIOUS
    <3>1. CASE m = n
      BY <2>1, <3>1
    <3>2. CASE m < n
      BY <3>2 DEF PlannerInv, Sorted
    <3> QED BY <1>3, <3>1, <3>2
  <2>3. \A m \in 1 .. k - 1 : m \in 1 .. Len(entries) /\ entries[m].offset <= o
    BY <1>1, <1>2, <1>3, <2>1 DEF InsertionPoint
  <2>4. \A m \in k .. Len(entries) : o <= entries[m].offset
    <3> SUFFICES ASSUME NEW m \in k .. Len(entries) PROVE o <= entries[m].offset
      OBVIOUS
    <3>1. k \in 1 .. Len(entries) /\ m \in 1 .. Len(entries) /\ k <= m
      BY <1>2, <1>3
    <3>2. entries[k].offset > o
      BY <1>2, <1>3, <3>1 DEF InsertionPoint
    <3> QED BY <1>1, <2>1, <2>2, <3>1, <3>2
  <2>5. CASE j < k
    <3>1. entries'[i] = entries[i] /\ entries'[j] = entries[j]
      BY <1>2, <1>3, <1>5, <2>5
    <3>2. i \in 1 .. Len(entries) /\ j \in 1 .. Len(entries) /\ i <= j
      BY <1>2, <1>3, <2>5
    <3> QED BY <2>2, <3>1, <3>2
  <2>6. CASE j = k
    BY <1>2, <1>3, <1>5, <1>6, <2>3, <2>6
  <2>7. CASE i < k /\ k < j
    <3>1. entries'[i] = entries[i] /\ entries'[j] = entries[j - 1]
      BY <1>2, <1>3, <1>5, <2>7
    <3>2. i \in 1 .. Len(entries) /\ j - 1 \in 1 .. Len(entries) /\ i <= j - 1
      BY <1>2, <1>3, <2>7
    <3> QED BY <2>2, <3>1, <3>2
  <2>8. CASE i = k
    <3>1. entries'[i] = e /\ entries'[j] = entries[j - 1] /\ j - 1 \in k .. Len(entries)
      BY <1>2, <1>3, <1>5, <2>8
    <3> QED BY <1>6, <2>4, <3>1
  <2>9. CASE k < i
    <3>1. entries'[i] = entries[i - 1] /\ entries'[j] = entries[j - 1]
      BY <1>2, <1>3, <1>5, <2>9
    <3>2. i - 1 \in 1 .. Len(entries) /\ j - 1 \in 1 .. Len(entries) /\ i - 1 <= j - 1
      BY <1>2, <1>3, <2>9
    <3> QED BY <2>2, <3>1, <3>2
  <2> QED BY <1>2, <1>3, <2>5, <2>6, <2>7, <2>8, <2>9
<1>13. Behind'
  BY <1>4 DEF Behind
<1>14. OnlineLast'
  <2> SUFFICES ASSUME NEW c \in Placed \cup {b}, NEW d \in Unplaced \ {b}, Online(c)
               PROVE  Online(d)
    BY <1>4, <1>8, <1>9 DEF OnlineLast, Online
  <2>1. CASE c \in Placed
    BY <2>1 DEF PlannerInv, OnlineLast
  <2>2. CASE c = b
    BY <2>2 DEF Wanted, Before
  <2> QED BY <2>1, <2>2
<1>15. PlacedApart'
  <2> SUFFICES ASSUME NEW c \in Placed \cup {b}, NEW d \in Placed \cup {b}, c # d,
                      Online(c) \/ Online(d)
               PROVE  ~Overlap(c, offsets'[c], d, offsets'[d])
    BY <1>4, <1>8 DEF PlacedApart, Online, Overlap
  <2>1. \A a \in Placed : offsets'[a] = offsets[a]
    BY <1>0, <1>7 DEF Placed, PlannerInv, Recorded
  <2>2. \A a \in Placed : Online(a) \/ Online(b) => ~Overlap(b, o, a, offsets[a])
    BY GapIsFree DEF o
  <2>3. CASE c \in Placed /\ d \in Placed
    BY <2>1, <2>3 DEF PlannerInv, PlacedApart
  <2>4. CASE c = b /\ d \in Placed
    BY <1>7, <2>1, <2>2, <2>4
  <2>5. CASE d = b /\ c \in Placed
    <3>1. ~Overlap(b, offsets'[b], c, offsets'[c])
      BY <1>7, <2>1, <2>2, <2>5
    <3> QED BY <2>5, <3>1 DEF Overlap
  <2> QED BY <2>3, <2>4, <2>5
<1>16. PlanComplete'
  BY <1>4, <1>9 DEF PlanComplete, UpToDate
<1> QED BY <1>10, <1>11, <1>12, <1>13, <1>14, <1>15, <1>16 DEF PlannerInv

(* Every step of the planner keeps the invariant.                          *)
LEMMA PlannerStep ==
    ASSUME PlannerInv, [Next]_vars
    PROVE  PlannerInv'
<1>1. CASE SearchStep
  BY <1>1, PassKeeps, PlaceKeeps DEF SearchStep
<1>2. CASE UNCHANGED vars
  <2>1. TypeOK'
    BY <1>2, Zenon DEF vars, PlannerInv, TypeOK, Ids
  <2>2. Recorded' /\ Sorted'
    BY <1>2, Zenon DEF vars, PlannerInv, Recorded, Sorted, Ids
  <2>a. /\ requirements' = requirements /\ entries' = entries /\ offsets' = offsets
        /\ searching' = searching /\ need' = need /\ prior' = prior
        /\ candidate_offset' = candidate_offset
    BY <1>2 DEF vars
  <2>b. Placed' = Placed /\ Unplaced' = Unplaced
    BY <2>a DEF Placed, Unplaced, Ids
  <2>3. Behind'
    <3>1. \A c \in Unplaced : Wanted(c)' = Wanted(c)
      BY <2>a, <2>b DEF Wanted, Before, Online
    <3> QED BY <2>a, <2>b, <3>1 DEF PlannerInv, Behind, DoesEntryOverlapInTime, EntryEnd
  <2>4. OnlineLast' /\ PlacedApart' /\ PlanComplete'
    BY <2>a, <2>b DEF PlannerInv, OnlineLast, PlacedApart, PlanComplete, UpToDate, Online, Overlap
  <2> QED BY <2>1, <2>2, <2>3, <2>4 DEF PlannerInv
<1> QED BY <1>1, <1>2, AddBufferKeeps, CalculateKeeps DEF Next

(* PlannerInv is an inductive invariant.                                   *)
LEMMA PlannerInvariant == Spec => []PlannerInv
  BY PlannerInit, PlannerStep, PTL DEF Spec

(* The fields of the planner keep their types.                             *)
THEOREM PlannerTypeCorrect == Spec => []TypeOK
<1>1. PlannerInv => TypeOK
  BY DEF PlannerInv
<1> QED BY <1>1, PlannerInvariant, PTL

(* In an up to date plan, no two buffers share memory at the same time,    *)
(* unless both are planned offline.                                        *)
THEOREM GreedyPlanSafe == Spec => []BuffersApart
<1>1. PlannerInv => BuffersApart
  BY DEF PlannerInv, PlanComplete, PlacedApart, BuffersApart, Unplaced
<1> QED BY <1>1, PlannerInvariant, PTL

(* The list of placed buffers is sorted, has their recorded offsets, and   *)
(* is complete when the plan is up to date.                                *)
THEOREM GreedyListSorted == Spec => []ListSorted
<1>1. PlannerInv => ListSorted
  BY DEF PlannerInv, PlanComplete, Recorded, Sorted, ListSorted
<1> QED BY <1>1, PlannerInvariant, PTL

-----------------------------------------------------------------------------
(* A buffer that is planned offline has the offset that it came with, once *)
(* offsets are calculated.                                                 *)
OfflineKept ==
    ~need => \A b \in Ids : ~Online(b) => offsets[b] = requirements[b].offline_offset

(* The search moves online planned buffers only.                           *)
LEMMA OfflineStep ==
    ASSUME PlannerInv, OfflineKept, [Next]_vars
    PROVE  OfflineKept'
<1>1. ASSUME NEW r \in Requirements, AddBuffer(r) PROVE OfflineKept'
  BY <1>1 DEF AddBuffer, OfflineKept
<1>2. CASE CalculateOffsetsIfNeeded
  BY <1>2 DEF CalculateOffsetsIfNeeded, OfflineKept, Ids, Online
<1>3. CASE SearchStep
  <2>1. PICK b \in Unplaced : (\E k \in 1 .. Len(entries) : PassEntry(b, k)) \/ PlaceBuffer(b)
    BY <1>3 DEF SearchStep
  <2>2. CASE \E k \in 1 .. Len(entries) : PassEntry(b, k)
    BY <2>2 DEF PassEntry, OfflineKept, Ids, Online
  <2>3. CASE PlaceBuffer(b)
    <3>1. /\ requirements' = requirements /\ need' = need
          /\ offsets' = [offsets EXCEPT ![b] = PlaceOffset(b)]
      BY <2>3 DEF PlaceBuffer
    <3>2. ~Online(b) => PlaceOffset(b) = requirements[b].offline_offset
      BY DEF PlaceOffset
    <3>3. DOMAIN offsets = Ids
      BY DEF PlannerInv, TypeOK
    <3> QED BY <3>1, <3>2, <3>3 DEF OfflineKept, Ids, Online
  <2> QED BY <2>1, <2>2, <2>3
<1>4. CASE UNCHANGED vars
  BY <1>4 DEF vars, OfflineKept, Ids, Online
<1> QED BY <1>1, <1>2, <1>3, <1>4 DEF Next

-----------------------------------------------------------------------------
(* The loop of GetMaximumMemorySize finds the largest end of an entry.     *)
LEMMA MaximumFound ==
    ASSUME PlannerInv
    PROVE  /\ GetMaximumMemorySize \in Nat
           /\ \A k \in 1 .. Len(entries) : EntryEnd(entries[k]) <= GetMaximumMemorySize
           /\ entries # <<>> =>
                 \E k \in 1 .. Len(entries) : EntryEnd(entries[k]) = GetMaximumMemorySize
<1> DEFINE n == Len(entries)
           End1(k) == EntryEnd(entries[k])
           step == [k \in 1 .. n |-> [m \in Nat |-> IF End1(k) > m THEN End1(k) ELSE m]]
           After(f) == [k \in 0 .. n |->
                          IF k = 0 THEN 0
                          ELSE IF EntryEnd(entries[k]) > f[k - 1]
                               THEN EntryEnd(entries[k]) ELSE f[k - 1]]
           most == CHOOSE f : f = After(f)
<1>1. n \in Nat /\ (entries # <<>> => n > 0)
  BY DEF PlannerInv, TypeOK
<1>2. \A k \in 1 .. n : End1(k) \in Nat
  BY Fields DEF PlannerInv, TypeOK, Recorded, Entry, EntryEnd
<1>3. \E f : f = After(f)
  <2>1. 0 \in Nat /\ step \in Steps(Nat, n)
    BY <1>2 DEF Steps
  <2>2. PICK f : IsIteration(f, Nat, n, 0, step)
    <3> HIDE DEF step, n
    <3> QED BY <1>1, <2>1, IterationExists, Zenon
  <2>3. \A k \in 1 .. n : f[k - 1] \in Nat
    BY <1>1, <2>2 DEF IsIteration
  <2>4. \A k \in 1 .. n : f[k] = IF End1(k) > f[k - 1] THEN End1(k) ELSE f[k - 1]
    BY <2>2, <2>3 DEF IsIteration
  <2>5. f = After(f)
    <3>1. \A k \in 0 .. n : k = 0 \/ k \in 1 .. n
      BY <1>1
    <3> QED BY <2>2, <2>4, <3>1 DEF IsIteration
  <2> QED BY <2>5
<1>4. most = After(most)
  <2> HIDE DEF After
  <2> QED BY <1>3
<1>5. GetMaximumMemorySize = most[n]
  BY DEF GetMaximumMemorySize, Fold
<1> HIDE DEF most
<1>6. most[0] = 0 /\ \A k \in 1 .. n : most[k] = IF End1(k) > most[k - 1] THEN End1(k)
                                                                         ELSE most[k - 1]
  BY <1>1, <1>4
<1> HIDE DEF End1, n
<1> DEFINE Largest(k) == /\ most[k] \in Nat
                         /\ \A j \in 1 .. k : End1(j) <= most[k]
                         /\ k > 0 => \E j \in 1 .. k : End1(j) = most[k]
           T == {k \in 0 .. n : Largest(k)}
<1>7. 0 \in T
  BY <1>1, <1>6
<1>8. ASSUME NEW k \in 1 .. n, k - 1 \in T PROVE k \in T
  <2>1. most[k - 1] \in Nat /\ End1(k) \in Nat
    BY <1>2, <1>8
  <2>2. \A j \in 1 .. k : j = k \/ j \in 1 .. k - 1
    BY <1>1
  <2>3. most[k] \in Nat /\ \A j \in 1 .. k : End1(j) <= most[k]
    <3>1. \A j \in 1 .. k - 1 : End1(j) <= most[k - 1] /\ End1(j) \in Nat
      BY <1>1, <1>2, <1>8
    <3> QED BY <1>6, <2>1, <2>2, <3>1
  <2>4. \E j \in 1 .. k : End1(j) = most[k]
    <3>1. CASE End1(k) > most[k - 1]
      BY <1>6, <3>1
    <3>2. CASE ~(End1(k) > most[k - 1])
      <4>1. k - 1 = 0 => End1(k) = most[k]
        BY <1>6, <2>1, <3>2
      <4>2. k - 1 > 0 => \E j \in 1 .. k - 1 : End1(j) = most[k]
        BY <1>6, <1>8, <3>2
      <4> QED BY <1>1, <4>1, <4>2
    <3> QED BY <3>1, <3>2
  <2> QED BY <2>3, <2>4
<1>9. n \in T
  <2> HIDE DEF T
  <2>1. \A k \in 0 .. n : k \in T
    BY <1>1, <1>7, <1>8, UpTo
  <2> QED BY <1>1, <2>1
<1>10. Largest(n)
  BY <1>9
<1> QED BY <1>1, <1>5, <1>10 DEF End1, n

(* The size that GetMaximumMemorySize returns is the high-water mark.      *)
LEMMA MaximumIsHighest ==
    ASSUME PlannerInv
    PROVE  HighWaterMark
<1> SUFFICES ASSUME UpToDate, requirements # <<>>
             PROVE  /\ \A b \in Ids : End(b) <= GetMaximumMemorySize
                    /\ \E b \in Ids : End(b) = GetMaximumMemorySize
  BY DEF HighWaterMark
<1>1. Placed = Ids
  BY DEF PlannerInv, PlanComplete, Unplaced, Placed, Recorded
<1>2. \A k \in 1 .. Len(entries) :
         /\ entries[k].requirements_index \in Ids
         /\ EntryEnd(entries[k]) = End(entries[k].requirements_index)
  BY DEF PlannerInv, Recorded, EntryEnd, End
<1>3. \A b \in Ids : \E k \in 1 .. Len(entries) : entries[k].requirements_index = b
  BY <1>1 DEF Placed
<1>4. entries # <<>>
  <2>1. 1 \in Ids
    BY DEF PlannerInv, TypeOK, Ids
  <2> QED BY <1>3, <2>1
<1>5. \A b \in Ids : End(b) <= GetMaximumMemorySize
  BY <1>2, <1>3, MaximumFound
<1>6. \E b \in Ids : End(b) = GetMaximumMemorySize
  BY <1>2, <1>4, MaximumFound
<1> QED BY <1>5, <1>6

(* The high-water mark is the end of a buffer, and no buffer ends above it.*)
THEOREM GreedyHighWaterMark == Spec => []HighWaterMark
  BY MaximumIsHighest, PlannerInvariant, PTL

-----------------------------------------------------------------------------
(* Every offset below the candidate is taken.                              *)
BelowTaken ==
    searching => \A b \in Unplaced : Wanted(b) =>
        \A o \in 0 .. candidate_offset - 1 : \E c \in Placed : Overlap(b, o, c, offsets[c])

(* A step of the search keeps BelowTaken: between the candidate and the    *)
(* end of an entry whose gap is too small, the buffer meets that entry.    *)
LEMMA BelowStep ==
    ASSUME PlannerInv, BelowTaken, [Next]_vars
    PROVE  BelowTaken'
<1>1. CASE searching' /\ candidate_offset' = 0
  BY <1>1 DEF BelowTaken
<1>2. CASE ~searching'
  BY <1>2 DEF BelowTaken
<1>3. ASSUME searching, NEW b \in Unplaced, Wanted(b), NEW k \in 1 .. Len(entries), PassEntry(b, k)
      PROVE  BelowTaken'
  <2>1. /\ requirements' = requirements /\ offsets' = offsets /\ entries' = entries
        /\ searching' = searching /\ NextSimultaneouslyActiveBuffer(b, k) /\ TooSmall(b, k)
    BY <1>3 DEF PassEntry
  <2>2. Unplaced' = Unplaced /\ Placed' = Placed
    BY <2>1 DEF Unplaced, Placed, Ids
  <2> DEFINE d == entries[k].requirements_index
             end == EntryEnd(entries[k])
  <2>3. /\ d \in Placed /\ d \in Ids /\ b \in Ids /\ offsets[d] = entries[k].offset
        /\ end = offsets[d] + requirements[d].size
    BY <1>3 DEF PlannerInv, Recorded, Placed, EntryEnd, Unplaced
  <2>4. /\ offsets[d] \in Nat /\ requirements[b].size \in Nat /\ candidate_offset \in Nat
        /\ requirements[d].size \in Nat
    BY <1>3, <2>3, Fields DEF PlannerInv
  <2>5. candidate_offset' = IF end > candidate_offset THEN end ELSE candidate_offset
    BY <1>3 DEF PassEntry
  <2>6. /\ requirements[b].first_time_used <= requirements[d].last_time_used
        /\ requirements[d].first_time_used <= requirements[b].last_time_used
    <3>1. DoesEntryOverlapInTime(d, b)
      BY <2>1 DEF NextSimultaneouslyActiveBuffer
    <3>2. /\ requirements[b].first_time_used \in Nat /\ requirements[b].last_time_used \in Nat
          /\ requirements[d].first_time_used \in Nat /\ requirements[d].last_time_used \in Nat
      BY <2>3, Fields DEF PlannerInv
    <3> HIDE DEF d
    <3> QED BY <3>1, <3>2 DEF DoesEntryOverlapInTime
  <2>7. offsets[d] - candidate_offset < requirements[b].size
    BY <2>1, <2>3 DEF TooSmall
  <2> HIDE DEF d, end
  <2> DEFINE next == IF end > candidate_offset THEN end ELSE candidate_offset
  <2>8. ASSUME NEW o \in 0 .. next - 1
        PROVE  \E c \in Placed : Overlap(b, o, c, offsets[c])
    <3>1. CASE o < candidate_offset
      BY <1>3, <2>3, <2>4, <2>8, <3>1 DEF BelowTaken
    <3>2. CASE o >= candidate_offset
      <4>1. o < offsets[d] + requirements[d].size /\ offsets[d] < o + requirements[b].size
        BY <2>3, <2>4, <2>7, <2>8, <3>2
      <4>2. Overlap(b, o, d, offsets[d])
        BY <2>6, <4>1 DEF Overlap
      <4> QED BY <2>3, <4>2
    <3> QED BY <2>3, <2>4, <2>8, <3>1, <3>2
  <2> HIDE DEF next
  <2>9. candidate_offset' = next
    BY <2>5 DEF next
  <2>10. \A c \in Unplaced : Wanted(c)' => c = b
    <3>1. \A c \in Unplaced : Wanted(c)' => Wanted(c)
      BY <2>1, <2>2 DEF Wanted, Before, Online
    <3> QED BY <1>3, <3>1, OneWanted DEF PlannerInv
  <2>11. \A o : \A c \in Placed : Overlap(b, o, c, offsets[c])' = Overlap(b, o, c, offsets[c])
    BY <2>1 DEF Overlap
  <2> QED BY <2>2, <2>8, <2>9, <2>10, <2>11, <2>1 DEF BelowTaken, Overlap
<1>4. CASE UNCHANGED vars
  <2>1. /\ requirements' = requirements /\ offsets' = offsets /\ entries' = entries
        /\ searching' = searching /\ candidate_offset' = candidate_offset
    BY <1>4 DEF vars
  <2>2. Unplaced' = Unplaced /\ Placed' = Placed
    BY <2>1 DEF Unplaced, Placed, Ids
  <2>3. \A c \in Unplaced : Wanted(c)' => Wanted(c)
    BY <2>1, <2>2 DEF Wanted, Before, Online
  <2> QED BY <2>1, <2>2, <2>3 DEF BelowTaken, Overlap
<1>5. \A r \in Requirements : AddBuffer(r) => ~searching'
  BY DEF AddBuffer
<1>6. CalculateOffsetsIfNeeded => searching' /\ candidate_offset' = 0
  BY DEF CalculateOffsetsIfNeeded
<1>7. \A b \in Unplaced : PlaceBuffer(b) => candidate_offset' = 0
  BY DEF PlaceBuffer
<1> QED BY <1>1, <1>2, <1>3, <1>4, <1>5, <1>6, <1>7 DEF Next, SearchStep

(* A buffer is never put where a lower offset would have done.             *)
THEOREM FirstGap == Spec => FirstGapUsed
<1> DEFINE Lowest == \A b \in Placed' \ Placed : Online(b) =>
                        \A o \in 0 .. offsets'[b] - 1 :
                           \E c \in Placed : Overlap(b, o, c, offsets[c])
<1>1. Init => BelowTaken
  BY DEF Init, BelowTaken
<1>2. PlannerInv /\ BelowTaken /\ [Next]_vars => BelowTaken'
  BY BelowStep
<1>3. ASSUME PlannerInv, BelowTaken, [Next]_vars
      PROVE  [Lowest]_vars
  <2>1. ASSUME NEW r \in Requirements, AddBuffer(r) PROVE Lowest
    BY <2>1 DEF AddBuffer, Placed
  <2>2. CASE CalculateOffsetsIfNeeded
    <3>1. Placed' = {}
      BY <2>2 DEF CalculateOffsetsIfNeeded, Placed
    <3> QED BY <3>1
  <2>3. ASSUME NEW b \in Unplaced, NEW k \in 1 .. Len(entries), PassEntry(b, k) PROVE Lowest
    <3>1. Placed' = Placed
      BY <2>3 DEF PassEntry, Placed
    <3> QED BY <3>1
  <2>4. ASSUME searching, NEW b \in Unplaced, Wanted(b), PlaceBuffer(b) PROVE Lowest
    <3>1. Placed' \ Placed \subseteq {b}
      <4> DEFINE e == [offset |-> PlaceOffset(b), requirements_index |-> b]
      <4>1. PICK k \in 1 .. Len(entries) + 1 : entries' = Insert(e, k)
        BY <2>4 DEF PlaceBuffer
      <4>2. entries \in Seq(Entry)
        BY <1>3 DEF PlannerInv, TypeOK
      <4>3. e.requirements_index = b
        OBVIOUS
      <4> HIDE DEF e
      <4> QED BY <4>1, <4>2, <4>3, InsertPlaces
    <3>2. Online(b) => offsets'[b] = candidate_offset
      BY <1>3, <2>4 DEF PlaceBuffer, PlaceOffset, PlannerInv, TypeOK, Unplaced
    <3> QED BY <1>3, <2>4, <3>1, <3>2 DEF BelowTaken
  <2> HIDE DEF Lowest
  <2> QED BY <1>3, <2>1, <2>2, <2>3, <2>4 DEF Next, SearchStep
<1> QED BY <1>1, <1>2, <1>3, PlannerInvariant, PTL DEF Spec, FirstGapUsed

-----------------------------------------------------------------------------
(* The order of placement.  A list of n ids is a function on 1 .. n.       *)

IdLists(n) == [1 .. n -> Ids]
SizeOf(b) == requirements[b].size

(* One iteration of a pass of ReverseSortInPlace.                          *)
Exchanged(s, i) ==
    IF requirements[s[i]].size < requirements[s[i + 1]].size
    THEN [s EXCEPT ![i] = s[i + 1], ![i + 1] = s[i]] ELSE s

(* A comparison of neighbours exchanges them or leaves the list alone.     *)
LEMMA ExchangedType ==
    ASSUME NEW n \in Nat, NEW s \in IdLists(n), NEW i \in 1 .. n - 1
    PROVE  /\ Exchanged(s, i) \in IdLists(n)
           /\ SizeOf(s[i]) < SizeOf(s[i + 1]) =>
                 \A j \in 1 .. n : Exchanged(s, i)[j] = IF j = i THEN s[i + 1]
                                                        ELSE IF j = i + 1 THEN s[i] ELSE s[j]
           /\ ~(SizeOf(s[i]) < SizeOf(s[i + 1])) => Exchanged(s, i) = s
<1>1. i \in 1 .. n /\ i + 1 \in 1 .. n /\ i # i + 1
  OBVIOUS
<1>2. s[i] \in Ids /\ s[i + 1] \in Ids
  BY <1>1 DEF IdLists
<1> HIDE DEF Ids
<1> QED BY <1>1, <1>2 DEF Exchanged, IdLists, SizeOf

(* A pass is the exchanges for 1 .. n - 1, one after the other.            *)
IsPass(f, s, n) ==
    f \in [0 .. n - 1 -> IdLists(n)] /\ f[0] = s /\ \A k \in 1 .. n - 1 : f[k] = Exchanged(f[k - 1], k)

(* The states of one pass of the sort.                                     *)
LEMMA PassRuns ==
    ASSUME NEW n \in Nat \ {0}, NEW s \in IdLists(n)
    PROVE  \E f : IsPass(f, s, n) /\ Pass(s) = f[n - 1]
<1> DEFINE m == n - 1
           q == [i \in 1 .. m |-> i]
           step == [k \in 1 .. m |-> [x \in IdLists(n) |-> Exchanged(x, k)]]
           After(f) == [k \in 0 .. Len(q) |->
                          IF k = 0 THEN s
                          ELSE IF requirements[f[k - 1][q[k]]].size
                                  < requirements[f[k - 1][q[k] + 1]].size
                               THEN [f[k - 1] EXCEPT ![q[k]] = f[k - 1][q[k] + 1],
                                                     ![q[k] + 1] = f[k - 1][q[k]]]
                               ELSE f[k - 1]]
           run == CHOOSE f : f = After(f)
<1>1. m \in Nat /\ Len(s) = n /\ n \in Nat
  BY FunctionIsSeq DEF IdLists
<1>2. Len(q) = m /\ \A k \in 1 .. m : q[k] = k
  BY <1>1, FunctionIsSeq
<1>3. Pass(s) = run[m]
  <2>1. Pass(s) = run[Len(q)]
    BY <1>1 DEF Pass, Fold
  <2> QED BY <1>2, <2>1
<1>4. \E f : f = After(f)
  <2>1. step \in Steps(IdLists(n), m)
    BY <1>1, ExchangedType DEF Steps
  <2>2. PICK f : IsIteration(f, IdLists(n), m, s, step)
    <3> HIDE DEF step, m
    <3> QED BY <1>1, <2>1, IterationExists, Zenon
  <2>3. \A k \in 1 .. m : f[k - 1] \in IdLists(n)
    BY <1>1, <2>2 DEF IsIteration
  <2>4. \A k \in 1 .. m : f[k] = Exchanged(f[k - 1], k)
    BY <2>2, <2>3 DEF IsIteration
  <2>5. f = After(f)
    <3>1. \A k \in 0 .. m : k = 0 \/ k \in 1 .. m
      BY <1>1
    <3> QED BY <1>2, <2>2, <2>4, <3>1 DEF IsIteration, Exchanged
  <2> QED BY <2>5
<1>5. run = After(run)
  <2> HIDE DEF After
  <2> QED BY <1>4
<1> HIDE DEF run
<1>6. run[0] = s /\ \A k \in 1 .. m : run[k] = Exchanged(run[k - 1], k)
  <2>1. run[0] = s
    BY <1>1, <1>2, <1>5
  <2>2. ASSUME NEW k \in 1 .. m PROVE run[k] = Exchanged(run[k - 1], k)
    <3>1. k \in 0 .. Len(q) /\ k # 0 /\ q[k] = k
      BY <1>1, <1>2
    <3>2. After(run)[k] = Exchanged(run[k - 1], k)
      <4> HIDE DEF q
      <4> QED BY <3>1 DEF Exchanged
    <3> HIDE DEF After
    <3> QED BY <1>5, <3>2
  <2> QED BY <2>1, <2>2
<1> DEFINE T == {k \in 0 .. m : run[k] \in IdLists(n)}
<1>7. 0 \in T
  BY <1>1, <1>6
<1>8. ASSUME NEW k \in 1 .. m, k - 1 \in T PROVE k \in T
  BY <1>1, <1>6, <1>8, ExchangedType
<1>9. \A k \in 0 .. m : k \in T
  <2> HIDE DEF T, m
  <2> QED BY <1>1, <1>7, <1>8, UpTo
<1>10. run \in [0 .. m -> IdLists(n)]
  <2>1. run = [k \in 0 .. m |-> run[k]]
    BY <1>5, <1>2
  <2>2. \A k \in 0 .. m : run[k] \in IdLists(n)
    BY <1>9
  <2> HIDE DEF m
  <2> QED BY <2>1, <2>2
<1>11. IsPass(run, s, n)
  BY <1>6, <1>10 DEF IsPass
<1> QED BY <1>3, <1>11

Image(s, n) == {s[j] : j \in 1 .. n}

(* Ids of equal size are in descending order.                              *)
Stable(s, n) == \A j, k \in 1 .. n : j < k /\ SizeOf(s[j]) = SizeOf(s[k]) => s[j] > s[k]

(* The last m ids are where they belong.                                   *)
TailSorted(s, n, m) == \A j, k \in 1 .. n : j < k /\ k > n - m => SizeOf(s[j]) >= SizeOf(s[k])

(* Inside of pass m, after i exchanges: the smallest of the first i + 1    *)
(* has got to their end, and stays there once the sorted tail is reached.  *)
PassInv(s, n, m, i) ==
    /\ TailSorted(s, n, m - 1)
    /\ \A j \in 1 .. i : SizeOf(s[j]) >= SizeOf(s[i + 1])
    /\ i >= n - m => \A j \in 1 .. n - m : SizeOf(s[j]) >= SizeOf(s[n - m + 1])

(* A list of buffers has sizes.                                            *)
LEMMA SizesAreNat ==
    ASSUME requirements \in Seq(BufferRequirements), NEW n \in Nat, NEW s \in IdLists(n)
    PROVE  \A j \in 1 .. n : s[j] \in Ids /\ s[j] \in Nat /\ SizeOf(s[j]) \in Nat
<1>1. \A b \in Ids : b \in Nat /\ requirements[b] \in BufferRequirements
  BY DEF Ids
<1>2. \A j \in 1 .. n : s[j] \in Ids
  BY DEF IdLists
<1> QED BY <1>1, <1>2 DEF SizeOf, BufferRequirements

(* A comparison keeps the buffers, the order of those of one size, and     *)
(* moves the smallest on by one place.                                     *)
LEMMA ExchangeKeeps ==
    ASSUME requirements \in Seq(BufferRequirements), NEW n \in Nat \ {0}, NEW s \in IdLists(n),
           NEW m \in 1 .. n, NEW i \in 1 .. n - 1, Stable(s, n), PassInv(s, n, m, i - 1)
    PROVE  /\ Image(Exchanged(s, i), n) = Image(s, n) /\ Stable(Exchanged(s, i), n)
           /\ PassInv(Exchanged(s, i), n, m, i)
<1>1. \A j \in 1 .. n : s[j] \in Nat /\ SizeOf(s[j]) \in Nat
  BY SizesAreNat
<1>2. /\ \A j, k \in 1 .. n : j < k /\ k > n - m + 1 => SizeOf(s[j]) >= SizeOf(s[k])
      /\ \A j \in 1 .. i - 1 : SizeOf(s[j]) >= SizeOf(s[i])
      /\ i - 1 >= n - m => \A j \in 1 .. n - m : SizeOf(s[j]) >= SizeOf(s[n - m + 1])
  <2>1. TailSorted(s, n, m - 1) /\ n - (m - 1) = n - m + 1 /\ (i - 1) + 1 = i
    BY DEF PassInv
  <2> QED BY <2>1 DEF PassInv, TailSorted
<1>3. i \in 1 .. n /\ i + 1 \in 1 .. n /\ n \in Nat
  OBVIOUS
<1>4. CASE ~(SizeOf(s[i]) < SizeOf(s[i + 1]))
  <2>1. Exchanged(s, i) = s
    BY <1>3, <1>4, ExchangedType
  <2>2. SizeOf(s[i]) >= SizeOf(s[i + 1])
    BY <1>1, <1>3, <1>4
  <2>3. ASSUME NEW j \in 1 .. i PROVE SizeOf(s[j]) >= SizeOf(s[i + 1])
    <3>1. j = i \/ j \in 1 .. i - 1
      OBVIOUS
    <3>2. j \in 1 .. n
      BY <1>3
    <3> QED BY <1>1, <1>2, <1>3, <2>2, <3>1, <3>2
  <2>4. ASSUME i >= n - m, NEW j \in 1 .. n - m PROVE SizeOf(s[j]) >= SizeOf(s[n - m + 1])
    <3>1. i - 1 >= n - m \/ i = n - m
      BY <2>4
    <3> QED BY <1>2, <2>3, <3>1
  <2>5. PassInv(s, n, m, i)
    BY <2>3, <2>4 DEF PassInv
  <2> QED BY <2>1, <2>5
<1>5. CASE SizeOf(s[i]) < SizeOf(s[i + 1])
  <2> DEFINE t == Exchanged(s, i)
  <2>1. \A j \in 1 .. n : t[j] = IF j = i THEN s[i + 1] ELSE IF j = i + 1 THEN s[i] ELSE s[j]
    BY <1>3, <1>5, ExchangedType
  <2> HIDE DEF t
  <2>2. ~(i + 1 > n - m + 1)
    BY <1>1, <1>2, <1>3, <1>5
  <2>3. Image(t, n) = Image(s, n)
    <3>1. \A j \in 1 .. n : t[j] \in Image(s, n)
      BY <1>3, <2>1 DEF Image
    <3>2. t[i] = s[i + 1] /\ t[i + 1] = s[i] /\ i # i + 1
      BY <1>3, <2>1
    <3>3. \A j \in 1 .. n : s[j] \in Image(t, n)
      BY <1>3, <2>1, <3>2 DEF Image
    <3> QED BY <3>1, <3>3 DEF Image
  <2>4. Stable(t, n)
    <3> SUFFICES ASSUME NEW j \in 1 .. n, NEW k \in 1 .. n, j < k, SizeOf(t[j]) = SizeOf(t[k])
                 PROVE  t[j] > t[k]
      BY DEF Stable
    <3>1. ~(j = i /\ k = i + 1)
      <4> SUFFICES ASSUME j = i, k = i + 1 PROVE FALSE
        OBVIOUS
      <4>1. t[j] = s[i + 1] /\ t[k] = s[i]
        BY <1>3, <2>1
      <4> QED BY <1>1, <1>3, <1>5, <4>1
    <3> DEFINE x == IF j = i THEN i + 1 ELSE IF j = i + 1 THEN i ELSE j
               y == IF k = i THEN i + 1 ELSE IF k = i + 1 THEN i ELSE k
    <3>2. x \in 1 .. n /\ y \in 1 .. n /\ x < y
      BY <1>3, <3>1
    <3>3. t[j] = s[x] /\ t[k] = s[y]
      BY <2>1
    <3> HIDE DEF x, y
    <3> QED BY <3>2, <3>3 DEF Stable
  <2>5. TailSorted(t, n, m - 1)
    <3> SUFFICES ASSUME NEW j \in 1 .. n, NEW k \in 1 .. n, j < k, k > n - (m - 1)
                 PROVE  SizeOf(t[j]) >= SizeOf(t[k])
      BY DEF TailSorted
    <3> DEFINE x == IF j = i THEN i + 1 ELSE IF j = i + 1 THEN i ELSE j
    <3>1. k # i /\ k # i + 1 /\ k > n - m + 1
      BY <1>3, <2>2
    <3>2. x \in 1 .. n /\ x < k
      BY <1>3, <2>2, <3>1
    <3>3. t[j] = s[x] /\ t[k] = s[k]
      BY <2>1, <3>1
    <3> HIDE DEF x
    <3> QED BY <1>2, <3>1, <3>2, <3>3
  <2>6. ASSUME NEW j \in 1 .. i PROVE SizeOf(t[j]) >= SizeOf(t[i + 1])
    <3>1. t[i + 1] = s[i] /\ i # i + 1
      BY <1>3, <2>1
    <3>2. CASE j = i
      <4>1. t[j] = s[i + 1]
        BY <1>3, <2>1, <3>2
      <4> QED BY <1>1, <1>3, <1>5, <3>1, <4>1
    <3>3. CASE j # i
      <4>1. j \in 1 .. i - 1 /\ j \in 1 .. n /\ j # i + 1
        BY <1>3, <3>3
      <4>2. t[j] = s[j]
        BY <2>1, <3>3, <4>1
      <4> QED BY <1>2, <3>1, <4>1, <4>2
    <3> QED BY <3>2, <3>3
  <2>7. ASSUME i >= n - m, NEW j \in 1 .. n - m PROVE SizeOf(t[j]) >= SizeOf(t[n - m + 1])
    <3>1. i = n - m
      BY <1>3, <2>2, <2>7
    <3> QED BY <2>6, <3>1
  <2>8. PassInv(t, n, m, i)
    BY <2>5, <2>6, <2>7 DEF PassInv
  <2> QED BY <2>3, <2>4, <2>8 DEF t
<1> QED BY <1>4, <1>5

(* Pass m brings one more id to its place.                                 *)
LEMMA PassSorts ==
    ASSUME requirements \in Seq(BufferRequirements), NEW n \in Nat \ {0}, NEW s \in IdLists(n),
           NEW m \in 1 .. n, Stable(s, n), TailSorted(s, n, m - 1)
    PROVE  /\ Pass(s) \in IdLists(n) /\ Image(Pass(s), n) = Image(s, n)
           /\ Stable(Pass(s), n) /\ TailSorted(Pass(s), n, m)
<1>1. PICK f : IsPass(f, s, n) /\ Pass(s) = f[n - 1]
  BY PassRuns
<1> DEFINE Good(i) == Image(f[i], n) = Image(s, n) /\ Stable(f[i], n) /\ PassInv(f[i], n, m, i)
           T == {i \in 0 .. n - 1 : Good(i)}
<1>2. 0 \in T
  <2>1. PassInv(s, n, m, 0)
    <3>1. \A j \in 1 .. 0 : FALSE
      OBVIOUS
    <3>2. 0 >= n - m => \A j \in 1 .. n - m : FALSE
      OBVIOUS
    <3> QED BY <3>1, <3>2 DEF PassInv
  <2>2. f[0] = s /\ 0 \in 0 .. n - 1
    BY <1>1 DEF IsPass
  <2> QED BY <2>1, <2>2
<1>3. ASSUME NEW i \in 1 .. n - 1, i - 1 \in T PROVE i \in T
  <2>1. /\ f[i - 1] \in IdLists(n) /\ f[i] = Exchanged(f[i - 1], i)
        /\ Image(f[i - 1], n) = Image(s, n) /\ Stable(f[i - 1], n) /\ PassInv(f[i - 1], n, m, i - 1)
    BY <1>1, <1>3 DEF IsPass
  <2> DEFINE x == f[i - 1]
  <2> HIDE DEF x
  <2>2. Image(Exchanged(x, i), n) = Image(x, n) /\ Stable(Exchanged(x, i), n)
        /\ PassInv(Exchanged(x, i), n, m, i)
    BY <2>1, ExchangeKeeps DEF x
  <2> QED BY <2>1, <2>2 DEF x
<1>4. n - 1 \in T
  <2> DEFINE l == n - 1
  <2>1. l \in Nat /\ \A i \in 1 .. l : i - 1 \in T => i \in T
    BY <1>3
  <2> HIDE DEF T, l
  <2>2. \A i \in 0 .. l : i \in T
    BY <1>2, <2>1, UpTo
  <2> QED BY <2>1, <2>2 DEF l
<1> DEFINE t == f[n - 1]
<1>5. t \in IdLists(n) /\ Image(t, n) = Image(s, n) /\ Stable(t, n) /\ PassInv(t, n, m, n - 1)
  BY <1>1, <1>4 DEF IsPass
<1> HIDE DEF t
<1>6. TailSorted(t, n, m)
  <2> SUFFICES ASSUME NEW j \in 1 .. n, NEW k \in 1 .. n, j < k, k > n - m
               PROVE  SizeOf(t[j]) >= SizeOf(t[k])
    BY DEF TailSorted
  <2>1. CASE k > n - (m - 1)
    BY <1>5, <2>1 DEF PassInv, TailSorted
  <2>2. CASE ~(k > n - (m - 1))
    <3>1. k = n - m + 1 /\ j \in 1 .. n - m /\ n - 1 >= n - m
      BY <2>2
    <3> QED BY <1>5, <3>1 DEF PassInv
  <2> QED BY <2>1, <2>2
<1> QED BY <1>1, <1>5, <1>6 DEF t

(* A pass leaves a list of buffers.                                        *)
LEMMA PassType ==
    ASSUME NEW n \in Nat \ {0}, NEW s \in IdLists(n)
    PROVE  Pass(s) \in IdLists(n)
<1>1. PICK f : IsPass(f, s, n) /\ Pass(s) = f[n - 1]
  BY PassRuns
<1>2. n - 1 \in 0 .. n - 1
  OBVIOUS
<1> QED BY <1>1, <1>2 DEF IsPass

(* The sort is one pass for each id, one after the other.                  *)
IsSort(f, s, n) ==
    f \in [0 .. n -> IdLists(n)] /\ f[0] = s /\ \A k \in 1 .. n : f[k] = Pass(f[k - 1])

(* The states of the sort between its passes.                              *)
LEMMA SortRuns ==
    ASSUME NEW n \in Nat, NEW s \in IdLists(n)
    PROVE  \E f : IsSort(f, s, n) /\ ReverseSortInPlace(s) = f[n]
<1> DEFINE step == [k \in 1 .. n |-> [x \in IdLists(n) |-> Pass(x)]]
           After(f) == [k \in 0 .. Len(s) |-> IF k = 0 THEN s ELSE Pass(f[k - 1])]
           run == CHOOSE f : f = After(f)
<1>1. Len(s) = n
  BY FunctionIsSeq DEF IdLists
<1>2. ReverseSortInPlace(s) = run[n]
  <2>1. ReverseSortInPlace(s) = run[Len(s)]
    BY DEF ReverseSortInPlace, Fold
  <2> QED BY <1>1, <2>1
<1>3. \E f : f = After(f)
  <2>1. step \in Steps(IdLists(n), n)
    BY PassType DEF Steps
  <2>2. PICK f : IsIteration(f, IdLists(n), n, s, step)
    <3> HIDE DEF step
    <3> QED BY <2>1, IterationExists, Zenon
  <2>3. \A k \in 1 .. n : f[k - 1] \in IdLists(n)
    BY <2>2 DEF IsIteration
  <2>4. \A k \in 1 .. n : f[k] = Pass(f[k - 1])
    BY <2>2, <2>3 DEF IsIteration
  <2>5. f = After(f)
    <3>1. \A k \in 0 .. n : k = 0 \/ k \in 1 .. n
      OBVIOUS
    <3> QED BY <1>1, <2>2, <2>4, <3>1 DEF IsIteration
  <2> QED BY <2>5
<1>4. run = After(run)
  <2> HIDE DEF After
  <2> QED BY <1>3
<1> HIDE DEF run
<1>5. run[0] = s /\ \A k \in 1 .. n : run[k] = Pass(run[k - 1])
  <2>1. run[0] = s
    BY <1>1, <1>4
  <2>2. ASSUME NEW k \in 1 .. n PROVE run[k] = Pass(run[k - 1])
    <3>1. k \in 0 .. Len(s) /\ k # 0
      BY <1>1
    <3>2. After(run)[k] = Pass(run[k - 1])
      BY <3>1
    <3> HIDE DEF After
    <3> QED BY <1>4, <3>2
  <2> QED BY <2>1, <2>2
<1> DEFINE T == {k \in 0 .. n : run[k] \in IdLists(n)}
<1>6. 0 \in T
  BY <1>5
<1>7. ASSUME NEW k \in 1 .. n, k - 1 \in T PROVE k \in T
  BY <1>5, <1>7, PassType
<1>8. \A k \in 0 .. n : k \in T
  <2> HIDE DEF T
  <2> QED BY <1>6, <1>7, UpTo
<1>9. run \in [0 .. n -> IdLists(n)]
  <2>1. run = [k \in 0 .. n |-> run[k]]
    BY <1>1, <1>4
  <2>2. \A k \in 0 .. n : run[k] \in IdLists(n)
    BY <1>8
  <2> QED BY <2>1, <2>2
<1> QED BY <1>2, <1>5, <1>9 DEF IsSort

(* ReverseSortInPlace puts the sizes in descending order, and leaves the   *)
(* order of equal ones as it was.                                          *)
LEMMA SortSorts ==
    ASSUME requirements \in Seq(BufferRequirements), NEW n \in Nat, NEW s \in IdLists(n), Stable(s, n)
    PROVE  /\ ReverseSortInPlace(s) \in IdLists(n) /\ Image(ReverseSortInPlace(s), n) = Image(s, n)
           /\ Stable(ReverseSortInPlace(s), n) /\ TailSorted(ReverseSortInPlace(s), n, n)
<1>1. PICK f : IsSort(f, s, n) /\ ReverseSortInPlace(s) = f[n]
  BY SortRuns
<1> DEFINE Good(m) == Image(f[m], n) = Image(s, n) /\ Stable(f[m], n) /\ TailSorted(f[m], n, m)
           T == {m \in 0 .. n : Good(m)}
<1>2. 0 \in T
  <2>1. TailSorted(s, n, 0)
    BY DEF TailSorted
  <2> QED BY <1>1, <2>1 DEF IsSort
<1>3. ASSUME NEW m \in 1 .. n, m - 1 \in T PROVE m \in T
  <2> DEFINE x == f[m - 1]
  <2>1. x \in IdLists(n) /\ f[m] = Pass(x) /\ n \in Nat \ {0}
        /\ Image(x, n) = Image(s, n) /\ Stable(x, n) /\ TailSorted(x, n, m - 1)
    BY <1>1, <1>3 DEF IsSort
  <2> HIDE DEF x
  <2>2. Image(Pass(x), n) = Image(x, n) /\ Stable(Pass(x), n) /\ TailSorted(Pass(x), n, m)
    BY <2>1, PassSorts
  <2> QED BY <2>1, <2>2
<1>4. n \in T
  <2> HIDE DEF T
  <2>1. \A m \in 0 .. n : m \in T
    BY <1>2, <1>3, UpTo
  <2> QED BY <2>1
<1>5. f[n] \in IdLists(n)
  BY <1>1 DEF IsSort
<1> QED BY <1>1, <1>4, <1>5

(* The loop that parts the ids into offline and online planned ones.       *)
SplitLists == [head : Seq(Ids), tail : Seq(Ids)]

SplitStep(s, i) ==
    IF Online(i) THEN [s EXCEPT !.tail = <<i>> \o @] ELSE [s EXCEPT !.head = Append(@, i)]

(* A buffer goes to the head if it has a fixed offset and in front of the  *)
(* tail if not.                                                            *)
LEMMA SplitStepFacts ==
    ASSUME NEW s \in SplitLists, NEW i \in Ids
    PROVE  /\ SplitStep(s, i) \in SplitLists
           /\ Online(i) => /\ SplitStep(s, i).head = s.head
                           /\ SplitStep(s, i).tail = <<i>> \o s.tail
           /\ ~Online(i) => /\ SplitStep(s, i).tail = s.tail
                            /\ SplitStep(s, i).head = Append(s.head, i)
<1>1. s.head \in Seq(Ids) /\ s.tail \in Seq(Ids)
  BY DEF SplitLists
<1>2. <<i>> \o s.tail \in Seq(Ids) /\ Append(s.head, i) \in Seq(Ids)
  <2> HIDE DEF Ids
  <2> QED BY <1>1
<1> DEFINE a == <<i>> \o s.tail
           b == Append(s.head, i)
<1>3. SplitStep(s, i) = IF Online(i) THEN [s EXCEPT !.tail = a] ELSE [s EXCEPT !.head = b]
  BY DEF SplitStep
<1>4. a \in Seq(Ids) /\ b \in Seq(Ids)
  BY <1>2
<1> HIDE DEF a, b
<1>5. \/ Online(i) /\ SplitStep(s, i) = [head |-> s.head, tail |-> a]
      \/ ~Online(i) /\ SplitStep(s, i) = [head |-> b, tail |-> s.tail]
  BY <1>3 DEF SplitLists
<1>6. SplitStep(s, i) \in SplitLists
  BY <1>1, <1>4, <1>5 DEF SplitLists
<1>7. /\ Online(i) => SplitStep(s, i).head = s.head /\ SplitStep(s, i).tail = a
      /\ ~Online(i) => SplitStep(s, i).tail = s.tail /\ SplitStep(s, i).head = b
  BY <1>5
<1> QED BY <1>6, <1>7 DEF a, b

IsSplit(f, n) ==
    /\ f \in [0 .. n -> SplitLists] /\ f[0] = [head |-> <<>>, tail |-> <<>>]
    /\ \A k \in 1 .. n : f[k] = SplitStep(f[k - 1], k)

(* The states of the loop that separates buffers with a fixed offset.      *)
LEMMA SplitRuns ==
    ASSUME requirements \in Seq(BufferRequirements)
    PROVE  \E f : /\ IsSplit(f, Len(requirements))
                  /\ BufferIdsSorted = f[Len(requirements)].head
                                       \o ReverseSortInPlace(f[Len(requirements)].tail)
<1> DEFINE n == Len(requirements)
           q == [i \in Ids |-> i]
           base == [head |-> <<>>, tail |-> <<>>]
           step == [k \in 1 .. n |-> [x \in SplitLists |-> SplitStep(x, k)]]
           After(f) == [k \in 0 .. Len(q) |->
                          IF k = 0 THEN base
                          ELSE IF Online(q[k]) THEN [f[k - 1] EXCEPT !.tail = <<q[k]>> \o @]
                               ELSE [f[k - 1] EXCEPT !.head = Append(@, q[k])]]
           run == CHOOSE f : f = After(f)
<1>1. n \in Nat /\ Ids = 1 .. n
  BY DEF Ids
<1>2. Len(q) = n /\ \A k \in 1 .. n : q[k] = k
  BY <1>1, FunctionIsSeq
<1>3. BufferIdsSorted = run[n].head \o ReverseSortInPlace(run[n].tail)
  <2>1. BufferIdsSorted = run[Len(q)].head \o ReverseSortInPlace(run[Len(q)].tail)
    BY DEF BufferIdsSorted, Fold
  <2> QED BY <1>2, <2>1
<1>4. base \in SplitLists
  BY DEF SplitLists
<1>5. \E f : f = After(f)
  <2>1. step \in Steps(SplitLists, n)
    BY <1>1, SplitStepFacts DEF Steps
  <2>2. PICK f : IsIteration(f, SplitLists, n, base, step)
    <3> HIDE DEF step, base, n
    <3> QED BY <1>1, <1>4, <2>1, IterationExists, Zenon
  <2>3. \A k \in 1 .. n : f[k - 1] \in SplitLists
    BY <1>1, <2>2 DEF IsIteration
  <2>4. \A k \in 1 .. n : f[k] = SplitStep(f[k - 1], k)
    BY <2>2, <2>3 DEF IsIteration
  <2>5. f = After(f)
    <3>1. \A k \in 0 .. n : k = 0 \/ k \in 1 .. n
      BY <1>1
    <3> HIDE DEF base
    <3>2. f \in [0 .. n -> SplitLists] /\ f[0] = base
      BY <2>2 DEF IsIteration
    <3>3. ASSUME NEW k \in 0 .. n PROVE f[k] = After(f)[k]
      <4>1. CASE k = 0
        BY <1>2, <3>2, <4>1
      <4>2. CASE k # 0
        <5>1. k \in 1 .. n /\ k \in 0 .. Len(q) /\ q[k] = k
          BY <1>2, <3>1, <4>2
        <5>2. After(f)[k] = SplitStep(f[k - 1], k)
          <6> HIDE DEF q
          <6> QED BY <4>2, <5>1 DEF SplitStep
        <5> HIDE DEF After
        <5> QED BY <2>4, <5>1, <5>2
      <4> QED BY <4>1, <4>2
    <3>4. After(f) = [k \in 0 .. n |-> After(f)[k]]
      BY <1>2
    <3> HIDE DEF After
    <3> QED BY <3>2, <3>3, <3>4
  <2> QED BY <2>5
<1>6. run = After(run)
  <2> HIDE DEF After
  <2> QED BY <1>5
<1> HIDE DEF run, base
<1>7. run[0] = base /\ \A k \in 1 .. n : run[k] = SplitStep(run[k - 1], k)
  <2>1. run[0] = base
    BY <1>1, <1>2, <1>6
  <2>2. ASSUME NEW k \in 1 .. n PROVE run[k] = SplitStep(run[k - 1], k)
    <3>1. k \in 0 .. Len(q) /\ k # 0 /\ q[k] = k
      BY <1>1, <1>2
    <3>2. After(run)[k] = SplitStep(run[k - 1], k)
      <4> HIDE DEF q
      <4> QED BY <3>1 DEF SplitStep
    <3> HIDE DEF After
    <3> QED BY <1>6, <3>2
  <2> QED BY <2>1, <2>2
<1> DEFINE T == {k \in 0 .. n : run[k] \in SplitLists}
<1>8. 0 \in T
  BY <1>1, <1>4, <1>7
<1>9. ASSUME NEW k \in 1 .. n, k - 1 \in T PROVE k \in T
  <2>1. run[k - 1] \in SplitLists /\ k \in Ids /\ k \in 0 .. n
    BY <1>1, <1>9
  <2>2. SplitStep(run[k - 1], k) \in SplitLists
    BY <2>1, SplitStepFacts, Zenon
  <2> QED BY <1>7, <2>1, <2>2
<1>10. \A k \in 0 .. n : k \in T
  <2> HIDE DEF T, n
  <2> QED BY <1>1, <1>8, <1>9, UpTo
<1>11. run \in [0 .. n -> SplitLists]
  <2>1. run = [k \in 0 .. n |-> run[k]]
    BY <1>6, <1>2
  <2>2. \A k \in 0 .. n : run[k] \in SplitLists
    BY <1>10
  <2> HIDE DEF n
  <2> QED BY <2>1, <2>2
<1> QED BY <1>3, <1>7, <1>11 DEF IsSplit, base

(* After i ids: offline planned ones ascending, the others descending.     *)
SplitInv(s, i) ==
    /\ Elements(s.head) = {b \in 1 .. i : ~Online(b)}
    /\ Elements(s.tail) = {b \in 1 .. i : Online(b)}
    /\ \A j, k \in 1 .. Len(s.head) : j < k => s.head[j] < s.head[k]
    /\ \A j, k \in 1 .. Len(s.tail) : j < k => s.tail[j] > s.tail[k]

(* Separating one more buffer keeps the order within both lists.           *)
LEMMA SplitStepKeeps ==
    ASSUME requirements \in Seq(BufferRequirements), NEW s \in SplitLists, NEW i \in Ids,
           SplitInv(s, i - 1)
    PROVE  SplitInv(SplitStep(s, i), i)
<1> DEFINE h == s.head
           t == s.tail
           u == SplitStep(s, i)
<1>1. h \in Seq(Ids) /\ t \in Seq(Ids) /\ Len(h) \in Nat /\ Len(t) \in Nat
  <2>1. h \in Seq(Ids) /\ t \in Seq(Ids)
    BY DEF SplitLists
  <2> QED BY <2>1, LenProperties
<1>2. /\ Elements(h) = {b \in 1 .. i - 1 : ~Online(b)}
      /\ Elements(t) = {b \in 1 .. i - 1 : Online(b)}
      /\ \A j, k \in 1 .. Len(h) : j < k => h[j] < h[k]
      /\ \A j, k \in 1 .. Len(t) : j < k => t[j] > t[k]
  BY DEF SplitInv
<1>3. i \in Nat /\ 1 .. i = (1 .. i - 1) \cup {i}
  BY DEF Ids
<1>4. CASE ~Online(i)
  <2>1. u.tail = t /\ u.head = Append(h, i)
    BY <1>4, SplitStepFacts
  <2>2. /\ Len(Append(h, i)) = Len(h) + 1
        /\ \A j \in 1 .. Len(h) : Append(h, i)[j] = h[j]
        /\ Append(h, i)[Len(h) + 1] = i
    BY <1>1, AppendProperties
  <2>3. Elements(Append(h, i)) = Elements(h) \cup {i}
    <3> HIDE DEF h
    <3> QED BY <1>1, ElementsAppend
  <2>4. \A j \in 1 .. Len(h) : h[j] \in Int /\ h[j] < i
    <3>1. \A j \in 1 .. Len(h) : h[j] \in Elements(h)
      BY DEF Elements
    <3> QED BY <1>2, <1>3, <3>1
  <2> HIDE DEF h, t, u
  <2>5. ASSUME NEW j \in 1 .. Len(h) + 1, NEW k \in 1 .. Len(h) + 1, j < k
        PROVE  Append(h, i)[j] < Append(h, i)[k]
    <3>1. j \in 1 .. Len(h) /\ (k = Len(h) + 1 \/ k \in 1 .. Len(h))
      BY <1>1, <2>5
    <3> QED BY <1>2, <2>2, <2>4, <2>5, <3>1
  <2>6. /\ Elements(u.head) = {b \in 1 .. i : ~Online(b)}
        /\ Elements(u.tail) = {b \in 1 .. i : Online(b)}
    BY <1>2, <1>3, <1>4, <2>1, <2>3
  <2> QED BY <1>2, <2>1, <2>2, <2>5, <2>6 DEF SplitInv, u
<1>5. CASE Online(i)
  <2>1. u.head = h /\ u.tail = <<i>> \o t
    BY <1>5, SplitStepFacts
  <2> HIDE DEF h, t, u
  <2>2. /\ Len(<<i>> \o t) = Len(t) + 1
        /\ \A j \in 1 .. Len(t) + 1 : (<<i>> \o t)[j] = IF j = 1 THEN i ELSE t[j - 1]
    <3> HIDE DEF Ids
    <3> QED BY <1>1
  <2> DEFINE v == <<i>> \o t
  <2> HIDE DEF v
  <2>3. Len(v) = Len(t) + 1 /\ \A j \in 1 .. Len(t) + 1 : v[j] = IF j = 1 THEN i ELSE t[j - 1]
    BY <2>2 DEF v
  <2>4. Elements(v) = Elements(t) \cup {i}
    <3>1. \A j \in 1 .. Len(t) + 1 : j = 1 \/ j - 1 \in 1 .. Len(t)
      BY <1>1
    <3>2. \A j \in 1 .. Len(t) + 1 : v[j] \in Elements(t) \cup {i}
      BY <2>3, <3>1 DEF Elements
    <3>3. ASSUME NEW j \in 1 .. Len(t) PROVE t[j] \in Elements(v)
      <4>1. j + 1 \in 1 .. Len(t) + 1 /\ j + 1 # 1 /\ (j + 1) - 1 = j
        BY <1>1
      <4> QED BY <2>3, <4>1 DEF Elements
    <3>4. i \in Elements(v)
      <4>1. 1 \in 1 .. Len(t) + 1
        BY <1>1
      <4> QED BY <2>3, <4>1 DEF Elements
    <3> QED BY <2>3, <3>2, <3>3, <3>4 DEF Elements
  <2>5. \A j \in 1 .. Len(t) : t[j] \in Int /\ t[j] < i
    <3>1. \A j \in 1 .. Len(t) : t[j] \in Elements(t)
      BY DEF Elements
    <3> QED BY <1>2, <1>3, <3>1
  <2>6. ASSUME NEW j \in 1 .. Len(t) + 1, NEW k \in 1 .. Len(t) + 1, j < k
        PROVE  v[j] > v[k]
    <3>1. k # 1 /\ k - 1 \in 1 .. Len(t) /\ (j = 1 \/ (j - 1 \in 1 .. Len(t) /\ j - 1 < k - 1))
      BY <1>1, <2>6
    <3>2. CASE j = 1
      BY <1>3, <2>3, <2>5, <3>1, <3>2
    <3>3. CASE j # 1
      BY <1>2, <2>3, <3>1, <3>3
    <3> QED BY <3>2, <3>3
  <2>7. /\ Elements(u.head) = {b \in 1 .. i : ~Online(b)}
        /\ Elements(u.tail) = {b \in 1 .. i : Online(b)}
    BY <1>2, <1>3, <1>5, <2>1, <2>4 DEF v
  <2> QED BY <1>2, <2>1, <2>3, <2>6, <2>7 DEF SplitInv, u, v
<1> QED BY <1>4, <1>5

(* Before is a strict order on the ids.                                    *)
LEMMA BeforeStrict ==
    ASSUME requirements \in Seq(BufferRequirements), NEW b \in Ids, NEW c \in Ids, Before(b, c)
    PROVE  ~Before(c, b)
<1>1. \A d \in Ids : d \in Int /\ requirements[d] \in BufferRequirements
  BY DEF Ids
<1>2. /\ b \in Int /\ c \in Int
      /\ requirements[b].size \in Nat /\ requirements[c].size \in Nat
  BY <1>1 DEF BufferRequirements
<1> QED BY <1>2 DEF Before

(* buffer_ids_sorted_ has every id, in the order of Before.                *)
LEMMA SortedIdsFacts ==
    ASSUME requirements \in Seq(BufferRequirements)
    PROVE  /\ Len(BufferIdsSorted) \in Nat
           /\ Elements(BufferIdsSorted) = Ids
           /\ \A j, k \in 1 .. Len(BufferIdsSorted) :
                 j < k => Before(BufferIdsSorted[j], BufferIdsSorted[k])
<1> DEFINE n == Len(requirements)
<1>1. n \in Nat /\ Ids = 1 .. n
  BY DEF Ids
<1>2. PICK f : /\ IsSplit(f, n)
               /\ BufferIdsSorted = f[n].head \o ReverseSortInPlace(f[n].tail)
  BY SplitRuns
<1> DEFINE T == {i \in 0 .. n : SplitInv(f[i], i)}
<1>3. 0 \in T
  <2> DEFINE e == [head |-> <<>>, tail |-> <<>>]
  <2>1. f[0] = e
    BY <1>2 DEF IsSplit
  <2>2. e.head = <<>> /\ e.tail = <<>> /\ Len(<<>>) = 0 /\ \A j \in 1 .. 0 : FALSE
    OBVIOUS
  <2> HIDE DEF e
  <2>3. Elements(e.head) = {} /\ Elements(e.tail) = {}
    BY <2>2 DEF Elements
  <2>4. SplitInv(e, 0)
    BY <2>2, <2>3 DEF SplitInv
  <2> QED BY <1>1, <2>1, <2>4
<1>4. ASSUME NEW i \in 1 .. n, i - 1 \in T PROVE i \in T
  <2>1. f[i - 1] \in SplitLists /\ f[i] = SplitStep(f[i - 1], i) /\ i \in Ids /\ SplitInv(f[i - 1], i - 1)
    BY <1>1, <1>2, <1>4 DEF IsSplit
  <2> DEFINE x == f[i - 1]
  <2> HIDE DEF x
  <2>2. SplitInv(SplitStep(x, i), i)
    BY <2>1, SplitStepKeeps DEF x
  <2> QED BY <2>1, <2>2 DEF x
<1>5. n \in T
  <2> HIDE DEF T, n
  <2>1. \A i \in 0 .. n : i \in T
    BY <1>1, <1>3, <1>4, UpTo
  <2> QED BY <1>1, <2>1
<1> DEFINE h == f[n].head
           t == f[n].tail
           l == Len(h)
           m == Len(t)
           r == ReverseSortInPlace(t)
<1>6. SplitInv(f[n], n) /\ f[n] \in SplitLists
  BY <1>1, <1>2, <1>5 DEF IsSplit
<1>7. h \in Seq(Ids) /\ t \in Seq(Ids) /\ l \in Nat /\ m \in Nat
  <2>1. h \in Seq(Ids) /\ t \in Seq(Ids)
    BY <1>6 DEF SplitLists
  <2> QED BY <2>1, LenProperties
<1>8. /\ Elements(h) = {b \in Ids : ~Online(b)}
      /\ Elements(t) = {b \in Ids : Online(b)}
      /\ \A j, k \in 1 .. l : j < k => h[j] < h[k]
      /\ \A j, k \in 1 .. m : j < k => t[j] > t[k]
  BY <1>1, <1>6 DEF SplitInv
<1> HIDE DEF h, t, l, m
<1>9. t \in IdLists(m) /\ Stable(t, m)
  <2>1. t \in IdLists(m)
    BY <1>7 DEF IdLists, m
  <2> QED BY <1>8, <2>1 DEF Stable
<1>10. r \in IdLists(m) /\ Image(r, m) = Image(t, m) /\ Stable(r, m) /\ TailSorted(r, m, m)
  BY <1>7, <1>9, SortSorts
<1> HIDE DEF r
<1>11. r \in Seq(Ids) /\ Len(r) = m
  BY <1>7, <1>10, FunctionIsSeq DEF IdLists
<1> DEFINE w == h \o r
<1>12. BufferIdsSorted = w
  BY <1>2 DEF h, r, t
<1>13. Len(w) = l + m /\ \A j \in 1 .. l + m : w[j] = IF j <= l THEN h[j] ELSE r[j - l]
  <2> HIDE DEF Ids
  <2>1. l = Len(h)
    BY DEF l
  <2> QED BY <1>7, <1>11, <2>1, ConcatProperties
<1> HIDE DEF w
<1>14. \A j \in 1 .. l + m : j \in 1 .. l \/ (~(j <= l) /\ j - l \in 1 .. m)
  BY <1>7
<1>15. /\ \A j \in 1 .. l : h[j] \in Ids /\ ~Online(h[j])
       /\ \A j \in 1 .. m : r[j] \in Ids /\ Online(r[j])
  <2>1. \A j \in 1 .. l : h[j] \in Elements(h)
    BY DEF Elements, l
  <2>2. \A j \in 1 .. m : r[j] \in Elements(t)
    BY <1>10 DEF Elements, Image, m
  <2> QED BY <1>8, <2>1, <2>2
<1>16. Elements(w) = Ids
  <2>1. ASSUME NEW j \in 1 .. l + m PROVE w[j] \in Ids
    BY <1>7, <1>13, <1>14, <1>15
  <2>2. ASSUME NEW b \in Ids PROVE b \in Elements(w)
    <3>1. CASE ~Online(b)
      <4>1. PICK j \in 1 .. l : b = h[j]
        BY <1>8, <3>1 DEF Elements, l
      <4>2. j \in 1 .. l + m /\ j <= l
        BY <1>7
      <4> QED BY <1>13, <4>1, <4>2 DEF Elements
    <3>2. CASE Online(b)
      <4>1. b \in Image(r, m)
        BY <1>8, <1>10, <3>2 DEF Elements, Image, m
      <4>2. PICK j \in 1 .. m : b = r[j]
        BY <4>1 DEF Image
      <4>3. j + l \in 1 .. l + m /\ ~(j + l <= l) /\ (j + l) - l = j
        BY <1>7
      <4> QED BY <1>13, <4>2, <4>3 DEF Elements
    <3> QED BY <3>1, <3>2
  <2> QED BY <1>13, <2>1, <2>2 DEF Elements
<1>17. ASSUME NEW j \in 1 .. l + m, NEW k \in 1 .. l + m, j < k
       PROVE  Before(w[j], w[k])
  <2>1. CASE k <= l
    <3>1. j \in 1 .. l /\ k \in 1 .. l /\ j <= l
      BY <1>7, <1>17, <2>1
    <3>2. w[j] = h[j] /\ w[k] = h[k] /\ h[j] < h[k]
      BY <1>8, <1>13, <1>17, <2>1, <3>1
    <3> QED BY <1>15, <3>1, <3>2 DEF Before
  <2>2. CASE j <= l /\ ~(k <= l)
    <3>1. j \in 1 .. l /\ k - l \in 1 .. m
      BY <1>7, <2>2
    <3>2. w[j] = h[j] /\ w[k] = r[k - l]
      BY <1>13, <2>2
    <3> QED BY <1>15, <3>1, <3>2 DEF Before
  <2>3. CASE ~(j <= l)
    <3> DEFINE x == j - l
               y == k - l
    <3>1. x \in 1 .. m /\ y \in 1 .. m /\ x < y /\ ~(k <= l) /\ y > m - m
      BY <1>7, <1>17, <2>3
    <3>2. w[j] = r[x] /\ w[k] = r[y]
      BY <1>13, <2>3, <3>1
    <3> HIDE DEF x, y
    <3>3. SizeOf(r[x]) >= SizeOf(r[y])
      BY <1>10, <3>1 DEF TailSorted
    <3>4. SizeOf(r[x]) = SizeOf(r[y]) => r[x] > r[y]
      BY <1>10, <3>1 DEF Stable
    <3>5. SizeOf(r[x]) \in Nat /\ SizeOf(r[y]) \in Nat
      BY <1>7, <1>10, <3>1, SizesAreNat
    <3>6. SizeOf(r[x]) > SizeOf(r[y]) \/ (SizeOf(r[x]) = SizeOf(r[y]) /\ r[x] > r[y])
      BY <3>3, <3>4, <3>5
    <3> QED BY <1>15, <3>1, <3>2, <3>6 DEF Before, SizeOf
  <2> QED BY <1>7, <2>1, <2>2, <2>3
<1>18. Len(w) \in Nat
  BY <1>7, <1>13
<1> QED BY <1>12, <1>13, <1>16, <1>17, <1>18

(* The list with b inserted has one entry more, and b's.                   *)
LEMMA PlacedAfter ==
    ASSUME entries \in Seq(Entry), NEW b, PlaceBuffer(b)
    PROVE  Len(entries') = Len(entries) + 1 /\ Placed' = Placed \cup {b}
<1> DEFINE e == [offset |-> PlaceOffset(b), requirements_index |-> b]
           S == Entry \cup {e}
<1>1. PICK k \in 1 .. Len(entries) + 1 : entries' = Insert(e, k)
  BY DEF PlaceBuffer
<1>2. entries \in Seq(S) /\ e \in S /\ Len(entries) \in Nat
  BY SeqMonotonic
<1>3. e.requirements_index = b
  OBVIOUS
<1> HIDE DEF S, e
<1>4. /\ Len(entries') = Len(entries) + 1
      /\ \A j \in 1 .. Len(entries) + 1 :
            entries'[j] = IF j < k THEN entries[j] ELSE IF j = k THEN e ELSE entries[j - 1]
  BY <1>1, <1>2, InsertProperties
<1>5. Placed' \ Placed \subseteq {b}
  BY <1>1, <1>3, InsertPlaces
<1>6. b \in Placed'
  BY <1>3, <1>4 DEF Placed
<1>7. ASSUME NEW j \in 1 .. Len(entries) PROVE entries[j].requirements_index \in Placed'
  <2>1. CASE j < k
    <3>1. j \in 1 .. Len(entries) + 1 /\ entries'[j] = entries[j]
      BY <1>2, <1>4, <2>1
    <3> QED BY <1>4, <3>1 DEF Placed
  <2>2. CASE ~(j < k)
    <3>1. j + 1 \in 1 .. Len(entries) + 1 /\ entries'[j + 1] = entries[j]
      <4>1. j + 1 \in 1 .. Len(entries) + 1 /\ ~(j + 1 < k) /\ j + 1 # k /\ (j + 1) - 1 = j
        BY <1>2, <2>2
      <4> QED BY <1>4, <4>1
    <3> QED BY <1>4, <3>1 DEF Placed
  <2> QED BY <2>1, <2>2
<1> QED BY <1>4, <1>5, <1>6, <1>7 DEF Placed

(* The buffer that is wanted is the next of buffer_ids_sorted_.            *)
LEMMA WantedIsNext ==
    ASSUME requirements \in Seq(BufferRequirements), Len(entries) \in Nat,
           Len(entries) <= Len(BufferIdsSorted), searching, SortedOrder, NEW b, Wanted(b)
    PROVE  Len(entries) < Len(BufferIdsSorted) /\ b = BufferIdsSorted[Len(entries) + 1]
<1> DEFINE w == BufferIdsSorted
           n == Len(entries)
           c == w[n + 1]
<1>1. /\ Len(w) \in Nat /\ Elements(w) = Ids
      /\ \A j, k \in 1 .. Len(w) : j < k => Before(w[j], w[k])
  BY SortedIdsFacts
<1>2. Placed = {w[i] : i \in 1 .. n} /\ n \in Nat /\ n <= Len(w)
  BY DEF SortedOrder
<1> HIDE DEF w, n
<1>3. b \in Ids /\ b \notin Placed /\ \A d \in Ids : d \notin Placed /\ d # b => Before(b, d)
  BY DEF Wanted, Unplaced
<1>4. PICK j \in 1 .. Len(w) : b = w[j]
  BY <1>1, <1>3 DEF Elements
<1>5. ~(j <= n)
  <2>1. j <= n => j \in 1 .. n
    BY <1>1, <1>2
  <2> QED BY <1>2, <1>3, <1>4, <2>1
<1>6. n < Len(w) /\ n + 1 \in 1 .. Len(w) /\ (j = n + 1 \/ n + 1 < j)
  BY <1>1, <1>2, <1>5
<1>7. c \in Ids
  BY <1>1, <1>6 DEF Elements
<1> HIDE DEF c
<1>8. c \notin Placed
  <2> SUFFICES ASSUME NEW i \in 1 .. n, c = w[i] PROVE FALSE
    BY <1>2
  <2>1. i \in 1 .. Len(w) /\ i < n + 1
    BY <1>1, <1>2
  <2>2. Before(c, c)
    BY <1>1, <1>6, <2>1 DEF c
  <2> QED BY <1>7, <2>2, BeforeStrict
<1>9. b = c
  <2> SUFFICES ASSUME b # c PROVE FALSE
    OBVIOUS
  <2>1. Before(b, c)
    BY <1>3, <1>7, <1>8
  <2>2. n + 1 < j
    BY <1>4, <1>6 DEF c
  <2>3. Before(c, b)
    BY <1>1, <1>4, <1>6, <2>2 DEF c
  <2> QED BY <1>3, <1>7, <2>1, <2>3, BeforeStrict
<1> QED BY <1>6, <1>9 DEF c, w, n

(* The search has placed the first ids of buffer_ids_sorted_.              *)
OrderInv == (searching => Len(entries) <= Len(BufferIdsSorted)) /\ SortedOrder

(* The order depends on the requirements only.                             *)
LEMMA SortedIdsSame ==
    ASSUME requirements' = requirements
    PROVE  BufferIdsSorted' = BufferIdsSorted
  BY DEF BufferIdsSorted, ReverseSortInPlace, Pass, Online, Ids, Fold

(* Every step keeps OrderInv.                                              *)
LEMMA OrderStep ==
    ASSUME PlannerInv, OrderInv, [Next]_vars
    PROVE  OrderInv'
<1>1. requirements \in Seq(BufferRequirements) /\ entries \in Seq(Entry) /\ Len(entries) \in Nat
  BY DEF PlannerInv, TypeOK
<1> DEFINE w == BufferIdsSorted
<1>2. Len(w) \in Nat
  BY <1>1, SortedIdsFacts
<1>3. ASSUME NEW r \in Requirements, AddBuffer(r) PROVE OrderInv'
  BY <1>3 DEF AddBuffer, OrderInv, SortedOrder
<1>4. CASE CalculateOffsetsIfNeeded
  <2>1. w' = w
    BY <1>4, SortedIdsSame DEF CalculateOffsetsIfNeeded
  <2> HIDE DEF w
  <2>2. Len(entries') = 0 /\ Placed' = {} /\ 1 .. 0 = {}
    BY <1>4 DEF CalculateOffsetsIfNeeded, Placed
  <2>3. SortedOrder'
    BY <2>2 DEF SortedOrder
  <2> QED BY <1>2, <2>1, <2>2, <2>3 DEF OrderInv, w
<1>5. ASSUME requirements' = requirements, entries' = entries, searching' = searching
      PROVE  OrderInv'
  <2>1. w' = w
    BY <1>5, SortedIdsSame
  <2> HIDE DEF w
  <2> QED BY <1>5, <2>1 DEF OrderInv, SortedOrder, Placed, w
<1>6. ASSUME searching, NEW b \in Unplaced, Wanted(b), PlaceBuffer(b) PROVE OrderInv'
  <2> DEFINE n == Len(entries)
  <2>1. w' = w
    BY <1>6, SortedIdsSame DEF PlaceBuffer
  <2>2. n < Len(w) /\ b = w[n + 1]
    BY <1>1, <1>6, WantedIsNext DEF OrderInv
  <2>3. Len(entries') = n + 1 /\ Placed' = Placed \cup {b}
    BY <1>1, <1>6, PlacedAfter
  <2>4. Placed = {w[i] : i \in 1 .. n}
    BY <1>6 DEF OrderInv, SortedOrder
  <2> HIDE DEF w, n
  <2>5. n \in Nat /\ 1 .. n + 1 = (1 .. n) \cup {n + 1}
    BY <1>1 DEF n
  <2>6. Placed' = {w[i] : i \in 1 .. n + 1}
    BY <2>2, <2>3, <2>4, <2>5
  <2>7. SortedOrder'
    BY <2>1, <2>3, <2>6 DEF SortedOrder, w
  <2>8. Len(entries') <= Len(w')
    BY <1>2, <2>1, <2>2, <2>3, <2>5
  <2> QED BY <2>7, <2>8 DEF OrderInv, w
<1>7. CASE UNCHANGED vars
  BY <1>5, <1>7 DEF vars
<1>8. ASSUME NEW b \in Unplaced, NEW k \in 1 .. Len(entries), PassEntry(b, k) PROVE OrderInv'
  BY <1>5, <1>8 DEF PassEntry
<1> QED BY <1>3, <1>4, <1>6, <1>7, <1>8 DEF Next, SearchStep

(* Buffers are placed in the order of buffer_ids_sorted_: offline planned  *)
(* ones in the order they were added, then by descending size, of equal    *)
(* sizes the later one first.  The exchanges of neighbours of              *)
(* ReverseSortInPlace sort any list of ids.                                *)
THEOREM GreedySortedOrder == Spec => []SortedOrder
<1>1. Init => OrderInv
  BY DEF Init, OrderInv, SortedOrder
<1>2. PlannerInv /\ OrderInv /\ [Next]_vars => OrderInv'
  BY OrderStep
<1>3. OrderInv => SortedOrder
  BY DEF OrderInv
<1> QED BY <1>1, <1>2, <1>3, PlannerInvariant, PTL DEF Spec
=============================================================================
