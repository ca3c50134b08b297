-------------------------- MODULE GreedyMemoryPlanner --------------------------
(***************************************************************************)
(* tflite::GreedyMemoryPlanner (micro/memory_planner/greedy_memory_        *)
(* planner.cc), which places the tensors and scratch buffers of a micro    *)
(* model in the head section of the arena.  A step of the search is one    *)
(* iteration of the loop that looks for a gap.  Buffers are numbered from  *)
(* 1.  buffers_sorted_by_offset_ is the list that its next_entry_index     *)
(* fields spell, so that an empty list takes the place of the first entry, *)
(* which the code puts down without a search.                              *)
(***************************************************************************)
EXTENDS Integers, Sequences, SeqOps

CONSTANTS
    Requirements,  \* the arguments of AddBuffer: records with the fields below
    MaxBuffers     \* max_buffer_count_

kOnlinePlannedBuffer == -1

BufferRequirements == [size : Nat, first_time_used : Nat, last_time_used : Nat,
                       offline_offset : Nat \cup {kOnlinePlannedBuffer}]

ASSUME PlannerAssumption ==
    /\ Requirements \subseteq BufferRequirements
    /\ MaxBuffers \in Nat

VARIABLES
    requirements,      \* requirements_
    need,              \* need_to_calculate_offsets_
    offsets,           \* buffer_offsets_
    entries,           \* buffers_sorted_by_offset_, from first_entry_index_ on
    searching,         \* inside CalculateOffsetsIfNeeded
    prior,             \* the place of prior_entry in entries, 0 for nullptr
    candidate_offset

vars == <<requirements, need, offsets, entries, searching, prior, candidate_offset>>

Ids == 1 .. Len(requirements)

Online(b) == requirements[b].offline_offset = kOnlinePlannedBuffer

Init ==
    /\ requirements = <<>> /\ need = TRUE
    /\ offsets = <<>> /\ entries = <<>>
    /\ searching = FALSE /\ prior = 0 /\ candidate_offset = 0

(* Mutant of AddBuffer: one more than there is room for.                   *)
AddBufferPastLimit(r) ==
    /\ ~searching
    /\ Len(requirements) <= MaxBuffers
    /\ requirements' = Append(requirements, r)
    /\ offsets' = Append(offsets, 0)
    /\ need' = TRUE
    /\ UNCHANGED <<entries, searching, prior, candidate_offset>>

(* AddBuffer; both forms fail when the array is full.  What is in          *)
(* buffer_offsets_ before it is calculated is never read.                  *)
AddBuffer(r) ==
    /\ ~searching
    /\ Len(requirements) < MaxBuffers
    /\ requirements' = Append(requirements, r)
    /\ offsets' = Append(offsets, 0)
    /\ need' = TRUE
    /\ UNCHANGED <<entries, searching, prior, candidate_offset>>

-----------------------------------------------------------------------------
(* ReverseSortInPlace on the ids: passes of exchanges of neighbours until  *)
(* one has nothing to exchange, which no list needs more than Len of.      *)
Pass(ids) ==
    Fold(LAMBDA s, i : IF requirements[s[i]].size < requirements[s[i + 1]].size
                       THEN [s EXCEPT ![i] = s[i + 1], ![i + 1] = s[i]] ELSE s,
         ids, [i \in 1 .. Len(ids) - 1 |-> i])

ReverseSortInPlace(ids) == Fold(LAMBDA s, i : Pass(s), ids, ids)

(* buffer_ids_sorted_: offline planned buffers from the head, the others   *)
(* from the tail and sorted.                                               *)
BufferIdsSorted ==
    LET split == Fold(LAMBDA s, i : IF Online(i) THEN [s EXCEPT !.tail = <<i>> \o @]
                                                 ELSE [s EXCEPT !.head = Append(@, i)],
                      [head |-> <<>>, tail |-> <<>>], [i \in Ids |-> i])
    IN  split.head \o ReverseSortInPlace(split.tail)

(* Mutant of Before: of two sizes that are equal, the lower id is first.   *)
BeforeLowId(b, c) ==
    IF ~Online(b) THEN ~Online(c) => b < c
    ELSE /\ Online(c)
         /\ \/ requirements[b].size > requirements[c].size
            \/ requirements[b].size = requirements[c].size /\ b < c

(* The same as an order: b is in front of c.                               *)
Before(b, c) ==
    IF ~Online(b) THEN ~Online(c) => b < c
    ELSE /\ Online(c)
         /\ \/ requirements[b].size > requirements[c].size
            \/ requirements[b].size = requirements[c].size /\ b > c

Placed   == {entries[k].requirements_index : k \in 1 .. Len(entries)}
Unplaced == Ids \ Placed

(* The buffer at buffer_ids_sorted_[i] in iteration i.                     *)
Wanted(b) == b \in Unplaced /\ \A c \in Unplaced \ {b} : Before(b, c)

-----------------------------------------------------------------------------
End(b) == offsets[b] + requirements[b].size

EntryEnd(e) == e.offset + requirements[e.requirements_index].size

(* Mutant of DoesEntryOverlapInTime: a last use is over when a first one   *)
(* begins.                                                                 *)
DoesEntryOverlapInTimeStrict(b, c) ==
    /\ ~(requirements[b].first_time_used >= requirements[c].last_time_used)
    /\ ~(requirements[c].first_time_used >= requirements[b].last_time_used)

DoesEntryOverlapInTime(b, c) ==
    /\ ~(requirements[b].first_time_used > requirements[c].last_time_used)
    /\ ~(requirements[c].first_time_used > requirements[b].last_time_used)

(* NextSimultaneouslyActiveBuffer: entry k is the next after prior.        *)
NextSimultaneouslyActiveBuffer(b, k) ==
    /\ k \in prior + 1 .. Len(entries)
    /\ DoesEntryOverlapInTime(entries[k].requirements_index, b)
    /\ \A j \in prior + 1 .. k - 1 : ~DoesEntryOverlapInTime(entries[j].requirements_index, b)

CalculateOffsetsIfNeeded ==
    /\ ~searching /\ need /\ requirements # <<>>
    /\ need' = FALSE
    /\ offsets' = [b \in Ids |-> requirements[b].offline_offset]
    /\ entries' = <<>>
    /\ searching' = TRUE /\ prior' = 0 /\ candidate_offset' = 0
    /\ UNCHANGED requirements

(* Mutant of TooSmall: a gap of the very size is not used.                 *)
TooSmallOrEqual(b, k) == entries[k].offset - candidate_offset <= requirements[b].size

(* The gap in front of entry k is too small for b.                         *)
TooSmall(b, k) == entries[k].offset - candidate_offset < requirements[b].size

(* Mutant of PassEntry: the search does not move on.                       *)
PassEntryStays(b, k) ==
    /\ Online(b) /\ NextSimultaneouslyActiveBuffer(b, k) /\ TooSmall(b, k)
    /\ UNCHANGED vars

(* The gap is not big enough, so the search moves on to the end of k.      *)
PassEntry(b, k) ==
    /\ Online(b) /\ NextSimultaneouslyActiveBuffer(b, k) /\ TooSmall(b, k)
    /\ prior' = k
    /\ candidate_offset' = IF EntryEnd(entries[k]) > candidate_offset
                           THEN EntryEnd(entries[k]) ELSE candidate_offset
    /\ UNCHANGED <<requirements, need, offsets, entries, searching>>

(* Mutant of InsertionPoint: at the end.                                   *)
InsertionPointAtEnd(offset, k) == k = Len(entries) + 1

(* A new entry goes in front of the first one with a larger offset.        *)
InsertionPoint(offset, k) ==
    /\ k \in 1 .. Len(entries) + 1
    /\ k <= Len(entries) => entries[k].offset > offset
    /\ \A j \in 1 .. k - 1 : ~(entries[j].offset > offset)

Insert(e, k) == SubSeq(entries, 1, k - 1) \o <<e>> \o SubSeq(entries, k, Len(entries))

PlaceOffset(b) == IF Online(b) THEN candidate_offset ELSE requirements[b].offline_offset

(* The offset of b is recorded and b added to the list.                    *)
PlaceBuffer(b) ==
    LET e == [offset |-> PlaceOffset(b), requirements_index |-> b]
    IN  /\ Online(b) => \A k \in 1 .. Len(entries) :
                            NextSimultaneouslyActiveBuffer(b, k) => ~TooSmall(b, k)
        /\ offsets' = [offsets EXCEPT ![b] = PlaceOffset(b)]
        /\ \E k \in 1 .. Len(entries) + 1 :
              InsertionPoint(PlaceOffset(b), k) /\ entries' = Insert(e, k)
        /\ searching' = (Unplaced # {b})
        /\ prior' = 0 /\ candidate_offset' = 0
        /\ UNCHANGED <<requirements, need>>

SearchStep ==
    /\ searching
    /\ \E b \in Unplaced :
          /\ Wanted(b)
          /\ (\E k \in 1 .. Len(entries) : PassEntry(b, k)) \/ PlaceBuffer(b)

Next == \/ \E r \in Requirements : AddBuffer(r)
        \/ CalculateOffsetsIfNeeded
        \/ SearchStep

(* CalculateOffsetsIfNeeded runs to its end once it is called.             *)
Spec == Init /\ [][Next]_vars /\ WF_vars(SearchStep)

(* Mutant of GetMaximumMemorySize: the last entry is taken to end last.    *)
GetMaximumMemorySizeOfLast == IF entries = <<>> THEN 0 ELSE EntryEnd(entries[Len(entries)])

(* GetMaximumMemorySize.                                                   *)
GetMaximumMemorySize ==
    Fold(LAMBDA m, e : IF EntryEnd(e) > m THEN EntryEnd(e) ELSE m, 0, entries)

-----------------------------------------------------------------------------
Entry == [offset : Nat, requirements_index : 1 .. MaxBuffers]

(* Type invariant: the lists stay within max_buffer_count_, and the search *)
(* within the list.                                                        *)
TypeOK ==
    /\ requirements \in Seq(BufferRequirements) /\ Len(requirements) <= MaxBuffers
    /\ need \in BOOLEAN /\ searching \in BOOLEAN
    /\ offsets \in [Ids -> Nat \cup {kOnlinePlannedBuffer}]
    /\ entries \in Seq(Entry) /\ prior \in 0 .. Len(entries) /\ candidate_offset \in Nat

(* DoAnyBuffersOverlap: buffer b at offset o and c at p share a byte at    *)
(* some time.                                                              *)
Overlap(b, o, c, p) ==
    /\ requirements[b].first_time_used <= requirements[c].last_time_used
    /\ requirements[c].first_time_used <= requirements[b].last_time_used
    /\ o < p + requirements[c].size
    /\ p < o + requirements[b].size

(* There is a plan, and it is up to date.                                  *)
UpToDate == ~need /\ ~searching

(* "Debug method to check whether any buffer allocations are overlapping"  *)
(* (greedy_memory_planner.h): in an up to date plan no two buffers share   *)
(* memory at the same time, unless the offline plan put both of them there.*)
BuffersApart ==
    UpToDate => \A b, c \in Ids :
        b # c /\ (Online(b) \/ Online(c)) => ~Overlap(b, offsets[b], c, offsets[c])

(* "All placed buffers are stored in the order of their starting position  *)
(* in the arena": the list is sorted, and has the recorded offset of each  *)
(* placed buffer; in an up to date plan that is every buffer.              *)
ListSorted ==
    /\ \A j, k \in 1 .. Len(entries) : j < k => entries[j].offset <= entries[k].offset
    /\ \A k \in 1 .. Len(entries) : entries[k].offset = offsets[entries[k].requirements_index]
    /\ UpToDate => Unplaced = {}

(* "The rest of the buffers are looped through in descending size order":  *)
(* buffers are placed in the order of buffer_ids_sorted_, which exchanges  *)
(* of neighbours have sorted.                                              *)
SortedOrder ==
    searching => Placed = {BufferIdsSorted[i] : i \in 1 .. Len(entries)}

(* "Returns the high-water mark of used memory": the size is enough for    *)
(* every buffer, and no smaller size is.                                   *)
HighWaterMark ==
    UpToDate /\ requirements # <<>> =>
        /\ \A b \in Ids : End(b) <= GetMaximumMemorySize
        /\ \E b \in Ids : End(b) = GetMaximumMemorySize

(* "The first gap between simultaneously active buffers that the current   *)
(* buffer fits into will be used": a buffer is never put where a lower     *)
(* offset would have done.                                                 *)
FirstGapUsed ==
    [][\A b \in Placed' \ Placed : Online(b) =>
          \A o \in 0 .. offsets'[b] - 1 :
             \E c \in Placed : Overlap(b, o, c, offsets[c])]_vars

(* The loops of CalculateOffsetsIfNeeded end.                              *)
SearchEnds == searching ~> ~searching
=============================================================================
