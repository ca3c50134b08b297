------------------------ MODULE MCGreedyMemoryPlanner ------------------------
EXTENDS GreedyMemoryPlanner

(* Sizes up to two of empty buffers too, two times, and offline buffers    *)
(* at offset 1, in the way of the first gap.                               *)
SmallRequirements ==
    {r \in [size : 0 .. 2, first_time_used : 0 .. 1, last_time_used : 0 .. 1,
            offline_offset : {kOnlinePlannedBuffer, 1}] :
        /\ r.first_time_used <= r.last_time_used
        /\ r.offline_offset = 1 => r.size > 0}
=============================================================================
