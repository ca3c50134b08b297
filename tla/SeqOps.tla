-------------------------------- MODULE SeqOps --------------------------------
(* Helpers on sequences that several modules use.                          *)
EXTENDS Integers, Sequences

(* FoldLeft of SequencesExt, by index, which TLC evaluates faster.         *)
Fold(op(_, _), base, seq) ==
    LET f[k \in 0 .. Len(seq)] == IF k = 0 THEN base ELSE op(f[k - 1], seq[k])
    IN  f[Len(seq)]

(* Members of seq, as a set.                                               *)
Elements(seq) == {seq[k] : k \in 1 .. Len(seq)}
=============================================================================
