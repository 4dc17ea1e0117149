----------------------------- MODULE MCSplitCut -----------------------------
(* Small instances of SplitCut. *)
EXTENDS SplitCut, TLC

(* Nothing tells one entity from another. *)
MCSymmetry == Permutations(Entities)

(* Two-dimensional boxes: wider than the buckets, square, one chunk thick. *)
MCStartBoxes ==
    {<<[lo |-> x, hi |-> x + w], [lo |-> 0, hi |-> h]>> :
        x \in {-2, 0}, w \in 0..4, h \in 0..1}
=============================================================================
