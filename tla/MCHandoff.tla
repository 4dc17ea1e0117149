------------------------------ MODULE MCHandoff ------------------------------
(* Small instances of Handoff. *)
EXTENDS Handoff

Line(lo, hi) == <<[lo |-> lo, hi |-> hi]>>

(* A zone of two chunks beside one of one chunk, and a spare one. *)
MCBoot == <<Line(0, 1), Line(2, 2), NoBox>>
MCWorld == {<<1>>, <<2>>}
MCHome == <<1>>
==============================================================================
