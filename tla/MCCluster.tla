------------------------------ MODULE MCCluster ------------------------------
(* Small instances of Cluster. *)
EXTENDS Cluster

(* Boxes of one axis and of two. *)
Line(lo, hi) == <<[lo |-> lo, hi |-> hi]>>
Rectangle(x, X, y, Y) == <<[lo |-> x, hi |-> X], [lo |-> y, hi |-> Y]>>

(* One zone that serves two chunks, and ports for two more. *)
MCOneZone == <<Line(0, 1), NoBox, NoBox>>

(* Two and three zones of one chunk each. *)
MCTwoZones == <<Line(0, 0), Line(1, 1)>>
MCThreeZones == <<Line(0, 0), Line(1, 1), Line(2, 2)>>

(* Two zones that share a face and whose union is not a box. *)
MCStep == <<Rectangle(0, 1, 0, 0), Rectangle(0, 0, 1, 1)>>

(* Samples of zones that get loaded and idle, that do neither, that fail.  *)
MCScaling == {[low |-> FALSE, signal |-> "loaded"], [low |-> TRUE, signal |-> "calm"]}
MCCalm == {[low |-> FALSE, signal |-> "calm"]}
MCFailing == {[low |-> FALSE, signal |-> "failing"]}

MCNone == {}

(* The chunk of the second zone of MCTwoZones. *)
MCRightChunk == {<<1>>}
=============================================================================
