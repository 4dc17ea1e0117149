------------------------------- MODULE MCStream -------------------------------
(* Small instances of Stream. *)
EXTENDS Stream

(* Packets of one, two, three and two bytes; the reader has room for two. *)
MCMessages == {"a", "b", "c", "d"}
MCSize == [m \in MCMessages |-> CASE m = "a" -> 1 [] m \in {"b", "d"} -> 2 [] m = "c" -> 3]
==============================================================================
