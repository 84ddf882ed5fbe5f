------------------------------- MODULE MCHub --------------------------------
(* Small instances of Hub for TLC. *)
EXTENDS Hub, TLC

(* Connections are interchangeable, and so are subscription ids: no action *)
(* and no property names one, and no property is a liveness property.      *)
Alike == Permutations(Conns) \cup Permutations(SubIds)
=============================================================================
