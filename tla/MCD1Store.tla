------------------------------ MODULE MCD1Store -----------------------------
(* Small instances of D1Store for TLC. *)
EXTENDS D1Store, TLC

Opts(nx, xx, keep, ttl) == [nx |-> nx, xx |-> xx, keep |-> keep, ttl |-> ttl]

(* SET, SET NX EX 1 (a lock) and SET XX KEEPTTL. *)
SomeOpts == {Opts(FALSE, FALSE, FALSE, 0), Opts(TRUE, FALSE, FALSE, 1),
             Opts(FALSE, TRUE, TRUE, 0)}

Alike == Permutations(Procs) \cup Permutations(Members)
=============================================================================
