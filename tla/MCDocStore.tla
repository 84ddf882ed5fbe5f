----------------------------- MODULE MCDocStore -----------------------------
EXTENDS DocStore, TLC

CONSTANTS d, f, g, s, o, p, q

(* One field to index with a text or an object in it, one to search. *)
SomeBodies == {[x \in Fields |-> IF x = f THEN s ELSE Missing],
               [x \in Fields |-> IF x = f THEN o ELSE s]}
SomeConfigs == {{}, {<<"field", f>>, <<"search", g>>}}
SomeOpts == {NoOpts, [fields |-> {<<"field", f>>}, ttl |-> 0], [fields |-> {}, ttl |-> 1]}
Alike == Permutations(Procs)
=============================================================================
