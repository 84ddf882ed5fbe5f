----------------------------- MODULE MCHttpApi ------------------------------
EXTENDS HttpApi

CONSTANTS c, p, q

(* Both send the same token and share its bucket. *)
OneToken == [x \in Callers |-> c]
=============================================================================
