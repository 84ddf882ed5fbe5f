---------------------------- MODULE MCTcpServer -----------------------------
(* Small instances of TcpServer for TLC: clients, some of them outside the *)
(* allowlist. No symmetry, since the runs check liveness.                  *)
EXTENDS TcpServer
=============================================================================
