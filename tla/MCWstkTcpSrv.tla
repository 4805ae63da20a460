----------------------------- MODULE MCWstkTcpSrv -----------------------------
(* The TCP server with interchangeable connections and handler threads.    *)
EXTENDS WstkTcpSrv, TLC

Symmetry == Permutations(Conns) \cup Permutations(Handlers)
=============================================================================
