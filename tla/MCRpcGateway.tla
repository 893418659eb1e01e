---------------------------- MODULE MCRpcGateway ----------------------------
(* Model checking of RpcGateway: three connections compete for the permits. *)
EXTENDS RpcGateway, TLC

Symmetry == Permutations(Conn)
=============================================================================
