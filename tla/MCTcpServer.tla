----------------------------- MODULE MCTcpServer -----------------------------
(* Up to two workers, so that connections of one server close on different  *)
(* threads; three peers and three descriptors, one of them the idle one, so *)
(* that a third peer may find none.                                         *)
EXTENDS TcpServer
==============================================================================
