---------------------------- MODULE MCTcpServer ----------------------------
(***************************************************************************)
(* TcpServer with two workers, started up to twice, and a limit of one     *)
(* connection, of which three are made: the limit can be reached, exceeded *)
(* by the other worker, and reached again.                                 *)
(***************************************************************************)
EXTENDS TcpServer
=============================================================================
