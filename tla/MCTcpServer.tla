---------------------------- MODULE MCTcpServer ----------------------------
(* Two clients, of two messages and of one, that share an io_context.      *)
EXTENDS TcpServer

MCSizes == <<<<1, 3>>, <<1>>>>
=============================================================================
