---------------------------- MODULE MCTcpSocket ----------------------------
(* The configurations give TcpSocket a ten bit size_t and short buffers.  *)
EXTENDS TcpSocket
=============================================================================
