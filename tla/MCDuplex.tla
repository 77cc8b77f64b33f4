------------------------------ MODULE MCDuplex ------------------------------
(* Duplex on a small instance, with the closeAll of execbridge.Serve: it closes *)
(* the connection and the child's stdin, a Read of the child's stdout stays     *)
(* blocked until the caller closes that too. The connection may be of a kind    *)
(* whose error after a close IsNormalError does not know.                       *)
EXTENDS Duplex

ConnReads == {"l2r"}
ConnAndStdinWrites == Dirs
=============================================================================
