---------------------------- MODULE MCUnixListen ----------------------------
(* The unix-listen command with a few clients; the clients are alike.         *)
EXTENDS UnixListen, TLC

ClientSymmetry == Permutations(Clients)
=============================================================================
