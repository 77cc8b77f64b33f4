---------------------------- MODULE MCUnixSocket ----------------------------
(* The socket path with a few starts of the listener and a few probes.        *)
EXTENDS UnixSocket, TLC

ProcessSymmetry == Permutations(Listeners) \cup Permutations(Probers)
=============================================================================
