------------------------------ MODULE TunnelMC ------------------------------
(* Constants for checking Tunnel with TLC.                                 *)
EXTENDS Tunnel, TLC

CONSTANTS a1, a2, v1, v2

Symmetry == Permutations(Agents) \cup Permutations(Viewers)
=============================================================================
