---------------------------- MODULE MCAccessRace ----------------------------
(* AccessRace with interchangeable clients.                                *)
EXTENDS AccessRace, TLC

Clients == Permutations(IP)
=============================================================================
