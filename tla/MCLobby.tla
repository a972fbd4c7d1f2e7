------------------------------ MODULE MCLobby ------------------------------
(* A room on small instances: teams of two or three, one AI name per side. *)
EXTENDS Lobby, TLC

CONSTANTS hudson, volkov

OneName == [t \in Sides |-> IF t = "A" THEN {hudson} ELSE {volkov}]

Symmetric == Permutations(Humans) \cup Permutations(Conns)
=============================================================================
