------------------------------ MODULE MCSessions ------------------------------
(***************************************************************************)
(* Sessions with a PS3 and a Wii, a player whose name is spelled in two    *)
(* ways, another one whose first logins may overlap, and the empty name.   *)
(***************************************************************************)
EXTENDS Sessions

CONSTANTS ps3, wii, alice, ALICE, bob

MCPlayer == [n \in Names |-> IF n = ALICE THEN alice ELSE n]

MCTyped == [c \in Consoles |-> IF c = wii THEN {alice, NoName} ELSE {ALICE}]
\* The PS3 may connect with the first PID of all, whoever has it.
MCStated == [c \in Consoles |-> IF c = ps3 THEN {1} ELSE {}]
==============================================================================
