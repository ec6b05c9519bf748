-------------------------- MODULE MCAccomplishments --------------------------
(***************************************************************************)
(* Accomplishments with two consoles of one player each, one of whom may   *)
(* be banned for good and the other one for a time.                        *)
(***************************************************************************)
EXTENDS Accomplishments

CONSTANTS c1, c2, metascore, goal

MCValid == [c \in Consoles |-> IF c = c1 THEN {1} ELSE {2}]

MCRequests == {[g \in Goals |-> IF g = metascore THEN 2 ELSE 1], [g \in Goals |-> 3]}

MCBannable == {[who |-> 1, permanent |-> TRUE], [who |-> 2, permanent |-> FALSE]}
==============================================================================
