----------------------------- MODULE MCGatherings -----------------------------
(***************************************************************************)
(* Gatherings with one Wii, on which one account is played beside the      *)
(* Master User, and two consoles that find each other's gatherings: a PS3  *)
(* and an RPCS3 emulator.                                                  *)
(***************************************************************************)
EXTENDS Gatherings

CONSTANTS wii, ps3, rpcs3, alice, bob, BOB, carol

MCPlatform ==
    [c \in Consoles |-> IF c = wii THEN 2 ELSE IF c = ps3 THEN 1 ELSE 3]

MCAccountsOf ==
    [c \in Consoles |-> IF c = wii THEN {alice} ELSE IF c = rpcs3 THEN {carol} ELSE {bob}]

\* Bob sometimes types his name in capitals.
MCSpellings == [a \in Accounts |-> IF a = bob THEN {bob, BOB} ELSE {a}]
==============================================================================
