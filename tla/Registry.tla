------------------------------- MODULE Registry -------------------------------
(***************************************************************************)
(* What the accounts of GoCentral promise to everything that stores a PID: *)
(* a player has one PID at a time, a PID belongs to one player, and the    *)
(* PID of an account that is gone is not given to another one.             *)
(***************************************************************************)
CONSTANTS
    Players, \* whom an account may belong to
    PIDs     \* the numbers the server hands out

VARIABLES
    accounts, \* who has which PID
    used      \* the PIDs that were ever somebody's

vars == <<accounts, used>>

Init ==
    /\ accounts = {}
    /\ used = {}

Register(player, pid) ==
    /\ \A account \in accounts : account.player # player
    /\ pid \notin used
    /\ accounts' = accounts \cup {[player |-> player, pid |-> pid]}
    /\ used' = used \cup {pid}

Remove(account) ==
    /\ accounts' = accounts \ {account}
    /\ UNCHANGED used

Next ==
    \/ \E player \in Players, pid \in PIDs : Register(player, pid)
    \/ \E account \in accounts : Remove(account)

Spec == Init /\ [][Next]_vars
==============================================================================
