------------------------------ MODULE MCSavedData ------------------------------
(***************************************************************************)
(* SavedData with a console that two accounts share, one of which is also  *)
(* used on a second console, where its name is typed differently.          *)
(***************************************************************************)
EXTENDS SavedData

CONSTANTS c1, c2, alice, ALICE, bob, master, g, h

MCName == (1 :> alice) @@ (2 :> bob)

MCSessions ==
    (c1 :> {[pid |-> 1, name |-> alice], [pid |-> 2, name |-> bob]}) @@
    (c2 :> {[pid |-> 1, name |-> ALICE], [pid |-> 3, name |-> master]})

MCServices ==
    (c1 :> {"setlists", "bands", "characters", "battles", "images"}) @@
    (c2 :> {"setlists", "battles", "images"})

MCSaved == [type : {"battle_art", "band_logo"}, of : {1}]
==============================================================================
