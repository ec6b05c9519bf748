---------------------------- MODULE MCLeaderboards ----------------------------
(***************************************************************************)
(* Leaderboards with three players on pages of two rows.                   *)
(***************************************************************************)
EXTENDS Leaderboards, TLC

CONSTANTS c1, c2, s1, s2, b, g, unserved, wii, ps3

MCValid == [c \in Consoles |-> IF c = c1 THEN {1} ELSE {2}]

\* All different; a tie and a player without a score; player 1 in no total.
MCInitialScores ==
    {(s1 :> <<1, 2, 3>>) @@ (s2 :> <<2, 0, NoScore>>) @@ (b :> <<0, 1, 2>>) @@ (g :> <<1, 1, 1>>)
        @@ (unserved :> <<1, 2, NoScore>>),
     (s1 :> <<NoScore, 2, 2>>) @@ (s2 :> <<NoScore, 1, 3>>) @@ (b :> <<1, 1, 1>>) @@ (g :> <<0, 2, 1>>)
        @@ (unserved :> <<NoScore, 0, 0>>)}

MCInitialTypes == <<ps3, wii, NoType>>

MCRequests ==
    {[who |-> 1, board |-> s1, mode |-> wii],
     [who |-> 1, board |-> "rb3", mode |-> "friends"],
     [who |-> 1, board |-> b, mode |-> "all"],
     [who |-> 2, board |-> "total", mode |-> wii],
     [who |-> 2, board |-> "ticker", mode |-> "all"]}

MCRecordings ==
    {[board |-> s1, who |-> 1, points |-> 3], [board |-> g, who |-> 2, points |-> 0]}

MCFriendships == {<<1, 3>>}
MCTypeChanges == {<<2, ps3>>, <<3, wii>>}
==============================================================================
