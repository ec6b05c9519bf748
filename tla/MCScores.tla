------------------------------- MODULE MCScores -------------------------------
(***************************************************************************)
(* Scores with one song, and two players who play together or one alone.   *)
(***************************************************************************)
EXTENDS Scores, TLC

CONSTANTS alice, bob

\* Goroutines are interchangeable; only safety is checked under this symmetry.
CallSymmetry == Permutations(Calls)

\* Alice alone, where the question is what becomes of the scores.
MCSolo == {<<alice>>}

\* Alice and Bob.
MCDuo == {<<alice, bob>>}
==============================================================================
