-------------------------- MODULE MCClassifierIndex --------------------------
(***************************************************************************)
(* ClassifierIndex for TLC: three features with values 0 and 1 and three  *)
(* feature vectors, so that the first two dimensions vary together and    *)
(* the third on its own (the deviations of the two groups then differ by  *)
(* factors that only the square root keeps in order); three labels so     *)
(* that five neighbours can tie two against two.                          *)
(***************************************************************************)
EXTENDS ClassifierIndex

MCPoints == {<<0, 0, 0>>, <<1, 1, 0>>, <<0, 0, 1>>}
MCQueries == {<<0, 0, 0>>}
=============================================================================
