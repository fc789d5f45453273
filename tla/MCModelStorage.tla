--------------------------- MODULE MCModelStorage ---------------------------
(***************************************************************************)
(* ModelStorage for TLC: three changes of the label manager, one restart.  *)
(***************************************************************************)
EXTENDS ModelStorage
=============================================================================
