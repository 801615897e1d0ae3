------------------------- MODULE MCControllerHistory -------------------------
(***************************************************************************)
(* The instances of MCKylinNodeController, with their history.             *)
(***************************************************************************)
EXTENDS MCKylinNodeController, ControllerHistory
=============================================================================
