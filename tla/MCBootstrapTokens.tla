-------------------------- MODULE MCBootstrapTokens --------------------------
(***************************************************************************)
(* Small instances of BootstrapTokens: each token has an ID of its own, or *)
(* all of them have the same.                                              *)
(***************************************************************************)
EXTENDS BootstrapTokens, TLC

CONSTANTS i1, i2, i3, i4, g1, g2, g3, f1

OwnId == [t \in Tokens |-> (g1 :> i1 @@ g2 :> i2 @@ g3 :> i3 @@ f1 :> i4)[t]]
OneId == [t \in Tokens |-> i1]
=============================================================================
