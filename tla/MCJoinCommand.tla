---------------------------- MODULE MCJoinCommand ----------------------------
(***************************************************************************)
(* A small instance of JoinCommand: a CA, the same one renewed with its    *)
(* key, its successor, and the CA of another cluster.                      *)
(***************************************************************************)
EXTENDS JoinCommand, TLC

CONSTANTS old, renewed, new, foreign, k1, k2, k3

KeyOfCertificate == old :> k1 @@ renewed :> k1 @@ new :> k2 @@ foreign :> k3
TwoCertificates == BundlesOf(Certificates)
Foreign == <<foreign>>
=============================================================================
