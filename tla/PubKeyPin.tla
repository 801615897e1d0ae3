------------------------------ MODULE PubKeyPin ------------------------------
(***************************************************************************)
(* The pin of a public key, as Hash of pubkeypin.go writes it:             *)
(* "sha256:value".  Of the value matters which key it is the digest of.    *)
(* The sets of allowed pins in that file are not modelled: nothing in the  *)
(* repository makes one.                                                   *)
(***************************************************************************)
CONSTANTS
    PublicKeys,
    Certificates,
    KeyOf                 \* the public key of a certificate

ASSUME PinAssumption == KeyOf \in [Certificates -> PublicKeys]

Hashes == [format : {"sha256"}, digestOf : PublicKeys]

(* Mutant of Hash: without the format in front.                            *)
Hash_NoFormat(cert) == [digestOf |-> KeyOf[cert]]

(* SHA-256 of the public key, not of the certificate around it.            *)
Hash(cert) == [format |-> "sha256", digestOf |-> KeyOf[cert]]
=============================================================================
