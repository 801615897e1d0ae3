------------------------ MODULE MCKylinNodeController ------------------------
(***************************************************************************)
(* Small instances of KylinNodeController.  Each cfg chooses Keys, and the *)
(* functions below give a key its name and the specs its users may write.  *)
(***************************************************************************)
EXTENDS Refinements, TLC

CONSTANTS k1, k2, x1, x2, n1, n2, a1, a2

SpecOf(n, a) == [name |-> n, address |-> a]

(* One key, whose spec may move to another machine and name, or stay.      *)
OneName == k1 :> x1
MovingSpec == k1 :> {SpecOf(n1, a1), SpecOf(n2, a2)}

OneSpec == k1 :> {SpecOf(n1, a1)}

(* Disciplined users: every key has a name and one machine of its own.     *)
OwnName == k1 :> x1 @@ k2 :> x2
OwnSpec == k1 :> {SpecOf(n1, a1)} @@ k2 :> {SpecOf(n2, a2)}

WorkerSymmetry == Permutations(Workers)

(* A constraint: the process dies before its first command or not at all,  *)
(* and the first KylinNode is k1, which is as good as k2.                  *)
OneProcess ==
    /\ up \/ MachinesInit
    /\ revision = 1 => kylinNodes[k1] # NoObject
=============================================================================
