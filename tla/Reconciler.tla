------------------------------ MODULE Reconciler ------------------------------
(***************************************************************************)
(* What the controller promises for each KylinNode, without its queue, its *)
(* workers and the stages of an installation: the machine of a KylinNode   *)
(* joins the cluster only after this process has read the KylinNode and    *)
(* saved what a reset needs, and leaves it only after this process, having *)
(* saved that, has read that the KylinNode is gone.  What was read last    *)
(* decides, however old it is by then.                                     *)
(***************************************************************************)
EXTENDS Naturals

CONSTANTS Keys

VARIABLES
    clock,                \* the version of the last write
    wanted,               \* the version of each KylinNode, 0 when it is gone
    known,                \* the version the process knows of
    read,                 \* the version its last sync has read
    saved,                \* whether it knows how to reset the machine
    in                    \* whether the machine is in the cluster

reconcilerVars == <<clock, wanted, known, read, saved, in>>

Everywhere(x) == [k \in Keys |-> x]

Init ==
    /\ clock = 0
    /\ wanted = Everywhere(0)
    /\ known = Everywhere(0)
    /\ read = Everywhere(0)
    /\ saved = Everywhere(FALSE)
    /\ in = Everywhere(FALSE)

Write(k) ==
    /\ clock' = clock + 1
    /\ wanted' \in {[wanted EXCEPT ![k] = v] : v \in {0, clock + 1}}
    /\ UNCHANGED <<known, read, saved, in>>

Observe(k) ==
    /\ known' = [known EXCEPT ![k] = wanted[k]]
    /\ UNCHANGED <<clock, wanted, read, saved, in>>

Read(k) ==
    /\ read' = [read EXCEPT ![k] = known[k]]
    /\ UNCHANGED <<clock, wanted, known, saved, in>>

Save(k) ==
    /\ read[k] # 0
    /\ saved' = [saved EXCEPT ![k] = TRUE]
    /\ UNCHANGED <<clock, wanted, known, read, in>>

Join(k) ==
    /\ read[k] # 0
    /\ saved[k]
    /\ in' = [in EXCEPT ![k] = TRUE]
    /\ UNCHANGED <<clock, wanted, known, read, saved>>

Leave(k) ==
    /\ read[k] = 0
    /\ saved[k]
    /\ in' = [in EXCEPT ![k] = FALSE]
    /\ UNCHANGED <<clock, wanted, known, read, saved>>

(* A process ends, and with it all that it knows.                          *)
End ==
    /\ known' = Everywhere(0)
    /\ read' = Everywhere(0)
    /\ saved' = Everywhere(FALSE)
    /\ UNCHANGED <<clock, wanted, in>>

(* The next one begins with a list of what is wanted.                      *)
Begin ==
    /\ \A k \in Keys : ~saved[k] /\ read[k] = 0
    /\ known' = wanted
    /\ UNCHANGED <<clock, wanted, read, saved, in>>

Next ==
    \/ \E k \in Keys : \/ Write(k) \/ Observe(k) \/ Read(k)
                       \/ Save(k) \/ Join(k) \/ Leave(k)
    \/ End
    \/ Begin

Spec == Init /\ [][Next]_reconcilerVars
=============================================================================
