--------------------------- MODULE ControllerHistory ---------------------------
(***************************************************************************)
(* KylinNodeController with variables that remember its past and that no   *)
(* step depends on.  They are what the two invariants at the end need,     *)
(* which are the reasons why the controller comes to rest and why deleted  *)
(* KylinNodes leave the cluster.                                           *)
(***************************************************************************)
EXTENDS Refinements

VARIABLES
    missed,               \* keys whose machine the process may not get out
    writes,               \* how often each KylinNode was written
    syncs                 \* how often this process began to sync it

historyVars == <<missed, writes, syncs>>
hvars == <<vars, historyVars>>

HistoryInit ==
    /\ missed = {}
    /\ writes = [k \in Keys |-> 0]
    /\ syncs = [k \in Keys |-> 0]

(* In this step the process dies, and with it what it knows of machines,   *)
(* or its reset of k fails, which is not repeated (see ErrorRequeues).     *)
GivesUp(k) ==
    \/ up /\ ~up'
    \/ \E w \in Workers : key[w] = k /\ pc[w] = "reset" /\ pc'[w] = "error"

BeginsSync(k) == \E w \in Workers : key[w] # k /\ key'[w] = k

(* A machine that is out of the cluster is not missed.                     *)
HistoryStep ==
    /\ missed' = {k \in Keys : /\ k \in missed \/ GivesUp(k)
                               /\ ~ OutOfCluster(k)'}
    /\ writes' = [k \in Keys |-> writes[k] + Count(kylinNodes'[k] # kylinNodes[k])]
    /\ syncs' = [k \in Keys |-> IF up' THEN syncs[k] + Count(BeginsSync(k)) ELSE 0]

HNext == Next /\ HistoryStep

HSpec == Init /\ HistoryInit /\ [][HNext]_hvars

HFairSpec == HSpec /\ Fairness

-----------------------------------------------------------------------------

(* No machine is forgotten: while the machine of a KylinNode is in the     *)
(* cluster, and neither a death of the process nor a failed reset explains *)
(* it, the process knows how to reset it; and once the store no longer     *)
(* holds the KylinNode, a sync that will find it gone is still to come or  *)
(* is on its way to the reset.  This is why DeletedLeaves holds.           *)
NoMachineForgotten ==
    Disciplined /\ FixedSpecs =>
        \A k \in Keys \ missed :
            ~ OutOfCluster(k) =>
                /\ up
                /\ resetNodeInfo[NameOf[k]] # NoSpec
                /\ cache[k] = NoObject =>
                      \/ Pending(k)
                      \/ \E w \in Workers : key[w] = k /\ pc[w] \in {"lookup", "reset"}

(* A process syncs a KylinNode at most once for every time it was written, *)
(* although its informer repeats every object every 30 seconds and keys are*)
(* added, marked and put back while they are processed.  This is why       *)
(* EventuallyQuiet holds: without writes there is only so much to do.      *)
OneSyncPerWrite == \A k \in Keys : syncs[k] <= writes[k]
=============================================================================
