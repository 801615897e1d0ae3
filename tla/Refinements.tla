----------------------------- MODULE Refinements ----------------------------
(***************************************************************************)
(* The controller seen as an ItemQueue, of which a key has been asked for  *)
(* once for the back-off it is in and once for its mark in the dirty set,  *)
(* and as a Reconciler, to which versions are all there is of a KylinNode. *)
(***************************************************************************)
EXTENDS KylinNodeController

Count(condition) == IF condition THEN 1 ELSE 0

Asks == [k \in Keys |-> Count(k \in waiting) + Count(k \in dirty)]

IQ == INSTANCE ItemQueue WITH asks <- Asks, running <- key

(* The event handlers, the rate-limited queue and the workers together     *)
(* implement ItemQueue: through all back-offs, merged notifications, keys  *)
(* marked while they are processed and restarts, no key is worked on by two*)
(* workers or without having been asked for, and no ask is dropped.        *)
ImplementsItemQueue == IQ!Spec

-----------------------------------------------------------------------------

Wanted == [k \in Keys |-> VersionOf(kylinNodes[k])]
Known == [k \in Keys |-> VersionOf(cache[k])]
Saved == [k \in Keys |-> resetNodeInfo[NameOf[k]] # NoSpec]
Inside == [k \in Keys |-> ~ OutOfCluster(k)]

RC == INSTANCE Reconciler WITH clock <- revision, wanted <- Wanted, known <- Known,
                               read <- seen, saved <- Saved, in <- Inside

(* The workers together implement Reconciler when neither names nor        *)
(* machines are shared: a sync that was overtaken by a later one never     *)
(* joins a machine whose KylinNode this process has read to be gone, nor   *)
(* resets one whose KylinNode it has read to be there, although a sync     *)
(* reads once and then works for as long as the commands take.             *)
ImplementsReconciler == RC!Spec
=============================================================================
