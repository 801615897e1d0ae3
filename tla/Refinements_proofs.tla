------------------------- MODULE Refinements_proofs -------------------------
(***************************************************************************)
(* The refinements of ItemQueue and of Reconciler, for every value of the  *)
(* constants.                                                              *)
(***************************************************************************)
EXTENDS Refinements, Outcome_proofs

USE DEF Count

LEMMA InitImplements == Init => IQ!Init
BY DEF Init, WQInit, Asks, IQ!Init

LEMMA AsksUnchanged ==
  ASSUME waiting' = waiting, dirty' = dirty
  PROVE  Asks' = Asks
BY DEF Asks

LEMMA AsksAt ==
  ASSUME NEW k \in Keys
  PROVE  /\ Asks[k] = Count(k \in waiting) + Count(k \in dirty)
         /\ Asks'[k] = Count(k \in waiting') + Count(k \in dirty')
BY DEF Asks

(* A change of the asks for one key only.                                  *)
LEMMA AsksExcept ==
  ASSUME NEW k \in Keys, NEW n, Asks'[k] = n,
         \A j \in Keys \ {k} : Asks'[j] = Asks[j]
  PROVE  Asks' = [Asks EXCEPT ![k] = n]
BY DEF Asks

(* A handler asks, unless the key is backing off already.                  *)
LEMMA AddRateLimitedImplements ==
  ASSUME NEW k \in Keys, AddRateLimited(k), key' = key
  PROVE  IQ!Ask(k) \/ UNCHANGED <<Asks, key>>
<1>1. CASE k \in waiting
  BY <1>1, AsksUnchanged DEF AddRateLimited
<1>2. CASE k \notin waiting
  <2>1. Asks'[k] = Asks[k] + 1
    BY <1>2, AsksAt DEF AddRateLimited
  <2>2. \A j \in Keys \ {k} : Asks'[j] = Asks[j]
    BY AsksAt DEF AddRateLimited
  <2>. QED
    BY <2>1, <2>2, AsksExcept DEF IQ!Ask
<1>. QED
  BY <1>1, <1>2

(* The end of a back-off marks the key, or merges with its mark.           *)
LEMMA ExpireImplements ==
  ASSUME NEW k \in Keys, Expire(k), key' = key
  PROVE  IQ!Merge(k) \/ UNCHANGED <<Asks, key>>
<1>1. \A j \in Keys \ {k} : Asks'[j] = Asks[j]
  BY AsksAt DEF Expire
<1>2. CASE k \in dirty
  <2>1. Asks[k] > 1 /\ Asks'[k] = Asks[k] - 1
    BY <1>2, AsksAt DEF Expire
  <2>. QED
    BY <1>1, <2>1, AsksExcept DEF IQ!Merge
<1>3. CASE k \notin dirty
  <2>1. Asks'[k] = Asks[k]
    BY <1>3, AsksAt DEF Expire
  <2>2. \A j \in Keys : Asks'[j] = Asks[j]
    BY <1>1, <2>1
  <2>. QED
    BY <2>2 DEF Asks
<1>. QED
  BY <1>2, <1>3

(* A worker begins with a key that is asked for and that no worker holds.  *)
LEMMA GetItemImplements ==
  ASSUME Inv, NEW w \in Workers, GetItem(w)
  PROVE  \E k \in Keys : IQ!Begin(w, k)
<1>. DEFINE k == Head(queue)
<1>1. k \in Keys /\ k \in dirty /\ k \notin processing
  BY DEF Inv, TypeOK, WQTypeOK, WQInv, GetItem, Get, Range
<1>2. key[w] = NoKey /\ \A v \in Workers : key[v] # k
  BY <1>1, ControllerAssumption DEF Inv, WorkerInv, GetItem, At
<1>3. key' = [key EXCEPT ![w] = k]
  BY DEF GetItem
<1>4. Asks[k] > 0 /\ Asks' = [Asks EXCEPT ![k] = @ - 1]
  <2>1. Asks[k] > 0 /\ Asks'[k] = Asks[k] - 1
    BY <1>1, AsksAt DEF GetItem, Get
  <2>2. \A j \in Keys \ {k} : Asks'[j] = Asks[j]
    BY AsksAt DEF GetItem, Get
  <2>. QED
    BY <1>1, <2>1, <2>2, AsksExcept
<1>. QED
  BY <1>1, <1>2, <1>3, <1>4 DEF IQ!Begin

LEMMA ExitImplements == Exit => IQ!Restart
BY DEF Exit, Asks, IQ!Restart

LEMMA WorkerImplements ==
  ASSUME Inv, NEW w \in Workers, Worker(w)
  PROVE  [IQ!Next]_<<Asks, key>>
<1>1. CASE GetItem(w)
  BY <1>1, GetItemImplements DEF IQ!Next
<1>2. CASE FinishItem(w)
  <2>1. key[w] # NoKey
    BY <1>2 DEF FinishItem, Inv, WorkerInv
  <2>2. Asks' = Asks
    BY <1>2, AsksUnchanged DEF FinishItem, Done
  <2>. QED
    BY <1>2, <2>1, <2>2 DEF FinishItem, IQ!End, IQ!Next
<1>3. CASE Exit
  BY <1>3, ExitImplements DEF IQ!Next
<1>4. CASE waiting' = waiting /\ dirty' = dirty /\ key' = key
  BY <1>4, AsksUnchanged
<1>5. \/ GetItem(w) \/ FinishItem(w) \/ Exit
      \/ waiting' = waiting /\ dirty' = dirty /\ key' = key
  BY DEF Worker, LocalStep, RemoteStep, ReadLister, Admission, PingPanics, GetJoinCommand,
     Attempt, SaveResetInfo, LookupResetInfo, NilDereference, DeleteNodeStep,
     SetHostnameStep, CopyStep, CopyFatal, UnzipStep, InitStep, JoinStep, ResetStep,
     Remote, wqVars
<1>. QED
  BY <1>1, <1>2, <1>3, <1>4, <1>5

LEMMA InformerImplements ==
  ASSUME Inv, Informer
  PROVE  [IQ!Next]_<<Asks, key>>
<1>1. CASE \E k \in Keys : Observe(k) \/ Resync(k)
  BY <1>1, AsksUnchanged DEF Observe, Resync, wqVars, workerVars
<1>2. CASE \E k \in Keys : EndBackOff(k)
  BY <1>2, ExpireImplements DEF EndBackOff, workerVars, IQ!Next
<1>3. CASE \E note \in notes : Deliver(note)
  <2>1. PICK note \in notes : Deliver(note)
    BY <1>3
  <2>2. note.key \in Keys /\ key' = key
    BY <2>1 DEF Deliver, workerVars, Inv, TypeOK, Notes
  <2>3. AddRateLimited(note.key) \/ UNCHANGED wqVars
    BY <2>1 DEF Deliver, UpdateFunc
  <2>. QED
    BY <2>2, <2>3, AddRateLimitedImplements, AsksUnchanged DEF wqVars, IQ!Next
<1>. QED
  BY <1>1, <1>2, <1>3 DEF Informer

LEMMA NextImplements == Inv /\ [Next]_vars => [IQ!Next]_<<Asks, key>>
<1>. SUFFICES ASSUME Inv, [Next]_vars PROVE [IQ!Next]_<<Asks, key>>
  OBVIOUS
<1>1. CASE User \/ Kubelet \/ WatchCache \/ Start \/ UNCHANGED vars
  BY <1>1, AsksUnchanged DEF User, CreateKylinNode, UpdateKylinNode, DeleteKylinNode,
     Write, Kubelet, WatchCache, Start, vars, processVars, wqVars, workerVars
<1>2. CASE Kill \/ \E w1, w2 \in Workers : MapRace(w1, w2)
  BY <1>2, ExitImplements DEF Kill, MapRace, IQ!Next
<1>. QED
  BY <1>1, <1>2, InformerImplements, WorkerImplements DEF Next

(* The handlers, the queue and the workers implement ItemQueue.            *)
THEOREM ControllerImplementsItemQueue == Spec => ImplementsItemQueue
<1>. QED
  BY InitImplements, NextImplements, InvCorrect, PTL DEF Spec, ImplementsItemQueue, IQ!Spec

-----------------------------------------------------------------------------
(* Reconciler                                                              *)

(* What a step means to Reconciler, for one key and for the variables that *)
(* it leaves alone.                                                        *)
rcVars == <<revision, Wanted, Known, seen, Saved, Inside>>

LEMMA MappingUnchanged ==
  /\ UNCHANGED apiVars => UNCHANGED <<revision, Wanted>>
  /\ UNCHANGED cache => UNCHANGED Known
  /\ UNCHANGED resetNodeInfo => UNCHANGED Saved
  /\ UNCHANGED member => UNCHANGED Inside
BY DEF apiVars, Wanted, Known, Saved, Inside, OutOfCluster, VersionOf

LEMMA InitReconciles == Init => RC!Init
<1>. SUFFICES ASSUME Init PROVE RC!Init
  OBVIOUS
<1>1. \A k \in Keys : /\ VersionOf(kylinNodes[k]) = 0 /\ VersionOf(cache[k]) = 0
                      /\ resetNodeInfo[NameOf[k]] = NoSpec
                      /\ OutOfCluster(k)
  BY ControllerAssumption DEF Init, Nothing, VersionOf, NoResetInfo, OutOfCluster,
     MachinesInit, Specs
<1>. QED
  BY <1>1 DEF Init, RC!Init, RC!Everywhere, Wanted, Known, Saved, Inside

LEMMA UserReconciles == Inv /\ User => RC!Next
<1>. SUFFICES ASSUME Inv, User PROVE RC!Next
  OBVIOUS
<1>1. PICK k \in Keys, object \in Objects \cup {NoObject} :
         /\ Write(k, object)
         /\ object # NoObject => object.version = revision + 1
  BY ControllerAssumption DEF User, CreateKylinNode, UpdateKylinNode, DeleteKylinNode,
     Inv, TypeOK, Write, Objects, Versions
<1>2. VersionOf(object) \in {0, revision + 1}
  BY <1>1 DEF VersionOf
<1>3. \A i \in Keys : kylinNodes'[i] = IF i = k THEN object ELSE kylinNodes[i]
  BY <1>1 DEF Write, Inv, TypeOK
<1>4. Wanted' = [Wanted EXCEPT ![k] = VersionOf(object)]
  BY <1>3 DEF Wanted, VersionOf
<1>5. UNCHANGED <<Known, seen, Saved, Inside>>
  BY <1>1, MappingUnchanged DEF Write, machineVars, processVars, informerVars
<1>. QED
  BY <1>1, <1>2, <1>4, <1>5 DEF Write, RC!Write, RC!Next

LEMMA ExitReconciles == Exit => RC!End
<1>. SUFFICES ASSUME Exit PROVE RC!End
  OBVIOUS
<1>1. \A k \in Keys : VersionOf(cache[k])' = 0 /\ (resetNodeInfo[NameOf[k]])' = NoSpec
  BY ControllerAssumption DEF Exit, Nothing, NoResetInfo, VersionOf
<1>2. Known' = RC!Everywhere(0) /\ Saved' = RC!Everywhere(FALSE)
  BY <1>1 DEF Known, Saved, RC!Everywhere
<1>. QED
  BY <1>2, MappingUnchanged DEF Exit, machineVars, apiVars, RC!End, RC!Everywhere

LEMMA StartReconciles == Inv /\ ChangeInv /\ SyncInv /\ Start => RC!Begin
<1>. SUFFICES ASSUME Inv, ChangeInv, SyncInv, Start PROVE RC!Begin
  OBVIOUS
<1>1. \A k \in Keys : resetNodeInfo[NameOf[k]] = NoSpec /\ seen[k] = 0
  BY ControllerAssumption DEF Start, SyncInv, ChangeInv, VersionInv, NoResetInfo
<1>2. Known' = Wanted
  BY DEF Start, Known, Wanted, VersionOf
<1>3. \A k \in Keys : ~ Saved[k]
  BY <1>1 DEF Saved
<1>. QED
  BY <1>1, <1>2, <1>3, MappingUnchanged DEF Start, machineVars, RC!Begin

LEMMA InformerReconciles == Inv /\ Informer => RC!Next \/ UNCHANGED rcVars
<1>. SUFFICES ASSUME Inv, Informer PROVE RC!Next \/ UNCHANGED rcVars
  OBVIOUS
<1>1. ASSUME NEW k \in Keys, Observe(k) PROVE RC!Observe(k)
  <2>1. \A i \in Keys : cache'[i] = IF i = k THEN kylinNodes[i] ELSE cache[i]
    BY <1>1 DEF Observe, Inv, TypeOK
  <2>2. Known' = [Known EXCEPT ![k] = Wanted[k]]
    BY <2>1 DEF Known, Wanted, VersionOf
  <2>. QED
    BY <1>1, <2>2, MappingUnchanged DEF Observe, machineVars, RC!Observe
<1>2. CASE \/ \E k \in Keys : Resync(k) \/ EndBackOff(k)
           \/ \E note \in notes : Deliver(note)
  BY <1>2, MappingUnchanged DEF Resync, EndBackOff, Deliver, machineVars, informerVars,
     rcVars
<1>. QED
  BY <1>1, <1>2 DEF Informer, RC!Next

-----------------------------------------------------------------------------
(* The workers as a Reconciler                                             *)

(* A worker that holds a spec works for its key on a machine of its own,   *)
(* and the map remembers it once the first command was sent.               *)
LEMMA WorkerOwns ==
  ASSUME Inv, OwnerInv, OneKeyPerName, NEW w \in Workers, pc[w] \in SpecSteps
  PROVE  /\ key[w] \in Keys
         /\ spec[w] \in SpecsOf[key[w]]
         /\ spec[w] \in Specs
         /\ pc[w] \in RemoteSteps \cup {"deleteNode"} => Saved[key[w]]
<1>1. key[w] \in Keys /\ spec[w] \in Specs
  BY DEF Inv, TypeOK, WorkerInv, SpecSteps, RemoteSteps, InstallSteps
<1>2. pc[w] \in RemoteSteps \cup {"deleteNode"} => resetNodeInfo[NameOf[key[w]]] = spec[w]
  BY DEF OwnerInv, MapMatches
<1>. QED
  BY <1>1, <1>2, ControllerAssumption DEF OwnerInv, OwnInfo, Saved

(* A command on one machine changes the membership of its owner alone.     *)
LEMMA InsideAt ==
  ASSUME DisjointMachines, NEW k \in Keys, NEW s \in SpecsOf[k],
         \A a \in Addresses \ {s.address} : member'[a] = member[a]
  PROVE  \A j \in Keys \ {k} : Inside'[j] = Inside[j]
<1>. SUFFICES ASSUME NEW j \in Keys \ {k} PROVE OutOfCluster(j)' = OutOfCluster(j)
  BY DEF Inside
<1>1. \A t \in SpecsOf[j] : t.address \in Addresses \ {s.address}
  BY ControllerAssumption DEF DisjointMachines, Specs
<1>. QED
  BY <1>1 DEF OutOfCluster

(* Inside changes at one key, to x.                                        *)
LEMMA InsideExcept ==
  ASSUME NEW k \in Keys, NEW x \in BOOLEAN,
         \A j \in Keys \ {k} : Inside'[j] = Inside[j],
         Inside'[k] = x
  PROVE  Inside' = [Inside EXCEPT ![k] = x]
BY DEF Inside

(* kubeadm join takes the machine of the worker's KylinNode in.            *)
LEMMA JoinReconciles ==
  ASSUME Inv, OwnerInv, SyncInv, Disciplined,
         NEW w \in Workers, pc[w] = "join", KubeadmJoin(spec[w].address),
         UNCHANGED <<apiVars, cache, resetNodeInfo, seen>>
  PROVE  RC!Next \/ UNCHANGED rcVars
<1>. DEFINE k == key[w]
<1>1. /\ k \in Keys /\ spec[w] \in SpecsOf[k] /\ Saved[k]
      /\ spec[w].address \in Addresses
      /\ seen[k] # 0
  BY WorkerOwns DEF SpecSteps, RemoteSteps, InstallSteps, Disciplined, Specs, SyncInv,
     ApplySteps, CleanSteps
<1>2. \A a \in Addresses \ {spec[w].address} : member'[a] = member[a]
  BY DEF KubeadmJoin, Inv, TypeOK, MachinesTypeOK
<1>3. \A j \in Keys \ {k} : Inside'[j] = Inside[j]
  BY <1>1, <1>2, InsideAt DEF Disciplined
<1>4. Inside[k] \in BOOLEAN /\ Inside'[k] \in BOOLEAN
  BY <1>1 DEF Inside
<1>5. Inside[k] => Inside'[k]
  <2>1. \A a \in Addresses : member[a] # NoName => member'[a] = member[a]
    BY <1>1, <1>2 DEF KubeadmJoin
  <2>. QED
    BY <1>1, <2>1, ControllerAssumption DEF Inside, OutOfCluster, Specs
<1>6. UNCHANGED <<revision, Wanted, Known, seen, Saved>>
  BY MappingUnchanged DEF apiVars
<1>7. CASE Inside'[k] = Inside[k]
  <2>1. Inside' = Inside
    BY <1>3, <1>7 DEF Inside
  <2>. QED
    BY <1>6, <2>1 DEF rcVars
<1>8. CASE Inside'[k] # Inside[k]
  <2>1. Inside' = [Inside EXCEPT ![k] = TRUE]
    BY <1>1, <1>3, <1>4, <1>5, <1>8, InsideExcept
  <2>. QED
    BY <1>1, <1>6, <2>1 DEF RC!Join, RC!Next
<1>. QED
  BY <1>7, <1>8

(* kubeadm reset takes it out, unless another spec of that KylinNode is in.*)
LEMMA ResetReconciles ==
  ASSUME Inv, OwnerInv, SyncInv, Disciplined,
         NEW w \in Workers, pc[w] = "reset", KubeadmReset(spec[w].address),
         UNCHANGED <<apiVars, cache, resetNodeInfo, seen>>
  PROVE  RC!Next \/ UNCHANGED rcVars
<1>. DEFINE k == key[w]
<1>1. /\ k \in Keys /\ spec[w] \in SpecsOf[k] /\ Saved[k]
      /\ spec[w].address \in Addresses
      /\ seen[k] = 0
  BY WorkerOwns DEF SpecSteps, RemoteSteps, InstallSteps, Disciplined, Specs, SyncInv,
     ApplySteps, CleanSteps
<1>2. \A a \in Addresses : member'[a] = IF a = spec[w].address THEN NoName ELSE member[a]
  BY DEF KubeadmReset, Inv, TypeOK, MachinesTypeOK
<1>3. \A j \in Keys \ {k} : Inside'[j] = Inside[j]
  BY <1>1, <1>2, InsideAt DEF Disciplined
<1>4. Inside[k] \in BOOLEAN /\ Inside'[k] \in BOOLEAN
  BY <1>1 DEF Inside
<1>5. Inside'[k] => Inside[k]
  BY <1>1, <1>2, ControllerAssumption DEF Inside, OutOfCluster, Specs
<1>6. UNCHANGED <<revision, Wanted, Known, seen, Saved>>
  BY MappingUnchanged DEF apiVars
<1>7. CASE Inside'[k] = Inside[k]
  <2>1. Inside' = Inside
    BY <1>3, <1>7 DEF Inside
  <2>. QED
    BY <1>6, <2>1 DEF rcVars
<1>8. CASE Inside'[k] # Inside[k]
  <2>1. Inside' = [Inside EXCEPT ![k] = FALSE]
    BY <1>1, <1>3, <1>4, <1>5, <1>8, InsideExcept
  <2>. QED
    BY <1>1, <1>6, <2>1 DEF RC!Leave, RC!Next
<1>. QED
  BY <1>7, <1>8

LEMMA ReadReconciles ==
  \A w \in Workers : Inv /\ ReadLister(w) => RC!Read(key[w])
<1>. SUFFICES ASSUME NEW w \in Workers, Inv, ReadLister(w) PROVE RC!Read(key[w])
  OBVIOUS
<1>1. key[w] \in Keys
  BY DEF ReadLister, At, Inv, TypeOK, WorkerInv
<1>2. seen' = [seen EXCEPT ![key[w]] = Known[key[w]]]
  BY <1>1 DEF ReadLister, Known
<1>. QED
  BY <1>2, MappingUnchanged DEF ReadLister, Others, apiVars, informerVars, machineVars,
     RC!Read

LEMMA SaveReconciles ==
  \A w \in Workers :
    Inv /\ SyncInv /\ OneKeyPerName /\ SaveResetInfo(w) => RC!Save(key[w])
<1>. SUFFICES ASSUME NEW w \in Workers, Inv, SyncInv, OneKeyPerName, SaveResetInfo(w)
              PROVE  RC!Save(key[w])
  OBVIOUS
<1>1. /\ pc[w] = "save" /\ key[w] \in Keys
      /\ spec[w] # NoSpec /\ seen[key[w]] # 0
  BY ControllerAssumption DEF SaveResetInfo, At, Inv, TypeOK, WorkerInv, SpecSteps, SyncInv,
     ApplySteps
<1>2. \A i \in Keys : resetNodeInfo'[NameOf[i]]
                        = IF i = key[w] THEN spec[w] ELSE resetNodeInfo[NameOf[i]]
  BY <1>1, ControllerAssumption DEF SaveResetInfo, OneKeyPerName, Inv, TypeOK
<1>3. Saved' = [Saved EXCEPT ![key[w]] = TRUE]
  BY <1>1, <1>2 DEF Saved
<1>. QED
  BY <1>1, <1>3, MappingUnchanged DEF SaveResetInfo, Others, apiVars, informerVars,
     machineVars, RC!Save

LEMMA WorkerReconciles ==
  ASSUME Inv, OwnerInv, SyncInv, Disciplined, NEW w \in Workers, Worker(w)
  PROVE  RC!Next \/ UNCHANGED rcVars
<1>1. CASE ReadLister(w)
  <2>1. key[w] \in Keys
    BY <1>1 DEF ReadLister, At, Inv, TypeOK, WorkerInv
  <2>. QED
    BY <1>1, <2>1, ReadReconciles DEF RC!Next
<1>2. CASE SaveResetInfo(w)
  <2>1. key[w] \in Keys
    BY <1>2 DEF SaveResetInfo, At, Inv, TypeOK, WorkerInv
  <2>. QED
    BY <1>2, <2>1, SaveReconciles DEF Disciplined, RC!Next
<1>3. CASE Exit
  BY <1>3, ExitReconciles DEF RC!Next
<1>4. CASE JoinStep(w) \/ ResetStep(w)
  <2>1. UNCHANGED <<apiVars, cache, resetNodeInfo, seen>>
    BY <1>4 DEF JoinStep, ResetStep, Remote, Others, informerVars
  <2>2. \/ pc[w] = "join" /\ KubeadmJoin(spec[w].address)
        \/ pc[w] = "reset" /\ KubeadmReset(spec[w].address)
        \/ UNCHANGED member
    BY <1>4 DEF JoinStep, ResetStep, Remote, At, machineVars
  <2>. QED
    BY <2>1, <2>2, JoinReconciles, ResetReconciles, MappingUnchanged DEF apiVars, rcVars
<1>5. CASE UNCHANGED <<apiVars, cache, resetNodeInfo, seen, member>>
  BY <1>5, MappingUnchanged DEF apiVars, rcVars
<1>6. \/ ReadLister(w) \/ SaveResetInfo(w) \/ Exit \/ JoinStep(w) \/ ResetStep(w)
      \/ UNCHANGED <<apiVars, cache, resetNodeInfo, seen, member>>
  BY DEF Worker, LocalStep, RemoteStep, GetItem, Admission, PingPanics, GetJoinCommand,
     Attempt, LookupResetInfo, NilDereference, DeleteNodeStep, DeleteNode, FinishItem,
     SetHostnameStep, SetHostname, CopyStep, CopyInitNode, SpoilCopy, CopyFatal,
     UnzipStep, Unzip, InitStep, RunInit, Prepare, Remote, Others, informerVars,
     machineVars
<1>. QED
  BY <1>1, <1>2, <1>3, <1>4, <1>5, <1>6

LEMMA NextReconciles ==
  ASSUME Inv, OwnerInv, ChangeInv, SyncInv, Disciplined, [Next]_vars
  PROVE  [RC!Next]_rcVars
<1>1. CASE Kubelet \/ WatchCache \/ UNCHANGED vars
  <2>1. UNCHANGED <<apiVars, cache, resetNodeInfo, seen, member>>
    BY <1>1 DEF Kubelet, Register, WatchCache, SyncListed, vars, machineVars, processVars,
       informerVars
  <2>. QED
    BY <2>1, MappingUnchanged DEF apiVars, rcVars
<1>2. CASE User \/ Start \/ Informer
  BY <1>2, UserReconciles, StartReconciles, InformerReconciles DEF RC!Next
<1>3. CASE Exit
  BY <1>3, ExitReconciles DEF RC!Next
<1>. QED
  BY <1>1, <1>2, <1>3, WorkerReconciles DEF Next, Kill, MapRace

(* As long as neither names nor machines are shared, the controller        *)
(* implements Reconciler: whatever its workers interleave and whatever     *)
(* fails, a machine joins only when the process last read its KylinNode to *)
(* be there and saved what a reset needs, and leaves only when the process *)
(* last read it to be gone and has that.                                   *)
THEOREM ControllerImplementsReconciler ==
  ASSUME Disciplined PROVE Spec => ImplementsReconciler
<1>1. Inv /\ OwnerInv /\ ChangeInv /\ SyncInv /\ [Next]_vars => [RC!Next]_rcVars
  BY NextReconciles
<1>. QED
  BY <1>1, InitReconciles, OwnerCorrect, SyncCorrect, PTL
     DEF Spec, ImplementsReconciler, RC!Spec, RC!reconcilerVars, rcVars
=============================================================================
