------------------------ MODULE ControllerHistory_proofs ------------------------
(***************************************************************************)
(* Why the controller comes to rest and why deleted KylinNodes leave, for  *)
(* every set of keys, machines and workers and any number of writes.       *)
(***************************************************************************)
EXTENDS ControllerHistory, Outcome_proofs, FiniteSetTheorems

(* The history variables only watch: without them it is the controller.    *)
LEMMA HistoryIsSpec == HSpec => Spec
<1>1. [HNext]_hvars => [Next]_vars
  BY DEF HNext, hvars
<1>. QED
  BY <1>1, PTL DEF HSpec, Spec

-----------------------------------------------------------------------------
(* No machine is forgotten                                                 *)

(* What the process knows of the machine of k while it is in the cluster.  *)
Explained(k) ==
    ~ OutOfCluster(k) =>
        /\ resetNodeInfo[NameOf[k]] # NoSpec
        /\ seen[k] = 0 =>
              \E w \in Workers : key[w] = k /\ pc[w] \in {"lookup", "reset"}

ExplainedInv ==
    /\ missed \subseteq Keys
    /\ Disciplined /\ FixedSpecs => \A k \in Keys \ missed : Explained(k)

(* A step that takes no machine in, forgets and reads nothing, and leaves  *)
(* every worker that is about to reset where it is.                        *)
LEMMA KeepsExplained ==
  ASSUME NEW k \in Keys, Explained(k),
         UNCHANGED <<member, seen>>,
         resetNodeInfo[NameOf[k]] # NoSpec => resetNodeInfo'[NameOf[k]] # NoSpec,
         \A w \in Workers : key[w] = k /\ pc[w] \in {"lookup", "reset"} =>
             key'[w] = k /\ pc'[w] \in {"lookup", "reset"}
  PROVE  Explained(k)'
BY DEF Explained, OutOfCluster

(* A step of w that moves it, with its key, to another place.              *)
LEMMA WalkExplained ==
  ASSUME Inv, NEW k \in Keys, Explained(k), NEW w \in Workers, NEW step, Goto(w, step),
         pc[w] \in {"lookup", "reset"} => step \in {"lookup", "reset"},
         UNCHANGED <<member, seen, key>>,
         resetNodeInfo[NameOf[k]] # NoSpec => resetNodeInfo'[NameOf[k]] # NoSpec
  PROVE  Explained(k)'
<1>1. \A v \in Workers : pc'[v] = IF v = w THEN step ELSE pc[v]
  BY DEF Goto, Inv, TypeOK
<1>. QED
  BY <1>1, KeepsExplained

(* Only kubeadm join takes a machine in: that of a KylinNode which the     *)
(* process has read to be there, and saved.                                *)
LEMMA JoinExplained ==
  ASSUME Inv, OwnerInv, SyncInv, Disciplined, FixedSpecs,
         NEW k \in Keys, Explained(k), NEW w \in Workers, JoinStep(w)
  PROVE  Explained(k)'
<1>1. /\ pc[w] = "join" /\ key[w] \in Keys /\ spec[w] \in SpecsOf[key[w]]
      /\ seen[key[w]] # 0
      /\ resetNodeInfo[NameOf[key[w]]] # NoSpec
      /\ spec[w].address \in Addresses
  BY ControllerAssumption DEF JoinStep, At, Inv, TypeOK, WorkerInv, OwnerInv, OwnInfo, MapMatches,
     Disciplined, SpecSteps, RemoteSteps, InstallSteps, SyncInv, ApplySteps, Specs
<1>2. /\ UNCHANGED <<key, seen, resetNodeInfo>>
      /\ \A v \in Workers \ {w} : pc'[v] = pc[v]
      /\ \A a \in Addresses \ {spec[w].address} : member'[a] = member[a]
  BY DEF JoinStep, Remote, Goto, KubeadmJoin, machineVars, Inv, TypeOK, MachinesTypeOK
<1>3. CASE k = key[w]
  BY <1>1, <1>2, <1>3 DEF Explained
<1>4. CASE k # key[w]
  <2>1. \A s \in SpecsOf[k] : s.address \in Addresses \ {spec[w].address}
    BY <1>1, <1>4, ControllerAssumption DEF Disciplined, DisjointMachines, Specs
  <2>2. OutOfCluster(k)' = OutOfCluster(k)
    BY <1>2, <2>1 DEF OutOfCluster
  <2>3. \A v \in Workers : key[v] = k /\ pc[v] \in {"lookup", "reset"} =>
            key'[v] = k /\ pc'[v] \in {"lookup", "reset"}
    BY <1>1, <1>2
  <2>. QED
    BY <1>2, <2>2, <2>3 DEF Explained
<1>. QED
  BY <1>3, <1>4

(* A reset that does not fail takes the one machine of its KylinNode out.  *)
LEMMA ResetExplained ==
  ASSUME Inv, OwnerInv, Disciplined, FixedSpecs,
         NEW k \in Keys, Explained(k), ~ GivesUp(k), NEW w \in Workers, ResetStep(w)
  PROVE  Explained(k)'
<1>1. /\ pc[w] = "reset" /\ key[w] \in Keys /\ spec[w] \in SpecsOf[key[w]]
      /\ spec[w].address \in Addresses
  BY ControllerAssumption DEF ResetStep, At, Inv, TypeOK, WorkerInv, OwnerInv, OwnInfo,
     Disciplined, SpecSteps, RemoteSteps, Specs
<1>2. /\ UNCHANGED <<key, seen, resetNodeInfo>>
      /\ \A v \in Workers \ {w} : pc'[v] = pc[v]
      /\ pc'[w] \in {"deleteNode", "error"}
      /\ KubeadmReset(spec[w].address) \/ (UNCHANGED member /\ pc'[w] = "error")
  BY DEF ResetStep, Remote, Goto, machineVars, Inv, TypeOK
<1>3. CASE k = key[w]
  <2>1. pc'[w] # "error"
    BY <1>1, <1>3 DEF GivesUp
  <2>2. member' = [member EXCEPT ![spec[w].address] = NoName]
    BY <1>2, <2>1 DEF KubeadmReset
  <2>3. \A s \in SpecsOf[k] : s = spec[w]
    BY <1>1, <1>3 DEF FixedSpecs
  <2>4. OutOfCluster(k)'
    BY <1>1, <2>2, <2>3 DEF OutOfCluster, Inv, TypeOK, MachinesTypeOK
  <2>. QED
    BY <2>4 DEF Explained
<1>4. CASE k # key[w]
  <2>1. \A s \in SpecsOf[k] : s.address \in Addresses \ {spec[w].address}
    BY <1>1, <1>4, ControllerAssumption DEF Disciplined, DisjointMachines, Specs
  <2>2. \A a \in Addresses \ {spec[w].address} : member'[a] = member[a]
    BY <1>2 DEF KubeadmReset, Inv, TypeOK, MachinesTypeOK
  <2>3. OutOfCluster(k)' = OutOfCluster(k)
    BY <2>1, <2>2 DEF OutOfCluster
  <2>4. \A v \in Workers : key[v] = k /\ pc[v] \in {"lookup", "reset"} =>
            key'[v] = k /\ pc'[v] \in {"lookup", "reset"}
    BY <1>2, <1>4
  <2>. QED
    BY <1>2, <2>3, <2>4 DEF Explained
<1>. QED
  BY <1>3, <1>4

LEMMA ReadExplained ==
  ASSUME Inv, NEW k \in Keys, Explained(k), NEW w \in Workers, ReadLister(w)
  PROVE  Explained(k)'
<1>1. /\ UNCHANGED <<key, member, resetNodeInfo>>
      /\ pc[w] = "lister" /\ key[w] \in Keys
      /\ seen' = [seen EXCEPT ![key[w]] = VersionOf(cache[key[w]])]
      /\ \A v \in Workers \ {w} : pc'[v] = pc[v]
      /\ cache[key[w]] = NoObject => pc'[w] = "lookup"
  BY DEF ReadLister, At, Goto, machineVars, Inv, TypeOK, WorkerInv
<1>2. CASE k = key[w]
  <2>1. seen'[k] = 0 => pc'[w] = "lookup"
    BY <1>1, <1>2, VersionOfType DEF Inv, TypeOK
  <2>. QED
    BY <1>1, <1>2, <2>1 DEF Explained, OutOfCluster
<1>3. CASE k # key[w]
  <2>1. seen'[k] = seen[k]
    BY <1>1, <1>3 DEF Inv, TypeOK
  <2>. QED
    BY <1>1, <1>3, <2>1 DEF Explained, OutOfCluster
<1>. QED
  BY <1>2, <1>3

LEMMA WorkerExplained ==
  ASSUME Inv, OwnerInv, SyncInv, Disciplined, FixedSpecs,
         NEW k \in Keys, Explained(k), ~ GivesUp(k), NEW w \in Workers, Worker(w)
  PROVE  Explained(k)'
<1>1. CASE GetItem(w) \/ FinishItem(w)
  <2>1. /\ UNCHANGED <<member, seen, resetNodeInfo>>
        /\ pc[w] \notin {"lookup", "reset"}
        /\ \A v \in Workers \ {w} : pc'[v] = pc[v] /\ key'[v] = key[v]
    BY <1>1 DEF GetItem, FinishItem, At, Goto, machineVars, Inv, TypeOK
  <2>. QED
    BY <2>1, KeepsExplained
<1>2. CASE SaveResetInfo(w)
  <2>1. pc[w] = "save" /\ spec[w] # NoSpec /\ key[w] \in Keys
    BY <1>2, ControllerAssumption DEF SaveResetInfo, At, Inv, TypeOK, WorkerInv, SpecSteps
  <2>2. resetNodeInfo[NameOf[k]] # NoSpec => resetNodeInfo'[NameOf[k]] # NoSpec
    BY <1>2, <2>1, ControllerAssumption DEF SaveResetInfo, Inv, TypeOK
  <2>. QED
    BY <1>2, <2>1, <2>2, WalkExplained DEF SaveResetInfo, machineVars
<1>3. CASE Admission(w) \/ GetJoinCommand(w) \/ LookupResetInfo(w)
  <2>1. /\ UNCHANGED <<member, seen, key, resetNodeInfo>>
        /\ \/ pc[w] \in {"admission", "token"} /\ \E step \in Steps : Goto(w, step)
           \/ Goto(w, "reset")
    BY <1>3 DEF Admission, GetJoinCommand, Attempt, LookupResetInfo, At, machineVars,
       Steps, MapSteps
  <2>. QED
    BY <2>1, WalkExplained
<1>4. CASE \/ DeleteNodeStep(w) \/ SetHostnameStep(w) \/ CopyStep(w) \/ UnzipStep(w)
           \/ InitStep(w)
  <2>1. /\ UNCHANGED <<member, seen, key, resetNodeInfo>>
        /\ pc[w] \in {"deleteNode", "hostname", "copy", "unzip", "init"}
        /\ \E step \in Steps : Goto(w, step)
    BY <1>4 DEF DeleteNodeStep, DeleteNode, SetHostnameStep, SetHostname, CopyStep,
       CopyInitNode, SpoilCopy, UnzipStep, Unzip, InitStep, RunInit, Prepare, Remote, At,
       machineVars, Steps, RemoteSteps, InstallSteps
  <2>. QED
    BY <2>1, WalkExplained
<1>5. CASE Exit
  BY <1>5 DEF Exit, GivesUp
<1>. QED
  BY <1>1, <1>2, <1>3, <1>4, <1>5, ReadExplained, JoinExplained, ResetExplained
     DEF Worker, LocalStep, RemoteStep, PingPanics, NilDereference, CopyFatal

LEMMA NextExplained ==
  ASSUME Inv, OwnerInv, SyncInv, ExplainedInv, [HNext]_hvars
  PROVE  ExplainedInv'
<1>1. missed' \subseteq Keys
  BY DEF ExplainedInv, HNext, HistoryStep, hvars, historyVars
<1>. SUFFICES ASSUME Disciplined, FixedSpecs, NEW k \in Keys, k \notin missed'
              PROVE  Explained(k)'
  BY <1>1 DEF ExplainedInv, Disciplined, OneKeyPerName, DisjointMachines, FixedSpecs
<1>2. CASE UNCHANGED hvars
  <2>1. Explained(k)
    BY <1>2 DEF hvars, historyVars, ExplainedInv
  <2>. QED
    BY <1>2, <2>1, KeepsExplained DEF hvars, vars, machineVars, processVars, workerVars
<1>3. CASE HNext /\ OutOfCluster(k)'
  BY <1>3 DEF Explained
<1>4. CASE HNext /\ ~ OutOfCluster(k)'
  <2>1. k \notin missed /\ ~ GivesUp(k)
    BY <1>4 DEF HNext, HistoryStep
  <2>2. Explained(k) /\ Next
    BY <1>4, <2>1 DEF ExplainedInv, HNext
  <2>3. CASE User \/ Kubelet \/ WatchCache \/ Start \/ Informer
    <3>1. UNCHANGED <<member, seen, resetNodeInfo, pc, key>>
      BY <2>3 DEF User, CreateKylinNode, UpdateKylinNode, DeleteKylinNode, Write,
         Kubelet, Register, WatchCache, SyncListed, Start, Informer, Observe, Resync,
         EndBackOff, Deliver, machineVars, processVars, workerVars
    <3>. QED
      BY <2>2, <3>1, KeepsExplained
  <2>4. ~ Exit
    BY <2>1 DEF Exit, GivesUp
  <2>. QED
    BY <2>1, <2>2, <2>3, <2>4, WorkerExplained DEF Next, Kill, MapRace
<1>. QED
  BY <1>2, <1>3, <1>4

LEMMA InitExplained == Init /\ HistoryInit => ExplainedInv
<1>. SUFFICES ASSUME Init, HistoryInit PROVE ExplainedInv
  OBVIOUS
<1>1. \A k \in Keys : OutOfCluster(k)
  BY ControllerAssumption DEF Init, OutOfCluster, MachinesInit, Specs
<1>. QED
  BY <1>1 DEF HistoryInit, ExplainedInv, Explained

(* No change of the store is lost, so what a sync has not read is pending. *)
LEMMA NotForgotten ==
  ASSUME Inv, ChangeInv, SyncInv, ExplainedInv
  PROVE  NoMachineForgotten
<1>. SUFFICES ASSUME Disciplined, FixedSpecs, NEW k \in Keys \ missed, ~ OutOfCluster(k)
              PROVE  /\ up
                     /\ resetNodeInfo[NameOf[k]] # NoSpec
                     /\ cache[k] = NoObject =>
                           \/ Pending(k)
                           \/ \E w \in Workers :
                                 key[w] = k /\ pc[w] \in {"lookup", "reset"}
  BY DEF NoMachineForgotten
<1>1. Explained(k)
  BY DEF ExplainedInv
<1>2. resetNodeInfo[NameOf[k]] # NoSpec
  BY <1>1 DEF Explained
<1>3. up
  BY <1>2, ControllerAssumption DEF SyncInv, NoResetInfo
<1>4. ASSUME cache[k] = NoObject, ~ Pending(k)
      PROVE  \E w \in Workers : key[w] = k /\ pc[w] \in {"lookup", "reset"}
  <2>1. seen[k] = 0
    BY <1>3, <1>4 DEF ChangeInv, NoChangeLost, VersionOf
  <2>. QED
    BY <1>1, <2>1 DEF Explained
<1>. QED
  BY <1>2, <1>3, <1>4

(* A machine that is in the cluster although its KylinNode is gone is in   *)
(* only until a sync that is pending has reset it, unless the process died *)
(* while it was in or a reset of it failed.                                *)
THEOREM MachinesAreNotForgotten == HSpec => []NoMachineForgotten
<1>1. Init /\ HistoryInit => ExplainedInv
  BY InitExplained
<1>2. Inv /\ OwnerInv /\ SyncInv /\ ExplainedInv /\ [HNext]_hvars => ExplainedInv'
  BY NextExplained
<1>3. Inv /\ ChangeInv /\ SyncInv /\ ExplainedInv => NoMachineForgotten
  BY NotForgotten
<1>. QED
  BY <1>1, <1>2, <1>3, HistoryIsSpec, OwnerCorrect, SyncCorrect, PTL DEF HSpec

-----------------------------------------------------------------------------
(* One sync per write                                                      *)

(* The notifications of k that tell of a change.                           *)
Changes(k) == {note \in notes : note.key = k /\ note.old # note.new}

Ahead(k) == up /\ cache[k] # kylinNodes[k]

(* The syncs of k that can still begin before k is written again.          *)
ToCome(k) == Count(k \in waiting) + Count(k \in dirty)
                + Cardinality(Changes(k)) + Count(Ahead(k))

CountOK(k) ==
    /\ syncs[k] \in Nat /\ writes[k] \in Nat
    /\ IsFiniteSet(Changes(k))
    /\ syncs[k] + ToCome(k) <= writes[k]
    /\ kylinNodes[k] # NoObject => writes[k] > 0
    /\ ~up => k \notin waiting \cup dirty /\ syncs[k] = 0

CountInv ==
    /\ \A k \in Keys : CountOK(k)
    /\ \A note \in notes : NoObject \in {note.old, note.new} => note.old # note.new

LEMMA InitCount == Init /\ HistoryInit => CountInv
<1>. SUFFICES ASSUME Init, HistoryInit PROVE CountInv
  OBVIOUS
<1>1. ASSUME NEW k \in Keys PROVE CountOK(k)
  <2>1. Changes(k) = {}
    BY DEF Init, Changes
  <2>2. IsFiniteSet(Changes(k)) /\ Cardinality(Changes(k)) = 0
    BY <2>1, FS_EmptySet
  <2>3. ToCome(k) = 0
    BY <2>2 DEF Init, WQInit, ToCome, Ahead, Count
  <2>. QED
    BY <2>2, <2>3 DEF Init, WQInit, HistoryInit, Nothing, CountOK
<1>. QED
  BY <1>1 DEF Init, CountInv

(* What the history variables make of a step.                              *)
LEMMA HistoryAt ==
  ASSUME HistoryStep, NEW k \in Keys
  PROVE  /\ writes'[k] = writes[k] + Count(kylinNodes'[k] # kylinNodes[k])
         /\ up' => syncs'[k] = syncs[k] + Count(BeginsSync(k))
         /\ ~up' => syncs'[k] = 0
BY DEF HistoryStep

(* A step that neither writes k nor changes what is still to come for it.  *)
LEMMA KeepsCount ==
  ASSUME NEW k \in Keys, CountOK(k), HistoryStep, ~ BeginsSync(k),
         up' = up, UNCHANGED <<kylinNodes, cache>>,
         Changes(k)' = Changes(k),
         k \in waiting' <=> k \in waiting,
         k \in dirty' <=> k \in dirty
  PROVE  CountOK(k)'
<1>1. /\ writes'[k] = writes[k]
      /\ up => syncs'[k] = syncs[k]
      /\ ~up => syncs'[k] = 0
  BY HistoryAt DEF CountOK, Count
<1>2. ToCome(k)' = ToCome(k)
  BY DEF ToCome, Ahead, Count
<1>. QED
  BY <1>1, <1>2 DEF CountOK

(* No sync begins where no worker changes its key, or only to no key.      *)
LEMMA NoSyncBegins ==
  ASSUME NEW k \in Keys, \A w \in Workers : key'[w] \in {key[w], NoKey}
  PROVE  ~ BeginsSync(k)
BY ControllerAssumption DEF BeginsSync

LEMMA UserCount ==
  ASSUME Inv, ChangeInv, CountInv, HistoryStep, User
  PROVE  CountInv'
<1>1. PICK i \in Keys, object \in Objects \cup {NoObject} :
         /\ Write(i, object)
         /\ object # NoObject => object.version = revision + 1
         /\ object = NoObject => kylinNodes[i] # NoObject
  BY ControllerAssumption DEF User, CreateKylinNode, UpdateKylinNode, DeleteKylinNode,
     Inv, TypeOK, Write, Objects, Versions
<1>2. /\ kylinNodes' = [kylinNodes EXCEPT ![i] = object]
      /\ UNCHANGED <<up, cache, notes, waiting, dirty, key>>
  BY <1>1 DEF Write, processVars, informerVars, wqVars, workerVars
<1>3. object # kylinNodes[i]
  <2>1. /\ VersionOf(kylinNodes[i]) <= revision /\ revision \in Nat
        /\ VersionOf(kylinNodes[i]) \in Nat
    BY VersionOfType, ControllerAssumption DEF ChangeInv, VersionInv, Inv, TypeOK
  <2>. QED
    BY <1>1, <2>1 DEF VersionOf
<1>4. ASSUME NEW k \in Keys PROVE CountOK(k)'
  <2>1. CountOK(k) /\ ~ BeginsSync(k)
    BY <1>2, NoSyncBegins DEF CountInv
  <2>2. CASE k # i
    <3>1. kylinNodes'[k] = kylinNodes[k]
      BY <1>2, <2>2 DEF Inv, TypeOK
    <3>2. /\ writes'[k] = writes[k]
          /\ up => syncs'[k] = syncs[k]
          /\ ~up => syncs'[k] = 0
      BY <1>2, <2>1, <3>1, HistoryAt DEF CountOK, Count
    <3>3. ToCome(k)' = ToCome(k) /\ Changes(k)' = Changes(k)
      BY <1>2, <3>1 DEF ToCome, Changes, Ahead, Count
    <3>. QED
      BY <1>2, <2>1, <3>1, <3>2, <3>3 DEF CountOK
  <2>3. CASE k = i
    <3>1. kylinNodes'[k] = object
      BY <1>2, <2>3 DEF Inv, TypeOK
    <3>2. /\ writes'[k] = writes[k] + 1
          /\ up => syncs'[k] = syncs[k]
          /\ ~up => syncs'[k] = 0
      BY <1>2, <1>3, <2>1, <2>3, <3>1, HistoryAt DEF CountOK, Count
    <3>3. Changes(k)' = Changes(k)
      BY <1>2 DEF Changes
    <3>4. Cardinality(Changes(k)) \in Nat
      BY <2>1, FS_CardinalityType DEF CountOK
    <3>5. ToCome(k)' <= ToCome(k) + 1 /\ ToCome(k)' \in Nat /\ ToCome(k) \in Nat
      BY <1>2, <3>3, <3>4 DEF ToCome, Count
    <3>. QED
      BY <1>2, <2>1, <3>2, <3>3, <3>5 DEF CountOK
  <2>. QED
    BY <2>2, <2>3
<1>. QED
  BY <1>2, <1>4 DEF CountInv

LEMMA ExitCount ==
  ASSUME CountInv, HistoryStep, Exit
  PROVE  CountInv'
<1>1. ASSUME NEW k \in Keys PROVE CountOK(k)'
  <2>1. Changes(k)' = {}
    BY DEF Exit, Changes
  <2>2. CountOK(k) /\ writes'[k] = writes[k] /\ syncs'[k] = 0
    BY HistoryAt DEF Exit, apiVars, CountInv, CountOK, Count
  <2>. QED
    BY <2>1, <2>2, FS_EmptySet DEF Exit, apiVars, CountOK, ToCome, Ahead, Count
<1>. QED
  BY <1>1 DEF Exit, CountInv

LEMMA StartCount ==
  ASSUME Inv, CountInv, HistoryStep, Start
  PROVE  CountInv'
<1>1. ASSUME NEW k \in Keys PROVE CountOK(k)'
  <2>1. ~ BeginsSync(k)
    BY NoSyncBegins DEF Start, workerVars
  <2>2. CountOK(k) /\ writes'[k] = writes[k] /\ syncs'[k] = 0
    BY <2>1, HistoryAt DEF Start, apiVars, CountInv, CountOK, Count
  <2>3. /\ IsFiniteSet(Changes(k)')
        /\ Cardinality(Changes(k)') = Count(kylinNodes[k] # NoObject)
    <3>1. CASE kylinNodes[k] = NoObject
      <4>1. Changes(k)' = {}
        BY <3>1 DEF Start, Changes
      <4>. QED
        BY <3>1, <4>1, FS_EmptySet DEF Count
    <3>2. CASE kylinNodes[k] # NoObject
      <4>1. Changes(k)' = {[key |-> k, old |-> NoObject, new |-> kylinNodes[k]]}
        BY <3>2 DEF Start, Changes
      <4>. QED
        BY <3>2, <4>1, FS_Singleton DEF Count
    <3>. QED
      BY <3>1, <3>2
  <2>. QED
    BY <2>2, <2>3 DEF Start, apiVars, wqVars, CountOK, ToCome, Ahead, Count
<1>2. \A note \in notes' : note.old # note.new
  BY DEF Start
<1>. QED
  BY <1>1, <1>2 DEF CountInv

(* The store takes over a change: what was ahead of it is announced.       *)
LEMMA ObserveCount ==
  ASSUME Inv, CountInv, HistoryStep, NEW i \in Keys, Observe(i)
  PROVE  CountInv'
<1>. DEFINE note == [key |-> i, old |-> cache[i], new |-> kylinNodes[i]]
<1>1. /\ up /\ up' /\ cache[i] # kylinNodes[i]
      /\ cache' = [cache EXCEPT ![i] = kylinNodes[i]]
      /\ notes' = notes \cup {note}
      /\ UNCHANGED <<kylinNodes, waiting, dirty, key>>
  BY DEF Observe, apiVars, wqVars, workerVars
<1>2. ASSUME NEW k \in Keys PROVE CountOK(k)'
  <2>1. CountOK(k) /\ ~ BeginsSync(k)
    BY <1>1, NoSyncBegins DEF CountInv
  <2>2. CASE k # i
    <3>1. Changes(k)' = Changes(k)
      BY <1>1, <2>2 DEF Changes
    <3>2. cache'[k] = cache[k]
      BY <1>1, <2>2 DEF Inv, TypeOK
    <3>3. writes'[k] = writes[k] /\ syncs'[k] = syncs[k]
      BY <1>1, <2>1, HistoryAt DEF CountOK, Count
    <3>4. ToCome(k)' = ToCome(k)
      BY <1>1, <3>1, <3>2 DEF ToCome, Ahead, Count
    <3>. QED
      BY <1>1, <2>1, <3>1, <3>3, <3>4 DEF CountOK
  <2>3. CASE k = i
    <3>1. Changes(k)' = Changes(k) \cup {note}
      BY <1>1, <2>3 DEF Changes
    <3>2. /\ Cardinality(Changes(k)) \in Nat /\ Cardinality(Changes(k)') \in Nat
          /\ Cardinality(Changes(k)') <= Cardinality(Changes(k)) + 1
          /\ IsFiniteSet(Changes(k)')
      <4>1. IsFiniteSet(Changes(k)) /\ Cardinality(Changes(k)) \in Nat
        BY <2>1, FS_CardinalityType DEF CountOK
      <4>2. /\ IsFiniteSet(Changes(k) \cup {note})
            /\ Cardinality(Changes(k) \cup {note})
                 \in {Cardinality(Changes(k)), Cardinality(Changes(k)) + 1}
        BY <4>1, FS_AddElement
      <4>. QED
        BY <3>1, <4>1, <4>2
    <3>3. Ahead(k) /\ ~ Ahead(k)'
      BY <1>1, <2>3 DEF Ahead, Inv, TypeOK
    <3>4. writes'[k] = writes[k] /\ syncs'[k] = syncs[k]
      BY <1>1, <2>1, HistoryAt DEF CountOK, Count
    <3>5. ToCome(k)' <= ToCome(k) /\ ToCome(k)' \in Nat /\ ToCome(k) \in Nat
      BY <1>1, <3>2, <3>3 DEF ToCome, Count
    <3>. QED
      BY <1>1, <2>1, <3>2, <3>4, <3>5 DEF CountOK
  <2>. QED
    BY <2>2, <2>3
<1>3. \A n \in notes' : NoObject \in {n.old, n.new} => n.old # n.new
  BY <1>1 DEF CountInv
<1>. QED
  BY <1>2, <1>3 DEF CountInv

(* A repetition announces no change.                                       *)
LEMMA ResyncCount ==
  ASSUME Inv, CountInv, HistoryStep, NEW i \in Keys, Resync(i)
  PROVE  CountInv'
<1>1. /\ up /\ up' /\ cache[i] # NoObject
      /\ notes' = notes \cup {[key |-> i, old |-> cache[i], new |-> cache[i]]}
      /\ UNCHANGED <<kylinNodes, cache, waiting, dirty, key>>
  BY DEF Resync, apiVars, wqVars, workerVars
<1>2. ASSUME NEW k \in Keys PROVE CountOK(k)'
  <2>1. Changes(k)' = Changes(k)
    BY <1>1 DEF Changes
  <2>. QED
    BY <1>1, <2>1, NoSyncBegins, KeepsCount DEF CountInv
<1>3. \A n \in notes' : NoObject \in {n.old, n.new} => n.old # n.new
  BY <1>1 DEF CountInv
<1>. QED
  BY <1>2, <1>3 DEF CountInv

(* A delivered change, and no other notification, is given to the queue.   *)
LEMMA DeliverCount ==
  ASSUME Inv, ChangeInv, CountInv, HistoryStep, NEW note \in notes, Deliver(note)
  PROVE  CountInv'
<1>1. /\ up /\ up'
      /\ notes' = notes \ {note}
      /\ UNCHANGED <<kylinNodes, cache, key>>
  BY DEF Deliver, apiVars, workerVars
<1>2. /\ dirty' = dirty
      /\ IF note.old = note.new THEN waiting' = waiting
         ELSE waiting' \subseteq waiting \cup {note.key}
  <2>1. CASE NoObject \in {note.old, note.new}
    BY <2>1 DEF Deliver, AddRateLimited, CountInv
  <2>2. CASE NoObject \notin {note.old, note.new}
    BY <2>2 DEF Deliver, UpdateFunc, AddRateLimited, wqVars
  <2>. QED
    BY <2>1, <2>2
<1>3. waiting \subseteq waiting'
  BY DEF Deliver, UpdateFunc, AddRateLimited, wqVars
<1>4. ASSUME NEW k \in Keys PROVE CountOK(k)'
  <2>1. CountOK(k) /\ ~ BeginsSync(k)
    BY <1>1, NoSyncBegins DEF CountInv
  <2>2. CASE note \notin Changes(k)
    <3>1. Changes(k)' = Changes(k)
      BY <1>1, <2>2 DEF Changes
    <3>2. note.key # k \/ note.old = note.new
      BY <2>2 DEF Changes
    <3>. QED
      BY <1>1, <1>2, <1>3, <2>1, <3>1, <3>2, KeepsCount
  <2>3. CASE note \in Changes(k)
    <3>1. Changes(k)' = Changes(k) \ {note}
      BY <1>1 DEF Changes
    <3>2. /\ Cardinality(Changes(k)) \in Nat /\ Cardinality(Changes(k)') \in Nat
          /\ Cardinality(Changes(k)') = Cardinality(Changes(k)) - 1
          /\ IsFiniteSet(Changes(k)')
      BY <2>1, <2>3, <3>1, FS_RemoveElement, FS_CardinalityType DEF CountOK
    <3>3. writes'[k] = writes[k] /\ syncs'[k] = syncs[k]
      BY <1>1, <2>1, HistoryAt DEF CountOK, Count
    <3>4. ToCome(k)' <= ToCome(k) /\ ToCome(k)' \in Nat /\ ToCome(k) \in Nat
      BY <1>1, <1>2, <1>3, <3>2 DEF ToCome, Ahead, Count
    <3>. QED
      BY <1>1, <2>1, <3>2, <3>3, <3>4 DEF CountOK
  <2>. QED
    BY <2>2, <2>3
<1>. QED
  BY <1>1, <1>4 DEF CountInv

(* The end of a back-off turns one thing to come into another, or merges.  *)
LEMMA EndBackOffCount ==
  ASSUME CountInv, HistoryStep, NEW i \in Keys, EndBackOff(i)
  PROVE  CountInv'
<1>1. /\ up /\ up' /\ i \in waiting
      /\ waiting' = waiting \ {i} /\ dirty' = dirty \cup {i}
      /\ UNCHANGED <<kylinNodes, cache, notes, key>>
  BY DEF EndBackOff, Expire, apiVars, informerVars, workerVars
<1>2. ASSUME NEW k \in Keys PROVE CountOK(k)'
  <2>1. CountOK(k) /\ ~ BeginsSync(k) /\ Changes(k)' = Changes(k)
    BY <1>1, NoSyncBegins DEF CountInv, Changes
  <2>2. writes'[k] = writes[k] /\ syncs'[k] = syncs[k]
    BY <1>1, <2>1, HistoryAt DEF CountOK, Count
  <2>3. Cardinality(Changes(k)) \in Nat
    BY <2>1, FS_CardinalityType DEF CountOK
  <2>4. ToCome(k)' <= ToCome(k) /\ ToCome(k)' \in Nat /\ ToCome(k) \in Nat
    BY <1>1, <2>1, <2>3 DEF ToCome, Ahead, Count
  <2>. QED
    BY <1>1, <2>1, <2>2, <2>4 DEF CountOK
<1>. QED
  BY <1>1, <1>2 DEF CountInv

(* A sync that begins is one that was to come.                             *)
LEMMA GetItemCount ==
  ASSUME Inv, CountInv, HistoryStep, NEW w \in Workers, GetItem(w)
  PROVE  CountInv'
<1>. DEFINE i == Head(queue)
<1>1. /\ up /\ up'
      /\ dirty' = dirty \ {i}
      /\ UNCHANGED <<kylinNodes, cache, notes, waiting>>
      /\ i \in dirty
  BY DEF GetItem, At, Get, Others, apiVars, informerVars, Inv, TypeOK, WQTypeOK, WQInv,
     Range
<1>2. key' = [key EXCEPT ![w] = i]
  BY DEF GetItem
<1>3. ASSUME NEW k \in Keys PROVE CountOK(k)'
  <2>1. CountOK(k) /\ Changes(k)' = Changes(k) /\ Cardinality(Changes(k)) \in Nat
    BY <1>1, FS_CardinalityType DEF CountInv, CountOK, Changes
  <2>2. CASE k # i
    <3>1. ~ BeginsSync(k)
      BY <1>2, <2>2 DEF BeginsSync, Inv, TypeOK
    <3>. QED
      BY <1>1, <2>1, <2>2, <3>1, KeepsCount
  <2>3. CASE k = i
    <3>1. writes'[k] = writes[k] /\ syncs'[k] \in Nat /\ syncs'[k] <= syncs[k] + 1
      BY <1>1, <2>1, HistoryAt DEF CountOK, Count
    <3>2. ToCome(k)' = ToCome(k) - 1 /\ ToCome(k)' \in Nat /\ ToCome(k) \in Nat
      BY <1>1, <2>1, <2>3 DEF ToCome, Ahead, Count
    <3>. QED
      BY <1>1, <2>1, <3>1, <3>2 DEF CountOK
  <2>. QED
    BY <2>2, <2>3
<1>. QED
  BY <1>1, <1>3 DEF CountInv

LEMMA NextCount ==
  ASSUME Inv, ChangeInv, CountInv, [HNext]_hvars
  PROVE  CountInv'
<1>1. CASE UNCHANGED hvars
  <2>1. \A k \in Keys : Changes(k)' = Changes(k)
    BY <1>1 DEF Changes, hvars, vars, processVars, informerVars
  <2>. QED
    BY <1>1, <2>1 DEF CountInv, CountOK, ToCome, Ahead, hvars, vars, apiVars, historyVars,
       processVars, informerVars, wqVars
<1>2. CASE HNext
  <2>1. HistoryStep
    BY <1>2 DEF HNext
  <2>2. CASE \/ Kubelet \/ WatchCache
             \/ \E w \in Workers : Worker(w) /\ ~ GetItem(w) /\ ~ Exit
    <3>1. /\ UNCHANGED <<up, kylinNodes, cache, notes, waiting, dirty>>
          /\ \A w \in Workers : key'[w] \in {key[w], NoKey}
      BY <2>2 DEF Kubelet, WatchCache, Worker, LocalStep, RemoteStep, ReadLister, Admission,
         PingPanics, GetJoinCommand, Attempt, SaveResetInfo, LookupResetInfo,
         NilDereference, DeleteNodeStep, FinishItem, Done, SetHostnameStep, CopyStep,
         CopyFatal, UnzipStep, InitStep, JoinStep, ResetStep, Remote, Others, apiVars,
         processVars, informerVars, wqVars, workerVars, Inv, TypeOK
    <3>2. ASSUME NEW k \in Keys PROVE CountOK(k)'
      <4>1. Changes(k)' = Changes(k)
        BY <3>1 DEF Changes
      <4>. QED
        BY <2>1, <3>1, <4>1, NoSyncBegins, KeepsCount DEF CountInv
    <3>. QED
      BY <3>1, <3>2 DEF CountInv
  <2>3. CASE Informer
    BY <2>1, <2>3, ObserveCount, ResyncCount, EndBackOffCount, DeliverCount DEF Informer
  <2>4. CASE User \/ Start \/ Exit \/ \E w \in Workers : GetItem(w)
    BY <2>1, <2>4, UserCount, StartCount, ExitCount, GetItemCount
  <2>. QED
    BY <1>2, <2>2, <2>3, <2>4 DEF HNext, Next, Kill, MapRace
<1>. QED
  BY <1>1, <1>2

(* However often the informer repeats what it holds, and whatever is added,*)
(* merged, marked and put back on the way, a process begins no more syncs  *)
(* of a KylinNode than there were writes to it.                            *)
THEOREM OneSyncForAWrite == HSpec => []OneSyncPerWrite
<1>1. Init /\ HistoryInit => CountInv
  BY InitCount
<1>2. Inv /\ ChangeInv /\ CountInv /\ [HNext]_hvars => CountInv'
  BY NextCount
<1>3. CountInv => OneSyncPerWrite
  <2>. SUFFICES ASSUME CountInv, NEW k \in Keys PROVE syncs[k] <= writes[k]
    BY DEF OneSyncPerWrite
  <2>1. CountOK(k) /\ Cardinality(Changes(k)) \in Nat
    BY FS_CardinalityType DEF CountInv, CountOK
  <2>2. ToCome(k) \in Nat
    BY <2>1 DEF ToCome, Count
  <2>. QED
    BY <2>1, <2>2 DEF CountOK
<1>. QED
  BY <1>1, <1>2, <1>3, HistoryIsSpec, SyncCorrect, PTL DEF HSpec
=============================================================================
