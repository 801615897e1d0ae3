---------------------------- MODULE Outcome_proofs ----------------------------
(***************************************************************************)
(* Which machine a worker acts on, and what a successful sync leaves on it *)
(* and in the node list, when neither names nor machines are shared between*)
(* KylinNodes.                                                             *)
(***************************************************************************)
EXTENDS KylinNodeController_proofs

-----------------------------------------------------------------------------
(* Ownership: which machine a worker acts on: the one of the KylinNode it  *)
(* was given, provided that no two KylinNodes have the same name.          *)

(* Every spec the process holds for a key is one its users gave to it.  The*)
(* part about resetNodeInfo is where OneKeyPerName is needed.              *)
OwnInfo ==
    /\ \A k \in Keys : kylinNodes[k] # NoObject => kylinNodes[k].spec \in SpecsOf[k]
    /\ \A k \in Keys : cache[k] # NoObject => cache[k].spec \in SpecsOf[k]
    /\ \A k \in Keys : resetNodeInfo[NameOf[k]] \in SpecsOf[k] \cup {NoSpec}
    /\ \A w \in Workers : pc[w] \in SpecSteps => spec[w] \in SpecsOf[key[w]]

(* From SaveResetInfo or LookupResetInfo on, the map still holds what the  *)
(* worker saved or found.                                                  *)
MapMatches ==
    \A w \in Workers : pc[w] \in RemoteSteps \cup {"deleteNode"} =>
        resetNodeInfo[NameOf[key[w]]] = spec[w]

OwnerInv == OneKeyPerName => OwnInfo /\ MapMatches

-----------------------------------------------------------------------------

LEMMA InitOwnerInv == Init => OwnerInv
BY ControllerAssumption DEF Init, OwnerInv, OwnInfo, MapMatches, Nothing, NoResetInfo,
   SpecSteps, RemoteSteps, InstallSteps

LEMMA UserOwnerInv == Inv /\ OwnerInv /\ User => OwnerInv'
<1>. SUFFICES ASSUME Inv, OwnInfo, MapMatches, User PROVE OwnInfo' /\ MapMatches'
  BY DEF OwnerInv
<1>1. PICK k \in Keys, object \in Objects \cup {NoObject} :
         /\ Write(k, object)
         /\ object # NoObject => object.spec \in SpecsOf[k]
  BY ControllerAssumption DEF User, CreateKylinNode, UpdateKylinNode, DeleteKylinNode,
     Inv, TypeOK, Write, Objects, Versions
<1>2. /\ kylinNodes' = [kylinNodes EXCEPT ![k] = object]
      /\ UNCHANGED <<cache, resetNodeInfo, pc, key, spec>>
  BY <1>1 DEF Write, processVars, informerVars, workerVars
<1>3. \A i \in Keys : kylinNodes'[i] = IF i = k THEN object ELSE kylinNodes[i]
  BY <1>2 DEF Inv, TypeOK
<1>. QED
  BY <1>1, <1>2, <1>3 DEF OwnInfo, MapMatches

LEMMA ExitOwnerInv == Inv /\ OwnerInv /\ Exit => OwnerInv'
BY ControllerAssumption DEF Inv, TypeOK, OwnerInv, OwnInfo, MapMatches, Exit, Nothing,
   NoResetInfo, SpecSteps, RemoteSteps, InstallSteps, apiVars

LEMMA InformerOwnerInv == Inv /\ OwnerInv /\ (Start \/ Informer) => OwnerInv'
<1>. SUFFICES ASSUME Inv, OwnInfo, MapMatches, Start \/ Informer
              PROVE  OwnInfo' /\ MapMatches'
  BY DEF OwnerInv
<1>1. UNCHANGED <<kylinNodes, resetNodeInfo, pc, key, spec>>
  BY DEF Start, Informer, Observe, Resync, Deliver, EndBackOff, apiVars, workerVars
<1>2. \A k \in Keys : cache'[k] = cache[k] \/ cache'[k] = kylinNodes[k]
  BY DEF Start, Informer, Observe, Resync, Deliver, EndBackOff, informerVars, Inv, TypeOK
<1>. QED
  BY <1>1, <1>2 DEF OwnInfo, MapMatches

LEMMA WorkerOwnerInv == \A w \in Workers : Inv /\ OwnerInv /\ Worker(w) => OwnerInv'
<1>. SUFFICES ASSUME NEW w \in Workers, Inv, OneKeyPerName, OwnInfo, MapMatches, Worker(w),
                     ~ Exit
              PROVE  OwnInfo' /\ MapMatches'
  BY ExitOwnerInv DEF OwnerInv
<1>1. UNCHANGED <<kylinNodes, cache>>
  BY DEF Worker, LocalStep, RemoteStep, PingPanics, NilDereference, CopyFatal, GetItem,
     ReadLister, Admission, GetJoinCommand, Attempt, SaveResetInfo, LookupResetInfo,
     FinishItem, DeleteNodeStep, SetHostnameStep, CopyStep, UnzipStep, InitStep,
     JoinStep, ResetStep, Remote, Others, apiVars, informerVars
<1>2. CASE GetItem(w)
  <2>1. /\ pc'[w] = "lister" /\ UNCHANGED <<spec, resetNodeInfo>>
        /\ \A v \in Workers \ {w} : pc'[v] = pc[v] /\ key'[v] = key[v]
    BY <1>2 DEF GetItem, Goto, Inv, TypeOK
  <2>. QED
    BY <1>1, <2>1 DEF OwnInfo, MapMatches, SpecSteps, RemoteSteps, InstallSteps
<1>3. CASE ReadLister(w)
  <2>1. /\ UNCHANGED <<key, resetNodeInfo>>
        /\ pc'[w] = "lookup" \/ (pc'[w] = "admission" /\ spec'[w] \in SpecsOf[key[w]])
        /\ \A v \in Workers \ {w} : pc'[v] = pc[v] /\ spec'[v] = spec[v]
    BY <1>3 DEF ReadLister, At, Goto, Inv, TypeOK, WorkerInv, OwnInfo
  <2>. QED
    BY <1>1, <2>1 DEF OwnInfo, MapMatches, SpecSteps, RemoteSteps, InstallSteps
<1>4. CASE LookupResetInfo(w)
  <2>1. key[w] \in Keys
    BY <1>4 DEF LookupResetInfo, At, Inv, TypeOK, WorkerInv
  <2>2. /\ UNCHANGED <<key, resetNodeInfo>>
        /\ pc'[w] = "reset" /\ spec'[w] = resetNodeInfo[NameOf[key[w]]]
        /\ spec'[w] \in SpecsOf[key[w]]
        /\ \A v \in Workers \ {w} : pc'[v] = pc[v] /\ spec'[v] = spec[v]
    BY <1>4, <2>1 DEF LookupResetInfo, Goto, Inv, TypeOK, OwnInfo
  <2>. QED
    BY <1>1, <2>2 DEF OwnInfo, MapMatches, SpecSteps
<1>5. CASE SaveResetInfo(w)
  <2>1. /\ key[w] \in Keys /\ spec[w] \in SpecsOf[key[w]]
        /\ pc[w] = "save" /\ pc[w] \in SpecSteps
    BY <1>5 DEF SaveResetInfo, At, Inv, TypeOK, WorkerInv, OwnInfo, SpecSteps
  <2>2. /\ UNCHANGED <<key, spec>>
        /\ pc'[w] = "hostname"
        /\ \A v \in Workers \ {w} : pc'[v] = pc[v]
    BY <1>5 DEF SaveResetInfo, Goto, Inv, TypeOK
  <2>3. \A k \in Keys : resetNodeInfo'[NameOf[k]]
                          = IF k = key[w] THEN spec[w] ELSE resetNodeInfo[NameOf[k]]
    BY <1>5, <2>1, ControllerAssumption DEF SaveResetInfo, OneKeyPerName, Inv, TypeOK
  <2>4. OwnInfo'
    BY <1>1, <2>1, <2>2, <2>3 DEF OwnInfo, SpecSteps
  <2>5. ASSUME NEW v \in Workers, pc'[v] \in RemoteSteps \cup {"deleteNode"}
        PROVE  resetNodeInfo'[NameOf[key'[v]]] = spec'[v]
    <3>1. CASE v = w
      BY <2>1, <2>2, <2>3, <3>1
    <3>2. CASE v # w
      <4>1. pc[v] \in RemoteSteps \cup {"deleteNode"}
        BY <2>2, <2>5, <3>2
      <4>2. key[v] \in Keys /\ key[v] # key[w]
        BY <2>1, <3>2, <4>1, ControllerAssumption DEF Inv, TypeOK, WorkerInv,
           NoConcurrentSameKey, RemoteSteps, InstallSteps
      <4>. QED
        BY <2>2, <2>3, <4>1, <4>2 DEF MapMatches
    <3>. QED
      BY <3>1, <3>2
  <2>. QED
    BY <2>4, <2>5 DEF MapMatches
<1>6. CASE FinishItem(w)
  <2>1. /\ UNCHANGED resetNodeInfo
        /\ pc'[w] = "Get"
        /\ \A v \in Workers \ {w} : /\ pc'[v] = pc[v] /\ key'[v] = key[v]
                                    /\ spec'[v] = spec[v]
    BY <1>6 DEF FinishItem, Goto, Inv, TypeOK
  <2>. QED
    BY <1>1, <2>1 DEF OwnInfo, MapMatches, SpecSteps, RemoteSteps, InstallSteps
<1>7. CASE Admission(w) \/ GetJoinCommand(w)
  <2>1. /\ UNCHANGED <<key, spec, resetNodeInfo>>
        /\ pc[w] \in SpecSteps /\ pc'[w] \in {"token", "save", "error"}
        /\ \A v \in Workers \ {w} : pc'[v] = pc[v]
    BY <1>7 DEF Admission, GetJoinCommand, Attempt, At, Goto, SpecSteps, Inv, TypeOK
  <2>. QED
    BY <1>1, <2>1 DEF OwnInfo, MapMatches, SpecSteps, RemoteSteps, InstallSteps
<1>8. CASE \/ DeleteNodeStep(w) \/ SetHostnameStep(w) \/ CopyStep(w) \/ UnzipStep(w)
           \/ InitStep(w) \/ JoinStep(w) \/ ResetStep(w)
  <2>1. /\ UNCHANGED <<key, spec, resetNodeInfo>>
        /\ pc[w] \in RemoteSteps \cup {"deleteNode"}
    BY <1>8 DEF DeleteNodeStep, SetHostnameStep, CopyStep, UnzipStep, InitStep,
       JoinStep, ResetStep, Remote, At, RemoteSteps, InstallSteps
  <2>2. \A v \in Workers \ {w} : pc'[v] = pc[v]
    BY <1>8 DEF DeleteNodeStep, SetHostnameStep, CopyStep, UnzipStep, InitStep,
       JoinStep, ResetStep, Remote, Goto, Inv, TypeOK
  <2>. QED
    BY <1>1, <2>1, <2>2 DEF OwnInfo, MapMatches, SpecSteps
<1>. QED
  BY <1>2, <1>3, <1>4, <1>5, <1>6, <1>7, <1>8
     DEF Worker, LocalStep, RemoteStep, PingPanics, NilDereference, CopyFatal

LEMMA NextOwnerInv == Inv /\ OwnerInv /\ [Next]_vars => OwnerInv'
<1>. SUFFICES ASSUME Inv, OwnerInv, [Next]_vars PROVE OwnerInv'
  OBVIOUS
<1>1. CASE Kubelet \/ WatchCache \/ UNCHANGED vars
  BY <1>1 DEF Kubelet, WatchCache, vars, OwnerInv, OwnInfo, MapMatches, apiVars,
     processVars, informerVars, workerVars
<1>. QED
  BY <1>1, UserOwnerInv, InformerOwnerInv, ExitOwnerInv, WorkerOwnerInv
     DEF Next, Kill, MapRace

LEMMA OwnerCorrect == Spec => [](Inv /\ OwnerInv)
<1>1. Inv /\ OwnerInv /\ [Next]_vars => OwnerInv'
  BY NextOwnerInv
<1>. QED
  BY <1>1, InitOwnerInv, InvCorrect, PTL DEF Spec

-----------------------------------------------------------------------------

(* While a machine is being installed, the map holds exactly what a later  *)
(* reset of that KylinNode needs (controller.go:278).                      *)
THEOREM InstallIsRecorded == Spec => []InstallRecorded
<1>1. OwnerInv => InstallRecorded
  BY DEF OwnerInv, MapMatches, InstallRecorded, RemoteSteps
<1>. QED
  BY <1>1, OwnerCorrect, PTL

(* No two workers run commands on one machine at a time, for any number of *)
(* workers, when names and machines are not shared.                        *)
LEMMA ExclusiveFromOwner == Inv /\ OwnerInv => MachineExclusive
<1>. SUFFICES ASSUME Inv, OneKeyPerName, DisjointMachines, OwnInfo,
                     NEW w1 \in Workers, NEW w2 \in Workers, w1 # w2,
                     pc[w1] \in RemoteSteps, pc[w2] \in RemoteSteps
              PROVE  spec[w1].address # spec[w2].address
  BY DEF OwnerInv, MachineExclusive
<1>1. /\ key[w1] \in Keys /\ key[w2] \in Keys /\ key[w1] # key[w2]
      /\ spec[w1] \in SpecsOf[key[w1]] /\ spec[w2] \in SpecsOf[key[w2]]
  BY ControllerAssumption DEF Inv, TypeOK, WorkerInv, NoConcurrentSameKey, OwnInfo,
     SpecSteps, RemoteSteps, InstallSteps
<1>. QED
  BY <1>1 DEF DisjointMachines

THEOREM MachinesAreExclusive == Spec => []MachineExclusive
<1>1. Inv /\ OwnerInv => MachineExclusive
  BY ExclusiveFromOwner
<1>. QED
  BY <1>1, OwnerCorrect, PTL

(* The map of KylinNodes to reset is keyed by the name without its         *)
(* namespace (controller.go:285): while names are not shared, a reset uses *)
(* a spec of the KylinNode that was deleted, and no other worker replaces  *)
(* it before the Node is deleted.                                          *)
THEOREM ResetsUseOwnInfo == Spec => []ResetUsesOwnInfo
<1>1. OwnerInv => ResetUsesOwnInfo
  BY DEF OwnerInv, OwnInfo, MapMatches, ResetUsesOwnInfo, SpecSteps, RemoteSteps
<1>. QED
  BY <1>1, OwnerCorrect, PTL

-----------------------------------------------------------------------------
(* Outcome                                                                 *)

(* What has been done on a worker's machine by the time it takes a step.   *)
Installed ==
    \A w \in Workers :
        /\ pc[w] \in InstallSteps \ {"hostname"}
              => hostname[spec[w].address] = spec[w].name
        /\ pc[w] \in {"init", "join"} => "zip" \in prepared[spec[w].address]
        /\ pc[w] \in {"init", "join"} => "unzipped" \in prepared[spec[w].address]
        /\ pc[w] = "join" => "inited" \in prepared[spec[w].address]

(* A machine is only ever known under the node name of its one spec.       *)
OneNodeName ==
    \A k \in Keys : \A s \in SpecsOf[k] :
        /\ hostname[s.address] \in {NoName, s.name}
        /\ member[s.address] \in {NoName, s.name}
        /\ \A n \in NodeNames : nodes[n] = s.address => n = s.name

(* Between the reset and the deletion of the Node the machine stays out of *)
(* the cluster.                                                            *)
StaysReset ==
    \A w \in Workers : pc[w] = "deleteNode" => member[spec[w].address] = NoName

OutcomeInv ==
    /\ Disciplined => Installed /\ StaysReset
    /\ Disciplined /\ FixedSpecs => OneNodeName

(* The steps at which Installed or StaysReset says something.              *)
GuardedSteps == {"copy", "unzip", "init", "join", "deleteNode"}

-----------------------------------------------------------------------------

LEMMA InitOutcomeInv == Init => OutcomeInv
<1>. SUFFICES ASSUME Init PROVE OutcomeInv
  OBVIOUS
<1>1. Installed /\ StaysReset
  BY DEF Init, Installed, StaysReset, InstallSteps
<1>2. OneNodeName
  <2>. SUFFICES ASSUME NEW k \in Keys, NEW s \in SpecsOf[k]
                PROVE  /\ hostname[s.address] = NoName
                       /\ member[s.address] = NoName
                       /\ \A n \in NodeNames : nodes[n] # s.address
    BY DEF OneNodeName
  <2>1. s.address \in Addresses
    BY ControllerAssumption DEF Specs
  <2>. QED
    BY <2>1, MachinesAssumption DEF Init, MachinesInit
<1>. QED
  BY <1>1, <1>2 DEF OutcomeInv

(* A step that leaves the machines alone and takes no worker to a guarded  *)
(* step.                                                                   *)
LEMMA QuietStepOutcome ==
  ASSUME Inv, OutcomeInv, UNCHANGED machineVars,
         \A w \in Workers : pc'[w] \in GuardedSteps =>
             pc'[w] = pc[w] /\ spec'[w] = spec[w]
  PROVE  OutcomeInv'
<1>1. Installed => Installed'
  BY DEF Installed, machineVars, GuardedSteps, InstallSteps
<1>2. StaysReset => StaysReset'
  BY DEF StaysReset, machineVars, GuardedSteps
<1>3. OneNodeName => OneNodeName'
  BY DEF OneNodeName, machineVars
<1>. QED
  BY <1>1, <1>2, <1>3 DEF OutcomeInv, Disciplined, OneKeyPerName, DisjointMachines,
     FixedSpecs

(* The machines of two workers that hold a spec are different.             *)
LEMMA DifferentMachines ==
  ASSUME Inv, OwnerInv, Disciplined,
         NEW v \in Workers, NEW w \in Workers, v # w,
         pc[v] \in SpecSteps, pc[w] \in SpecSteps
  PROVE  spec[v].address # spec[w].address
<1>1. /\ key[v] \in Keys /\ key[w] \in Keys /\ key[v] # key[w]
      /\ spec[v] \in SpecsOf[key[v]] /\ spec[w] \in SpecsOf[key[w]]
  BY ControllerAssumption DEF Inv, TypeOK, WorkerInv, NoConcurrentSameKey, OwnerInv,
     Disciplined, OwnInfo, SpecSteps, RemoteSteps, InstallSteps
<1>. QED
  BY <1>1 DEF DisjointMachines, Disciplined

(* The spec a worker holds is the only one with its address.               *)
LEMMA OnlySpecOfAddress ==
  ASSUME Inv, OwnerInv, Disciplined, FixedSpecs,
         NEW w \in Workers, pc[w] \in SpecSteps,
         NEW k \in Keys, NEW s \in SpecsOf[k], s.address = spec[w].address
  PROVE  s = spec[w]
<1>1. key[w] \in Keys /\ spec[w] \in SpecsOf[key[w]]
  BY ControllerAssumption DEF Inv, TypeOK, WorkerInv, OwnerInv, Disciplined, OwnInfo,
     SpecSteps, RemoteSteps, InstallSteps
<1>. QED
  BY <1>1 DEF DisjointMachines, Disciplined, FixedSpecs

LEMMA EnvironmentOutcome == Inv /\ OutcomeInv /\ (Kubelet \/ WatchCache) => OutcomeInv'
<1>. SUFFICES ASSUME Inv, OutcomeInv, Kubelet \/ WatchCache PROVE OutcomeInv'
  OBVIOUS
<1>1. UNCHANGED <<hostname, prepared, member, pc, spec>>
  BY DEF Kubelet, WatchCache, Register, SyncListed, processVars, workerVars
<1>2. Installed => Installed'
  BY <1>1 DEF Installed
<1>3. StaysReset => StaysReset'
  BY <1>1 DEF StaysReset
<1>4. ASSUME OneNodeName PROVE OneNodeName'
  <2>. SUFFICES ASSUME NEW k \in Keys, NEW s \in SpecsOf[k], NEW n \in NodeNames,
                       nodes'[n] = s.address
                PROVE  n = s.name
    BY <1>1, <1>4 DEF OneNodeName
  <2>1. CASE nodes' = nodes
    BY <1>4, <2>1 DEF OneNodeName
  <2>2. CASE nodes' # nodes
    <3>1. PICK a \in Addresses : Register(a)
      BY <2>2 DEF Kubelet, WatchCache, SyncListed
    <3>2. nodes' = [nodes EXCEPT ![member[a]] = a] /\ member[a] # NoName
      BY <3>1 DEF Register
    <3>3. nodes'[n] = IF n = member[a] THEN a ELSE nodes[n]
      BY <3>2 DEF Inv, TypeOK, MachinesTypeOK
    <3>. QED
      BY <1>4, <3>2, <3>3 DEF OneNodeName
  <2>. QED
    BY <2>1, <2>2
<1>. QED
  BY <1>2, <1>3, <1>4 DEF OutcomeInv, Disciplined, OneKeyPerName, DisjointMachines,
     FixedSpecs

-----------------------------------------------------------------------------
(* Remote steps of a worker                                                *)

LEMMA RemoteFrame ==
  ASSUME Inv, NEW w \in Workers, NEW ACTION Effect, NEW next, Remote(w, Effect, next)
  PROVE  /\ UNCHANGED spec
         /\ \A v \in Workers \ {w} : pc'[v] = pc[v]
         /\ \/ pc'[w] = next /\ Effect
            \/ pc'[w] = "error" /\ Effect
            \/ pc'[w] = "error" /\ UNCHANGED machineVars
BY DEF Remote, Goto, Inv, TypeOK

(* A worker that changes at most its own machine disturbs no other worker. *)
LEMMA OwnMachineOnly ==
  ASSUME Inv, OwnerInv, Disciplined, Installed, StaysReset,
         NEW w \in Workers, pc[w] \in SpecSteps,
         UNCHANGED spec,
         \A v \in Workers \ {w} : pc'[v] = pc[v],
         \A a \in Addresses \ {spec[w].address} : /\ hostname'[a] = hostname[a]
                                                  /\ prepared'[a] = prepared[a]
                                                  /\ member'[a] = member[a],
         pc'[w] \in InstallSteps \ {"hostname"}
             => hostname'[spec[w].address] = spec[w].name,
         pc'[w] \in {"init", "join"} => "zip" \in prepared'[spec[w].address],
         pc'[w] \in {"init", "join"} => "unzipped" \in prepared'[spec[w].address],
         pc'[w] = "join" => "inited" \in prepared'[spec[w].address],
         pc'[w] = "deleteNode" => member'[spec[w].address] = NoName
  PROVE  Installed' /\ StaysReset'
<1>1. ASSUME NEW v \in Workers \ {w}, pc[v] \in GuardedSteps
      PROVE  /\ hostname'[spec[v].address] = hostname[spec[v].address]
             /\ prepared'[spec[v].address] = prepared[spec[v].address]
             /\ member'[spec[v].address] = member[spec[v].address]
  <2>1. pc[v] \in SpecSteps
    BY <1>1 DEF GuardedSteps, SpecSteps, RemoteSteps, InstallSteps
  <2>2. spec[v].address \in Addresses \ {spec[w].address}
    BY <2>1, DifferentMachines DEF Inv, WorkerInv, Specs
  <2>. QED
    BY <2>2
<1>2. Installed'
  BY <1>1 DEF Installed, InstallSteps, GuardedSteps
<1>3. StaysReset'
  BY <1>1 DEF StaysReset, GuardedSteps
<1>. QED
  BY <1>2, <1>3

(* The facts about its machine that hold when a worker takes a remote step.*)
LEMMA RemoteOutcome ==
  \A w \in Workers :
    /\ Inv /\ OwnerInv /\ OutcomeInv
    /\ \/ SetHostnameStep(w) \/ CopyStep(w) \/ UnzipStep(w) \/ InitStep(w)
       \/ JoinStep(w) \/ ResetStep(w) \/ DeleteNodeStep(w)
    => OutcomeInv'
<1>. SUFFICES ASSUME NEW w \in Workers, Inv, OwnerInv, OutcomeInv,
                     \/ SetHostnameStep(w) \/ CopyStep(w) \/ UnzipStep(w) \/ InitStep(w)
                     \/ JoinStep(w) \/ ResetStep(w) \/ DeleteNodeStep(w)
              PROVE  OutcomeInv'
  OBVIOUS
<1>. DEFINE a == spec[w].address
            n == spec[w].name
<1>0. pc[w] \in SpecSteps
  BY DEF SetHostnameStep, CopyStep, UnzipStep, InitStep, JoinStep, ResetStep,
     DeleteNodeStep, At, SpecSteps, RemoteSteps, InstallSteps
<1>1. a \in Addresses /\ n \in NodeNames
  BY <1>0 DEF Inv, WorkerInv, Specs
<1>2. CASE SetHostnameStep(w)
  <2>1. /\ pc[w] = "hostname" /\ UNCHANGED <<spec, prepared, member, nodes>>
        /\ \A v \in Workers \ {w} : pc'[v] = pc[v]
        /\ \/ pc'[w] = "copy" /\ hostname' = [hostname EXCEPT ![a] = n]
           \/ pc'[w] = "error" /\ hostname' = [hostname EXCEPT ![a] = n]
           \/ pc'[w] = "error" /\ hostname' = hostname
    BY <1>2, RemoteFrame DEF SetHostnameStep, At, SetHostname, machineVars
  <2>2. /\ \A b \in Addresses \ {a} : hostname'[b] = hostname[b]
        /\ hostname'[a] \in {hostname[a], n}
        /\ pc'[w] = "copy" => hostname'[a] = n
    BY <1>1, <2>1 DEF Inv, TypeOK, MachinesTypeOK
  <2>3. Disciplined => Installed' /\ StaysReset'
    BY <1>0, <2>1, <2>2, OwnMachineOnly DEF OutcomeInv, InstallSteps
  <2>4. ASSUME Disciplined, FixedSpecs PROVE OneNodeName'
    <3>. SUFFICES ASSUME NEW k \in Keys, NEW s \in SpecsOf[k]
                  PROVE  hostname'[s.address] \in {NoName, s.name}
      BY <2>1, <2>4 DEF OutcomeInv, OneNodeName
    <3>1. s.address \in Addresses
      BY ControllerAssumption DEF Specs
    <3>2. s.address = a => s.name = n
      BY <1>0, <2>4, OnlySpecOfAddress
    <3>. QED
      BY <2>2, <2>4, <3>1, <3>2 DEF OutcomeInv, OneNodeName
  <2>. QED
    BY <2>3, <2>4 DEF OutcomeInv, Disciplined, OneKeyPerName, DisjointMachines,
       FixedSpecs
<1>3. CASE CopyStep(w) \/ UnzipStep(w) \/ InitStep(w)
  <2>1. /\ UNCHANGED <<spec, hostname, member, nodes>>
        /\ pc[w] \in {"copy", "unzip", "init"}
        /\ \A v \in Workers \ {w} : pc'[v] = pc[v]
        /\ \/ pc[w] = "copy" /\ pc'[w] \in {"unzip", "error"}
              /\ \E S : prepared' = [prepared EXCEPT ![a] = S]
           \/ pc[w] = "unzip" /\ pc'[w] = "init" /\ "zip" \in prepared[a]
              /\ prepared' = [prepared EXCEPT ![a] = @ \cup {"unzipped"}]
           \/ pc[w] = "init" /\ pc'[w] = "join"
              /\ prepared' = [prepared EXCEPT ![a] = @ \cup {"inited"}]
           \/ pc'[w] = "error"
              /\ \E stage : prepared' = [prepared EXCEPT ![a] = @ \cup {stage}]
           \/ pc'[w] = "error" /\ prepared' = prepared
    BY <1>3, RemoteFrame DEF CopyStep, UnzipStep, InitStep, At, CopyInitNode, SpoilCopy,
       Unzip, RunInit, Prepare, machineVars
  <2>2. \A b \in Addresses \ {a} : prepared'[b] = prepared[b]
    BY <2>1 DEF Inv, TypeOK, MachinesTypeOK
  <2>3. /\ pc'[w] \in {"init", "join"} => prepared[a] \subseteq prepared'[a]
        /\ pc'[w] = "init" => /\ pc[w] = "unzip"
                              /\ {"zip", "unzipped"} \subseteq prepared'[a]
        /\ pc'[w] = "join" => pc[w] = "init" /\ "inited" \in prepared'[a]
        /\ pc'[w] \in {"unzip", "init", "join", "error"}
    BY <1>1, <2>1 DEF Inv, TypeOK, MachinesTypeOK
  <2>4. ASSUME Disciplined PROVE Installed' /\ StaysReset'
    <3>1. Installed /\ StaysReset
      BY <2>4 DEF OutcomeInv
    <3>2. /\ hostname'[a] = n
          /\ pc'[w] \in {"init", "join"} => "zip" \in prepared'[a]
          /\ pc'[w] \in {"init", "join"} => "unzipped" \in prepared'[a]
          /\ pc'[w] = "join" => "inited" \in prepared'[a]
      BY <2>1, <2>3, <3>1 DEF Installed, InstallSteps
    <3>. QED
      BY <1>0, <2>1, <2>2, <2>3, <2>4, <3>1, <3>2, OwnMachineOnly
  <2>5. OneNodeName => OneNodeName'
    BY <2>1 DEF OneNodeName
  <2>. QED
    BY <2>4, <2>5 DEF OutcomeInv, Disciplined, OneKeyPerName, DisjointMachines,
       FixedSpecs
<1>4. CASE JoinStep(w)
  <2>1. /\ UNCHANGED <<spec, hostname, prepared, nodes>>
        /\ pc'[w] \in {"ok", "error"}
        /\ \A v \in Workers \ {w} : pc'[v] = pc[v]
        /\ \/ member' = [member EXCEPT ![a] = hostname[a]]
           \/ member' = member
    BY <1>4, RemoteFrame DEF JoinStep, At, KubeadmJoin, machineVars
  <2>2. /\ \A b \in Addresses \ {a} : member'[b] = member[b]
        /\ member'[a] \in {member[a], hostname[a]}
    BY <1>1, <2>1 DEF Inv, TypeOK, MachinesTypeOK
  <2>3. Disciplined => Installed' /\ StaysReset'
    BY <1>0, <2>1, <2>2, OwnMachineOnly DEF OutcomeInv, InstallSteps
  <2>4. ASSUME Disciplined, FixedSpecs PROVE OneNodeName'
    <3>. SUFFICES ASSUME NEW k \in Keys, NEW s \in SpecsOf[k]
                  PROVE  member'[s.address] \in {NoName, s.name}
      BY <2>1, <2>4 DEF OutcomeInv, OneNodeName
    <3>1. s.address \in Addresses
      BY ControllerAssumption DEF Specs
    <3>. QED
      BY <2>2, <2>4, <3>1 DEF OutcomeInv, OneNodeName
  <2>. QED
    BY <2>3, <2>4 DEF OutcomeInv, Disciplined, OneKeyPerName, DisjointMachines,
       FixedSpecs
<1>5. CASE ResetStep(w)
  <2>1. /\ UNCHANGED <<spec, hostname, prepared, nodes>>
        /\ \A v \in Workers \ {w} : pc'[v] = pc[v]
        /\ \/ pc'[w] \in {"deleteNode", "error"}
              /\ member' = [member EXCEPT ![a] = NoName]
           \/ pc'[w] = "error" /\ member' = member
    BY <1>5, RemoteFrame DEF ResetStep, At, KubeadmReset, machineVars
  <2>2. /\ \A b \in Addresses \ {a} : member'[b] = member[b]
        /\ member'[a] \in {member[a], NoName}
        /\ pc'[w] = "deleteNode" => member'[a] = NoName
        /\ pc'[w] \in {"deleteNode", "error"}
    BY <1>1, <2>1 DEF Inv, TypeOK, MachinesTypeOK
  <2>3. Disciplined => Installed' /\ StaysReset'
    BY <1>0, <2>1, <2>2, OwnMachineOnly DEF OutcomeInv, InstallSteps
  <2>4. ASSUME OneNodeName PROVE OneNodeName'
    <3>. SUFFICES ASSUME NEW k \in Keys, NEW s \in SpecsOf[k]
                  PROVE  member'[s.address] \in {NoName, s.name}
      BY <2>1, <2>4 DEF OneNodeName
    <3>1. s.address \in Addresses
      BY ControllerAssumption DEF Specs
    <3>. QED
      BY <2>2, <2>4, <3>1 DEF OneNodeName
  <2>. QED
    BY <2>3, <2>4 DEF OutcomeInv, Disciplined, OneKeyPerName, DisjointMachines,
       FixedSpecs
<1>6. CASE DeleteNodeStep(w)
  <2>1. /\ UNCHANGED <<spec, hostname, prepared, member>>
        /\ pc'[w] \in {"ok", "error"}
        /\ \A v \in Workers \ {w} : pc'[v] = pc[v]
        /\ \/ \E m : nodes' = [nodes EXCEPT ![m] = NoAddress]
           \/ nodes' = nodes
    BY <1>6, RemoteFrame DEF DeleteNodeStep, At, DeleteNode, machineVars
  <2>2. Disciplined => Installed' /\ StaysReset'
    BY <1>0, <2>1, OwnMachineOnly DEF OutcomeInv, InstallSteps
  <2>3. \A m \in NodeNames : nodes'[m] \in {nodes[m], NoAddress}
    BY <2>1 DEF Inv, TypeOK, MachinesTypeOK
  <2>4. \A k \in Keys : \A s \in SpecsOf[k] : s.address # NoAddress
    BY ControllerAssumption, MachinesAssumption DEF Specs
  <2>5. OneNodeName => OneNodeName'
    BY <2>1, <2>3, <2>4 DEF OneNodeName
  <2>. QED
    BY <2>2, <2>5 DEF OutcomeInv, Disciplined, OneKeyPerName, DisjointMachines,
       FixedSpecs
<1>. QED
  BY <1>2, <1>3, <1>4, <1>5, <1>6

LEMMA LocalOutcome ==
  \A w \in Workers :
    /\ Inv /\ OutcomeInv
    /\ \/ GetItem(w) \/ ReadLister(w) \/ Admission(w) \/ GetJoinCommand(w)
       \/ SaveResetInfo(w) \/ LookupResetInfo(w) \/ FinishItem(w)
    => OutcomeInv'
<1>. SUFFICES ASSUME NEW w \in Workers, Inv, OutcomeInv,
                     \/ GetItem(w) \/ ReadLister(w) \/ Admission(w) \/ GetJoinCommand(w)
                     \/ SaveResetInfo(w) \/ LookupResetInfo(w) \/ FinishItem(w)
              PROVE  OutcomeInv'
  OBVIOUS
<1>1. UNCHANGED machineVars
  BY DEF GetItem, ReadLister, Admission, GetJoinCommand, Attempt, SaveResetInfo,
     LookupResetInfo, FinishItem
<1>2. /\ pc'[w] \notin GuardedSteps
      /\ \A v \in Workers \ {w} : pc'[v] = pc[v] /\ spec'[v] = spec[v]
  BY DEF GetItem, ReadLister, Admission, GetJoinCommand, Attempt, SaveResetInfo,
     LookupResetInfo, FinishItem, Goto, GuardedSteps, Inv, TypeOK
<1>. QED
  BY <1>1, <1>2, QuietStepOutcome

LEMMA ExitOutcome == Inv /\ OutcomeInv /\ Exit => OutcomeInv'
BY QuietStepOutcome DEF Exit, GuardedSteps

LEMMA NextOutcomeInv == Inv /\ OwnerInv /\ OutcomeInv /\ [Next]_vars => OutcomeInv'
<1>. SUFFICES ASSUME Inv, OwnerInv, OutcomeInv, [Next]_vars PROVE OutcomeInv'
  OBVIOUS
<1>1. CASE User \/ Start \/ Informer \/ UNCHANGED vars
  <2>1. UNCHANGED <<machineVars, pc, spec>>
    BY <1>1 DEF User, CreateKylinNode, UpdateKylinNode, DeleteKylinNode, Write, Start,
       Informer, Observe, Resync, Deliver, EndBackOff, vars, processVars, workerVars
  <2>. QED
    BY <2>1, QuietStepOutcome
<1>2. ASSUME NEW w \in Workers, Worker(w) PROVE OutcomeInv'
  BY <1>2, LocalOutcome, RemoteOutcome, ExitOutcome
     DEF Worker, LocalStep, RemoteStep, PingPanics, NilDereference, CopyFatal
<1>. QED
  BY <1>1, <1>2, EnvironmentOutcome, ExitOutcome DEF Next, Kill, MapRace

LEMMA OutcomeCorrect == Spec => [](Inv /\ OwnerInv /\ OutcomeInv)
<1>1. Inv /\ OwnerInv /\ OutcomeInv /\ [Next]_vars => OutcomeInv'
  BY NextOutcomeInv
<1>. QED
  BY <1>1, InitOutcomeInv, OwnerCorrect, PTL DEF Spec

-----------------------------------------------------------------------------

(* Only the step of a worker itself takes it to "ok".                      *)
LEMMA WhoSucceeds ==
  ASSUME Inv, [Next]_vars, NEW w \in Workers, pc'[w] = "ok", pc[w] # "ok"
  PROVE  JoinStep(w) \/ DeleteNodeStep(w)
<1>1. ~ Exit
  BY DEF Exit
<1>2. pc' # pc
  OBVIOUS
<1>3. PICK v \in Workers : Worker(v)
  BY <1>1, <1>2 DEF Next, User, CreateKylinNode, UpdateKylinNode, DeleteKylinNode, Write,
     Kubelet, WatchCache, Start, Kill, Informer, Observe, Resync, Deliver, EndBackOff,
     MapRace, vars, processVars, workerVars
<1>4. \E step \in Steps : Goto(v, step) /\ (step # "ok" \/ JoinStep(v) \/ DeleteNodeStep(v))
  BY <1>1, <1>3 DEF Worker, LocalStep, RemoteStep, PingPanics, NilDereference, CopyFatal,
     GetItem, ReadLister, Admission, GetJoinCommand, Attempt, SaveResetInfo,
     LookupResetInfo, FinishItem, SetHostnameStep, CopyStep, UnzipStep, InitStep,
     JoinStep, ResetStep, DeleteNodeStep, Remote, Steps, RemoteSteps, InstallSteps,
     MapSteps
<1>. QED
  BY <1>4 DEF Goto, Inv, TypeOK

(* A sync that reports success has joined the machine under the name its   *)
(* own KylinNode gives, fully prepared, although other workers install and *)
(* reset other machines meanwhile.                                         *)
THEOREM JoinsAreAsSpecified == Spec => JoinsAsSpecified
<1>1. ASSUME Inv, OutcomeInv, [Next]_vars, Disciplined, NEW w \in Workers,
             pc[w] = "join", pc'[w] = "ok"
      PROVE  /\ member'[spec[w].address] = spec[w].name
             /\ prepared'[spec[w].address] = Stages
  <2>1. JoinStep(w)
    BY <1>1, WhoSucceeds DEF DeleteNodeStep, At
  <2>2. KubeadmJoin(spec[w].address)
    BY <1>1, <2>1, RemoteFrame DEF JoinStep
  <2>3. spec[w].address \in Addresses
    BY <1>1 DEF Inv, WorkerInv, Specs, SpecSteps, RemoteSteps, InstallSteps
  <2>4. /\ hostname[spec[w].address] = spec[w].name
        /\ Stages \subseteq prepared[spec[w].address]
    BY <1>1 DEF OutcomeInv, Installed, InstallSteps, Stages
  <2>. QED
    BY <1>1, <2>2, <2>3, <2>4 DEF KubeadmJoin, Inv, TypeOK, MachinesTypeOK
<1>2. Inv /\ OwnerInv /\ OutcomeInv /\ [Next]_vars =>
        [Disciplined =>
           \A w \in Workers :
             pc[w] = "join" /\ pc'[w] = "ok" =>
               /\ member'[spec[w].address] = spec[w].name
               /\ prepared'[spec[w].address] = Stages]_vars
  BY <1>1
<1>. QED
  BY <1>2, OutcomeCorrect, PTL DEF Spec, JoinsAsSpecified, Disciplined

(* A successful sync of a deleted KylinNode leaves neither membership nor  *)
(* a Node with the address of its machine, provided the spec did not change*)
(* during the life of the KylinNode.                                       *)
THEOREM DeletesAreClean == Spec => CleanDelete
<1>1. ASSUME Inv, OwnerInv, OutcomeInv, [Next]_vars, Disciplined, FixedSpecs,
             NEW w \in Workers, pc[w] = "deleteNode", pc'[w] = "ok"
      PROVE  /\ member'[spec[w].address] = NoName
             /\ \A n \in NodeNames : nodes'[n] # spec[w].address
  <2>1. DeleteNodeStep(w)
    BY <1>1, WhoSucceeds DEF JoinStep, At
  <2>2. resetNodeInfo[NameOf[key[w]]] = spec[w]
    BY <1>1 DEF OwnerInv, Disciplined, MapMatches
  <2>3. DeleteNode(spec[w].name)
    BY <1>1, <2>1, <2>2, RemoteFrame DEF DeleteNodeStep
  <2>4. /\ key[w] \in Keys /\ spec[w] \in SpecsOf[key[w]]
        /\ spec[w].address \in Addresses
    BY <1>1, ControllerAssumption DEF Inv, TypeOK, WorkerInv, OwnerInv, Disciplined,
       OwnInfo, SpecSteps, Specs
  <2>5. /\ member[spec[w].address] = NoName
        /\ \A n \in NodeNames : nodes[n] = spec[w].address => n = spec[w].name
    BY <1>1, <2>4 DEF OutcomeInv, StaysReset, OneNodeName
  <2>. QED
    BY <1>1, <2>3, <2>4, <2>5, MachinesAssumption
       DEF DeleteNode, Inv, TypeOK, MachinesTypeOK
<1>2. Inv /\ OwnerInv /\ OutcomeInv /\ [Next]_vars =>
        [Disciplined /\ FixedSpecs =>
           \A w \in Workers :
             pc[w] = "deleteNode" /\ pc'[w] = "ok" =>
               /\ member'[spec[w].address] = NoName
               /\ \A n \in NodeNames : nodes'[n] # spec[w].address]_vars
  BY <1>1
<1>. QED
  BY <1>2, OutcomeCorrect, PTL DEF Spec, CleanDelete, Disciplined
=============================================================================
