------------------------- MODULE KylinNodeController -------------------------
(***************************************************************************)
(* The controller of controller.go: an informer feeds the keys of changed  *)
(* KylinNodes to the work queue, and each worker takes a key and either    *)
(* joins the machine of the KylinNode to the cluster or, when the KylinNode*)
(* is gone, resets the machine that the map resetNodeInfo remembers.       *)
(*                                                                         *)
(* The users of the API server, the machines and the process interleave    *)
(* freely; the process may die at any point and is started again by its    *)
(* Deployment.  A remote command may succeed, fail, take effect although   *)
(* its caller sees a failure, or never return.                             *)
(***************************************************************************)
EXTENDS WorkQueue, Machines

CONSTANTS
    Names,                \* values of ObjectMeta.Name of a KylinNode
    NameOf,               \* the name part of a "namespace/name" key
    SpecsOf,              \* the specs its users may give to a KylinNode
    BadAddresses,         \* addresses that may fail to resolve
    Workers,              \* the goroutines that run runWorker
    MaxWrites,            \* bound on writes to KylinNodes
    NoKey, NoObject, NoSpec

Specs == [name : NodeNames, address : Addresses]

ASSUME ControllerAssumption ==
    /\ NameOf \in [Keys -> Names]
    /\ SpecsOf \in [Keys -> SUBSET Specs]
    /\ BadAddresses \subseteq Addresses
    /\ MaxWrites \in Nat
    /\ NoKey \notin Keys
    /\ NoObject \notin [spec : Specs, version : 1..MaxWrites]
    /\ NoSpec \notin Specs

VARIABLES
    kylinNodes,           \* the KylinNodes in the API server
    revision,             \* its last ResourceVersion
    up,                   \* the process runs
    cache,                \* the informer's store, which the lister reads
    notes,                \* informer notifications not yet delivered
    resetNodeInfo,        \* the package-level map of controller.go
    pc, key, spec,        \* where each worker is, its key, the spec it uses
    seen                  \* history: the version of k that a sync read last

apiVars == <<kylinNodes, revision>>
informerVars == <<cache, notes>>
workerVars == <<pc, key, spec>>
processVars == <<up, informerVars, wqVars, resetNodeInfo, workerVars, seen>>
vars == <<apiVars, machineVars, processVars>>

Versions == 1..MaxWrites
Objects == [spec : Specs, version : Versions]

(* The version of an object, 0 when there is none.                         *)
VersionOf(object) == IF object = NoObject THEN 0 ELSE object.version

(* Where a worker is inside processNextWorkItem and syncHandler.           *)
InstallSteps == {"hostname", "copy", "unzip", "init", "join"}
RemoteSteps == InstallSteps \cup {"reset"}
MapSteps == {"save", "lookup", "deleteNode"}
Steps == {"Get", "lister", "admission", "token", "ok", "error"}
            \cup RemoteSteps \cup MapSteps

Notes == [key : Keys, old : Objects \cup {NoObject}, new : Objects \cup {NoObject}]

TypeOK ==
    /\ WQTypeOK
    /\ MachinesTypeOK
    /\ kylinNodes \in [Keys -> Objects \cup {NoObject}]
    /\ revision \in 0..MaxWrites
    /\ up \in BOOLEAN
    /\ cache \in [Keys -> Objects \cup {NoObject}]
    /\ notes \subseteq Notes
    /\ resetNodeInfo \in [Names -> Specs \cup {NoSpec}]
    /\ pc \in [Workers -> Steps]
    /\ key \in [Workers -> Keys \cup {NoKey}]
    /\ spec \in [Workers -> Specs \cup {NoSpec}]
    /\ seen \in [Keys -> 0..MaxWrites]

-----------------------------------------------------------------------------
(* Initial states                                                          *)

Nothing == [k \in Keys |-> NoObject]

NoResetInfo == [n \in Names |-> NoSpec]

(* No process runs yet, and none has any memory.                           *)
Init ==
    /\ kylinNodes = Nothing
    /\ revision = 0
    /\ MachinesInit
    /\ up = FALSE
    /\ cache = Nothing
    /\ notes = {}
    /\ WQInit
    /\ resetNodeInfo = NoResetInfo
    /\ pc = [w \in Workers |-> "Get"]
    /\ key = [w \in Workers |-> NoKey]
    /\ spec = [w \in Workers |-> NoSpec]
    /\ seen = [k \in Keys |-> 0]

-----------------------------------------------------------------------------
(* Users of the API server                                                 *)

Write(k, object) ==
    /\ revision < MaxWrites
    /\ revision' = revision + 1
    /\ kylinNodes' = [kylinNodes EXCEPT ![k] = object]
    /\ UNCHANGED <<machineVars, processVars>>

CreateKylinNode(k) ==
    /\ kylinNodes[k] = NoObject
    /\ \E s \in SpecsOf[k] : Write(k, [spec |-> s, version |-> revision + 1])

UpdateKylinNode(k) ==
    /\ kylinNodes[k] # NoObject
    /\ \E s \in SpecsOf[k] : Write(k, [spec |-> s, version |-> revision + 1])

DeleteKylinNode(k) ==
    /\ kylinNodes[k] # NoObject
    /\ Write(k, NoObject)

-----------------------------------------------------------------------------
(* The process as a whole                                                  *)

(* The process ends, and with it all of its memory: the store, the queue,  *)
(* the workers and resetNodeInfo.  What it did to the machines stays.      *)
Exit ==
    /\ up
    /\ up' = FALSE
    /\ cache' = Nothing
    /\ notes' = {}
    /\ waiting' = {} /\ queue' = <<>> /\ dirty' = {} /\ processing' = {}
    /\ resetNodeInfo' = NoResetInfo
    /\ pc' = [w \in Workers |-> "Get"]
    /\ key' = [w \in Workers |-> NoKey]
    /\ spec' = [w \in Workers |-> NoSpec]
    /\ seen' = [k \in Keys |-> 0]
    /\ UNCHANGED <<apiVars, machineVars>>

(* SIGTERM, eviction, a failing host: at any point of any worker.          *)
Kill == Exit

(* main and Run up to the start of the workers: WaitForCacheSync returned, *)
(* the store holds the first list, its AddFunc calls are still to come.    *)
Start ==
    /\ ~up
    /\ up' = TRUE
    /\ cache' = kylinNodes
    /\ notes' = {[key |-> k, old |-> NoObject, new |-> kylinNodes[k]] :
                    k \in {i \in Keys : kylinNodes[i] # NoObject}}
    /\ UNCHANGED <<apiVars, machineVars, wqVars, resetNodeInfo, workerVars, seen>>

-----------------------------------------------------------------------------
(* The informer and the event handlers of NewController                    *)

(* The reflector brings the store up to date with k.  A relist may skip    *)
(* versions, even a deletion.                                              *)
Observe(k) ==
    /\ up
    /\ cache[k] # kylinNodes[k]
    /\ cache' = [cache EXCEPT ![k] = kylinNodes[k]]
    /\ notes' = notes \cup {[key |-> k, old |-> cache[k], new |-> kylinNodes[k]]}
    /\ UNCHANGED <<apiVars, machineVars, up, wqVars, resetNodeInfo, workerVars, seen>>

(* Every 30 seconds the informer repeats an update for what it holds.      *)
Resync(k) ==
    /\ up
    /\ cache[k] # NoObject
    /\ notes' = notes \cup {[key |-> k, old |-> cache[k], new |-> cache[k]]}
    /\ UNCHANGED <<apiVars, machineVars, up, cache, wqVars, resetNodeInfo,
                   workerVars, seen>>

(* Mutant of UpdateFunc: no comparison.                                    *)
UpdateFunc_Always(note) == AddRateLimited(note.key)

(* Mutant of UpdateFunc: compares the specs and not the versions.          *)
UpdateFunc_BySpec(note) ==
    IF note.old.spec = note.new.spec
    THEN UNCHANGED wqVars
    ELSE AddRateLimited(note.key)

(* UpdateFunc: a resync is told by its equal ResourceVersions.             *)
UpdateFunc(note) ==
    IF note.old.version = note.new.version
    THEN UNCHANGED wqVars
    ELSE AddRateLimited(note.key)

(* AddFunc and DeleteFunc enqueue without a condition.                     *)
Deliver(note) ==
    /\ up
    /\ note \in notes
    /\ notes' = notes \ {note}
    /\ IF NoObject \in {note.old, note.new}
       THEN AddRateLimited(note.key)
       ELSE UpdateFunc(note)
    /\ UNCHANGED <<apiVars, machineVars, up, cache, resetNodeInfo, workerVars, seen>>

EndBackOff(k) ==
    /\ up
    /\ Expire(k)
    /\ UNCHANGED <<apiVars, machineVars, up, informerVars, resetNodeInfo,
                   workerVars, seen>>

-----------------------------------------------------------------------------
(* The workers: processNextWorkItem and syncHandler                        *)

At(w, step) ==
    /\ up
    /\ pc[w] = step

Goto(w, step) == pc' = [pc EXCEPT ![w] = step]

(* What no step of a worker changes.                                       *)
Others == <<apiVars, up, informerVars>>

(* Mutant of GetItem: Done is called before the sync and not deferred.     *)
GetItem_DoneEarly(w) ==
    /\ At(w, "Get")
    /\ queue # <<>>
    /\ queue' = Tail(queue)
    /\ dirty' = dirty \ {Head(queue)}
    /\ key' = [key EXCEPT ![w] = Head(queue)]
    /\ Goto(w, "lister")
    /\ UNCHANGED <<Others, machineVars, waiting, processing, resetNodeInfo, spec, seen>>

(* Mutant of GetItem: one lock around all syncs.                           *)
GetItem_OneAtATime(w) ==
    /\ processing = {}
    /\ At(w, "Get")
    /\ Get
    /\ key' = [key EXCEPT ![w] = Head(queue)]
    /\ Goto(w, "lister")
    /\ UNCHANGED <<Others, machineVars, resetNodeInfo, spec, seen>>

(* The blocking call of processNextWorkItem.                               *)
GetItem(w) ==
    /\ At(w, "Get")
    /\ Get
    /\ key' = [key EXCEPT ![w] = Head(queue)]
    /\ Goto(w, "lister")
    /\ UNCHANGED <<Others, machineVars, resetNodeInfo, spec, seen>>

(* Mutant of ReadLister: keeps the object where its Spec is meant.         *)
ReadLister_WholeObject(w) ==
    LET k == key[w] IN
    /\ At(w, "lister")
    /\ seen' = [seen EXCEPT ![k] = VersionOf(cache[k])]
    /\ spec' = [spec EXCEPT ![w] = cache[k]]
    /\ Goto(w, IF cache[k] = NoObject THEN "lookup" ELSE "admission")
    /\ UNCHANGED <<Others, machineVars, wqVars, resetNodeInfo, key>>

(* The lister reads the store: install the KylinNode it finds, reset when  *)
(* it finds none.                                                          *)
ReadLister(w) ==
    LET k == key[w] IN
    /\ At(w, "lister")
    /\ seen' = [seen EXCEPT ![k] = VersionOf(cache[k])]
    /\ \/ /\ cache[k] = NoObject
          /\ Goto(w, "lookup")
          /\ UNCHANGED spec
       \/ /\ cache[k] # NoObject
          /\ spec' = [spec EXCEPT ![w] = cache[k].spec]
          /\ Goto(w, "admission")
    /\ UNCHANGED <<Others, machineVars, wqVars, resetNodeInfo, key>>

(* A call that may fail without leaving a trace in this model.             *)
Attempt(w, step) ==
    /\ Goto(w, step) \/ Goto(w, "error")
    /\ UNCHANGED <<Others, machineVars, wqVars, resetNodeInfo, key, spec, seen>>

(* admission: does a listed Node have the name or the address of s?        *)
InCluster(s) ==
    \E n \in NodeNames : /\ listed[n] # NoAddress
                         /\ n = s.name \/ listed[n] = s.address

(* getNodeInfo and admission, with the ping of an address that resolves.   *)
Admission(w) ==
    /\ At(w, "admission")
    /\ Attempt(w, IF InCluster(spec[w]) THEN "error" ELSE "token")

(* AddrAccessible panics on an address that does not resolve; the worker   *)
(* goroutine recovers from no panic, so the process ends.                  *)
PingPanics(w) ==
    /\ At(w, "admission")
    /\ ~ InCluster(spec[w])
    /\ spec[w].address \in BadAddresses
    /\ Exit

(* getJoinNodeCommand: a token, the admin kubeconfig and the CA's pin.     *)
GetJoinCommand(w) ==
    /\ At(w, "token")
    /\ Attempt(w, "save")

(* Mutant of SaveResetInfo: an entry that exists is kept.                  *)
SaveResetInfo_Once(w) ==
    /\ At(w, "save")
    /\ resetNodeInfo' = [resetNodeInfo EXCEPT ![NameOf[key[w]]] =
                             IF @ = NoSpec THEN spec[w] ELSE @]
    /\ Goto(w, "hostname")
    /\ UNCHANGED <<Others, machineVars, wqVars, key, spec, seen>>

(* Mutant of SaveResetInfo: one variable where there is a map.             *)
SaveResetInfo_OneForAll(w) ==
    /\ At(w, "save")
    /\ resetNodeInfo' = [n \in Names |-> spec[w]]
    /\ Goto(w, "hostname")
    /\ UNCHANGED <<Others, machineVars, wqVars, key, spec, seen>>

(* resetNodeInfo[name] = spec, before the first command is sent.           *)
SaveResetInfo(w) ==
    /\ At(w, "save")
    /\ resetNodeInfo' = [resetNodeInfo EXCEPT ![NameOf[key[w]]] = spec[w]]
    /\ Goto(w, "hostname")
    /\ UNCHANGED <<Others, machineVars, wqVars, key, spec, seen>>

(* The three ways in which a remote command ends, when it ends: it ran and *)
(* the caller knows, it ran and the caller sees an error (the connection   *)
(* broke, or a last part of it failed), it did not run.                    *)
Remote(w, Effect, next) ==
    /\ \/ Effect /\ Goto(w, next)
       \/ Effect /\ Goto(w, "error")
       \/ UNCHANGED machineVars /\ Goto(w, "error")
    /\ UNCHANGED <<Others, wqVars, resetNodeInfo, key, spec, seen>>

SetHostnameStep(w) ==
    /\ At(w, "hostname")
    /\ Remote(w, SetHostname(spec[w].address, spec[w].name), "copy")

(* CopyFileBySftp ignores the errors of Read and Write, so that it may     *)
(* report success and leave a spoilt file.                                 *)
CopyStep(w) ==
    /\ At(w, "copy")
    /\ \/ Remote(w, CopyInitNode(spec[w].address), "unzip")
       \/ Remote(w, SpoilCopy(spec[w].address), "unzip")

(* It ends the process when it cannot open init_node.zip on its own host.  *)
CopyFatal(w) ==
    /\ At(w, "copy")
    /\ Exit

UnzipStep(w) ==
    /\ At(w, "unzip")
    /\ Remote(w, Unzip(spec[w].address), "init")

(* Mutant of InitStep: the error of init.sh is not returned.               *)
InitStep_IgnoresError(w) ==
    /\ At(w, "init")
    /\ RunInit(spec[w].address) \/ UNCHANGED machineVars
    /\ Goto(w, "join")
    /\ UNCHANGED <<Others, wqVars, resetNodeInfo, key, spec, seen>>

InitStep(w) ==
    /\ At(w, "init")
    /\ Remote(w, RunInit(spec[w].address), "join")

JoinStep(w) ==
    /\ At(w, "join")
    /\ Remote(w, KubeadmJoin(spec[w].address), "ok")

(* The NotFound branch reads resetNodeInfo[name] into user, pass and addr. *)
LookupResetInfo(w) ==
    LET saved == resetNodeInfo[NameOf[key[w]]] IN
    /\ At(w, "lookup")
    /\ saved # NoSpec
    /\ spec' = [spec EXCEPT ![w] = saved]
    /\ Goto(w, "reset")
    /\ UNCHANGED <<Others, machineVars, wqVars, resetNodeInfo, key, seen>>

(* A name that was never saved by this process gives a nil pointer.        *)
NilDereference(w) ==
    /\ At(w, "lookup")
    /\ resetNodeInfo[NameOf[key[w]]] = NoSpec
    /\ Exit

(* Mutant of ResetStep: the Node is deleted after a failed reset as well.  *)
ResetStep_IgnoresError(w) ==
    /\ At(w, "reset")
    /\ KubeadmReset(spec[w].address) \/ UNCHANGED machineVars
    /\ Goto(w, "deleteNode")
    /\ UNCHANGED <<Others, wqVars, resetNodeInfo, key, spec, seen>>

ResetStep(w) ==
    /\ At(w, "reset")
    /\ Remote(w, KubeadmReset(spec[w].address), "deleteNode")

(* Nodes().Delete, of the name that the map holds by now.                  *)
DeleteNodeStep(w) ==
    /\ At(w, "deleteNode")
    /\ Remote(w, DeleteNode(resetNodeInfo[NameOf[key[w]]].name), "ok")

(* One worker writes the map while another reads or writes it: the Go      *)
(* runtime may end the process, and otherwise the two happen in some order.*)
MapRace(w1, w2) ==
    /\ w1 # w2
    /\ At(w1, "save")
    /\ pc[w2] \in MapSteps
    /\ Exit

(* The deferred Done; a failed key is neither forgotten nor added again.   *)
FinishItem(w) ==
    /\ up
    /\ pc[w] \in {"ok", "error"}
    /\ Done(key[w])
    /\ key' = [key EXCEPT ![w] = NoKey]
    /\ spec' = [spec EXCEPT ![w] = NoSpec]
    /\ Goto(w, "Get")
    /\ UNCHANGED <<Others, machineVars, resetNodeInfo, seen>>

-----------------------------------------------------------------------------
(* The specification                                                       *)

User == \E k \in Keys : \/ CreateKylinNode(k)
                        \/ UpdateKylinNode(k)
                        \/ DeleteKylinNode(k)

Kubelet == /\ \E a \in Addresses : Register(a)
           /\ UNCHANGED <<apiVars, processVars>>

WatchCache == SyncListed /\ UNCHANGED <<apiVars, processVars>>

Informer == \/ \E k \in Keys : Observe(k) \/ Resync(k) \/ EndBackOff(k)
            \/ \E note \in notes : Deliver(note)

(* The steps of a worker that wait for nothing.                            *)
LocalStep(w) ==
    \/ ReadLister(w)
    \/ Admission(w)
    \/ PingPanics(w)
    \/ GetJoinCommand(w)
    \/ SaveResetInfo(w)
    \/ LookupResetInfo(w)
    \/ NilDereference(w)
    \/ DeleteNodeStep(w)
    \/ FinishItem(w)

(* The steps of a worker that wait for a remote machine.                   *)
RemoteStep(w) ==
    \/ SetHostnameStep(w)
    \/ CopyStep(w)
    \/ CopyFatal(w)
    \/ UnzipStep(w)
    \/ InitStep(w)
    \/ JoinStep(w)
    \/ ResetStep(w)

Worker(w) == GetItem(w) \/ LocalStep(w) \/ RemoteStep(w)

Next ==
    \/ User
    \/ Kubelet
    \/ WatchCache
    \/ Start
    \/ Kill
    \/ Informer
    \/ \E w \in Workers : Worker(w)
    \/ \E w1, w2 \in Workers : MapRace(w1, w2)

Spec == Init /\ [][Next]_vars

(* Fairness of the process and of what serves it, none of its users:       *)
(*   - the Deployment starts the process again,                            *)
(*   - the reflector keeps watching, and the listener's list of pending    *)
(*     notifications is first in, first out, so that none waits forever,   *)
(*   - a back-off ends,                                                    *)
(*   - a goroutine that can run does.                                      *)
(* No fairness for remote commands: neither session.Run nor the sftp copy  *)
(* has a timeout.  Properties that need them to return say so.             *)
DeliverChange(k) ==
    \E note \in notes : /\ note.key = k
                        /\ note.old # note.new
                        /\ Deliver(note)

Fairness ==
    /\ WF_vars(Start)
    /\ \A k \in Keys : /\ WF_vars(Observe(k))
                       /\ WF_vars(DeliverChange(k))
                       /\ WF_vars(EndBackOff(k))
    /\ \A w \in Workers : /\ WF_vars(GetItem(w))
                          /\ WF_vars(LocalStep(w))

FairSpec == Spec /\ Fairness

-----------------------------------------------------------------------------
(* What the users may be disciplined about; constant-level, used as the    *)
(* premise of what does not hold without it.                               *)

(* No two KylinNodes have the same ObjectMeta.Name (in two namespaces).    *)
OneKeyPerName ==
    \A i, j \in Keys : NameOf[i] = NameOf[j] => i = j

(* No two KylinNodes are ever given the same machine or node name.         *)
DisjointMachines ==
    \A i, j \in Keys : i # j =>
        \A s \in SpecsOf[i], t \in SpecsOf[j] : /\ s.address # t.address
                                                /\ s.name # t.name

Disciplined == OneKeyPerName /\ DisjointMachines

(* The spec of a KylinNode is not changed.                                 *)
FixedSpecs ==
    \A k \in Keys : \A s, t \in SpecsOf[k] : s = t

-----------------------------------------------------------------------------
(* Safety                                                                  *)

(* Two workers never process the same KylinNode at the same time, however  *)
(* often it changes while one of them works on it: the promise of the      *)
(* comment on Controller.workqueue.                                        *)
NoConcurrentSameKey ==
    \A w1, w2 \in Workers :
        w1 # w2 /\ key[w1] # NoKey => key[w1] # key[w2]

(* A sync of k is still to come: it is announced, backing off, queued, or  *)
(* marked to be queued again by Done, or a worker has taken k and not read *)
(* the lister yet.                                                         *)
Pending(k) ==
    \/ \E note \in notes : note.key = k /\ note.old # note.new
    \/ k \in waiting \cup Range(queue) \cup (dirty \cap processing)
    \/ \E w \in Workers : key[w] = k /\ pc[w] = "lister"

(* No change is lost: a version (or an absence) of a KylinNode that the    *)
(* store holds and no sync of this process has read still has a sync to    *)
(* come, in whatever order notifications, back-offs and syncs interleave.  *)
NoChangeLost ==
    \A k \in Keys : up /\ seen[k] # VersionOf(cache[k]) => Pending(k)

(* From the first command of an installation on, a reset of that KylinNode *)
(* would find the machine being installed: the map holds exactly the spec  *)
(* that is installed, and no worker for another key overwrites it.         *)
InstallRecorded ==
    OneKeyPerName =>
        \A w \in Workers :
            pc[w] \in InstallSteps => resetNodeInfo[NameOf[key[w]]] = spec[w]

(* Two workers never run commands on the same machine at the same time.    *)
(* One installs what the lister gave it, the other may reset what the map  *)
(* gave it, so this rests on what the map can hold.                        *)
MachineExclusive ==
    OneKeyPerName /\ DisjointMachines =>
        \A w1, w2 \in Workers :
            w1 # w2 /\ pc[w1] \in RemoteSteps /\ pc[w2] \in RemoteSteps
                => spec[w1].address # spec[w2].address

(* controller.go:278, "save the node information and use when reset the    *)
(* node": what a reset uses is the information of the KylinNode that was   *)
(* deleted, and nobody has replaced it while the reset runs.  The map is   *)
(* keyed by the name without its namespace, so this needs names that are   *)
(* not shared.                                                             *)
ResetUsesOwnInfo ==
    OneKeyPerName =>
        \A w \in Workers :
            pc[w] \in {"reset", "deleteNode"} =>
                /\ spec[w] \in SpecsOf[key[w]]
                /\ resetNodeInfo[NameOf[key[w]]] = spec[w]

(* A successful sync of a new KylinNode leaves its machine joined under the*)
(* name of its own spec, with every stage of the preparation done.         *)
JoinsAsSpecified ==
    [][OneKeyPerName /\ DisjointMachines =>
          \A w \in Workers :
              pc[w] = "join" /\ pc'[w] = "ok" =>
                  /\ member'[spec[w].address] = spec[w].name
                  /\ prepared'[spec[w].address] = Stages]_vars

(* A successful sync of a deleted KylinNode leaves nothing behind: its     *)
(* machine is no member and no Node object has its address, although the   *)
(* kubelet may register late and earlier syncs may have failed half way.   *)
CleanDelete ==
    [][OneKeyPerName /\ DisjointMachines /\ FixedSpecs =>
          \A w \in Workers :
              pc[w] = "deleteNode" /\ pc'[w] = "ok" =>
                  /\ member'[spec[w].address] = NoName
                  /\ \A n \in NodeNames : nodes'[n] # spec[w].address]_vars

-----------------------------------------------------------------------------
(* Liveness, under FairSpec                                                *)

StaysUp == <>[]up
ReturnsAgainAndAgain(w) == []<>(pc[w] \notin RemoteSteps)

Quiet == queue = <<>> /\ waiting = {} /\ \A w \in Workers : pc[w] = "Get"

(* When the users stop writing and commands return, the controller comes   *)
(* to rest, although the informer repeats every object every 30 seconds.   *)
EventuallyQuiet ==
    StaysUp /\ (\A w \in Workers : ReturnsAgainAndAgain(w)) => <>[]Quiet

(* The last version of a KylinNode, its absence included, is read by a sync*)
(* even when commands hang and block some workers, as long as one worker   *)
(* is left that comes back and no command of that KylinNode itself hangs.  *)
HungWorkerIsolated ==
    \A k \in Keys :
        StaysUp /\ (\E w \in Workers : ReturnsAgainAndAgain(w))
                /\ []<>(k \notin processing)
            => <>[](seen[k] = VersionOf(kylinNodes[k]))

OutOfCluster(k) == \A s \in SpecsOf[k] : member[s.address] = NoName

(* A KylinNode that is deleted for good is out of the cluster in the end,  *)
(* however its installations fail, when it is deleted in the middle of one *)
(* or before one was seen: as long as commands return, no sync that found  *)
(* it deleted (seen[k] = 0) ends in an error, be it that of the reset or   *)
(* that of Nodes().Delete, and the process does not die while its machine  *)
(* is a member.                                                            *)
DeletedLeaves ==
    OneKeyPerName /\ DisjointMachines /\ FixedSpecs =>
        \A k \in Keys :
            /\ \A w \in Workers : ReturnsAgainAndAgain(w)
            /\ [](/\ up \/ OutOfCluster(k)
                  /\ \A w \in Workers :
                        key[w] = k /\ pc[w] = "error" => seen[k] # 0)
            /\ <>[](kylinNodes[k] = NoObject)
            => <>[]OutOfCluster(k)

-----------------------------------------------------------------------------
(* What comments of the source say and the code does not do                *)

(* controller.go:176: "if a transient error occurs, instead the item is    *)
(* put back on the workqueue": a failed sync leaves its key to be retried. *)
ErrorRequeues ==
    [][\A w \in Workers :
          pc[w] = "error" /\ pc'[w] = "Get" /\ up' =>
              key[w] \in waiting' \cup Range(queue')]_vars

(* controller.go:278: "Save the node information and use when reset the    *)
(* node": a reset finds node information that was saved.                   *)
ResetHasSavedInfo ==
    \A w \in Workers :
        pc[w] = "lookup" => resetNodeInfo[NameOf[key[w]]] # NoSpec

=============================================================================
