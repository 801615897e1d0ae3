# Verification of kylin-node-controller

TLA+ modules, TLC configurations and TLAPS proofs kept beside the Go sources
of kylin-node-controller. The program watches `KylinNode` objects; when one
appears it prepares a machine over ssh and joins it to the Kubernetes cluster
with `kubeadm join`, and when one disappears it runs `kubeadm reset -f` on the
machine and deletes its Node.

Line numbers refer to `src/`; `PROJECT.json` maps every definition to the
lines it stands for.

## 1. The system

| Component | Source | State | Operations | Modelled |
|---|---|---|---|---|
| Informer and its handlers | `controller.go:106-119`, `main.go:44-49` | store of KylinNodes, undelivered notifications | list and watch, resync every 30 s, AddFunc, UpdateFunc, DeleteFunc | `KylinNodeController`: `Start`, `Observe`, `Resync`, `Deliver` |
| Work queue (client-go) | used at `controller.go:98, 165, 179, 311, 325` | back-offs, FIFO, dirty and processing sets | AddRateLimited, Get, Done, Forget | `WorkQueue` |
| Workers | `controller.go:157-299` | a key and a spec per goroutine | processNextWorkItem, syncHandler | `GetItem` ... `FinishItem` |
| `resetNodeInfo` | `controller.go:45, 237-249, 285` | map from name to spec, in memory, shared by the workers | saved before an installation, read by a reset | `SaveResetInfo`, `LookupResetInfo`, `NilDereference`, `DeleteNodeStep`, `MapRace` |
| Admission | `controller.go:328-371`, `ping.go` | none; reads the node list and pings | accept, refuse, panic | `Admission`, `PingPanics` |
| Remote execution | `ssh-command.go`, `sftp-command.go` | none in the process; changes the machines | set-hostname, copy, unzip, init.sh, join, reset | `Remote`, the `...Step` actions, `CopyFatal` |
| Machines, kubelets, node list | outside the repository | host names, files, membership, Node objects, a lagging watch cache | | `Machines` |
| API server | outside the repository | KylinNodes and their ResourceVersions | create, update, delete by users | `CreateKylinNode`, `UpdateKylinNode`, `DeleteKylinNode` |
| Process life | `main.go`, `controller.go:86-155`, `pkg/signals`, `build/*.yaml` | up or down; `stopCh`, the goroutines | NewController, signals, Run, exit, restart by the Deployment | `Lifecycle`; `Start`, `Exit`, `Kill` |
| Informer factory | `pkg/client/informers` | an informer per type, those started, a lock | InformerFor, Start | `InformerFactory`, in `Lifecycle` |
| Join command | `controller.go:376-442` | none; reads the token Secrets, the admin kubeconfig and a file of CA certificates | token, endpoint, CA pin | `BootstrapTokens`, then `JoinCommand`; one step of the worker (`GetJoinCommand`) |
| Bootstrap tokens | `cmd/util/token` | Secrets in kube-system, shared with other writers | list, create or update with retries | `BootstrapTokens` |
| kubeconfig | `cmd/util/kubeconfig` | none | CreateBasic, GetClusterFromKubeConfig | `KubeConfig` |
| Public key pins | `cmd/pubkeypin` | none that is used | Hash; NewSet, Allow, CheckAny and Empty, which nothing calls | `PubKeyPin` (Hash) |
| File copy | `sftp-command.go:33-63` | a buffer, an offset, the remote file | read, write | `SftpCopy`; one step of `KylinNodeController` |
| Clientset, deep copies, fakes | `pkg/client/clientset`, `pkg/apis` | | generated | no |
| Status of a KylinNode | `controller.go:497-510` | | commented out | no |

How they interact: users write KylinNodes; the informer observes a write,
updates its store and notifies the handlers; a handler puts the *key* of the
object on the work queue; two worker goroutines take keys, read the *store*
(not the event) and either install or reset; both branches end with `Done`.
The two branches share `resetNodeInfo`, without a lock. What a worker does to a
machine survives the process; the store, the queue and the map do not. Before the
workers run, `NewController` asks the factory three times for the informer of
KylinNode, and a goroutine of its own runs whatever was asked for. An installation
needs a join command: a token that lives in Secrets which other workers and kubeadm
write too, and an endpoint and a pin that come from files which administrators edit.

### What is hard here

* A KylinNode changes while it waits, while it is synced, or while the process
  is down; notifications may be coalesced; the key is then on the queue, marked
  dirty, or backing off.
* A sync is six remote commands long. Any of them can fail, take effect although
  its caller sees an error, or hang (`session.Run` has no timeout,
  `ssh-command.go:79`), and the process can die between any two of them.
* Two lags outside the process: the kubelet registers its Node after the join
  returned, and `ResourceVersion: "0"` (`controller.go:329`) reads a watch cache.
* `resetNodeInfo` links two syncs of the same key that may be days apart, is
  keyed by name only, and is shared by goroutines.
* The join command is put together from several reads, and used only after the
  machine has been prepared; tokens are deleted and replaced, kubeconfigs edited and
  CAs rotated between any two of these steps.

`PROJECT.json` lists these as hazards at their lines, with the properties that
would catch them going wrong or the reason why there is none.

### Properties that make each component correct

* Queue and workers: no key in two workers; no version lost before a sync read it;
  a resync causes no work; a hung worker does not block other keys.
* `resetNodeInfo`: while a machine is installed, the map holds its spec; a reset
  uses the information of its own KylinNode.
* Remote execution: no two workers on one machine; a successful join has the right
  name and a prepared machine; a successful deletion leaves neither membership nor
  Node.
* Deletion as a whole: a KylinNode that is deleted for good is out of the cluster in
  the end, in whatever stage of its installation that happened.
* Join command: endpoint and pin are of one cluster unless the file of certificates
  is of another one while the command is made; the cluster is the right one; as long as
  it drops no CA, its machine accepts the command.
* Bootstrap tokens: a worker is left only with a token that the cluster knows;
  failed, repeated and forgotten requests do not make tokens pile up, and none stays
  for ever; a request ends.
* File copy: if no call fails, the source arrives complete and in order; whatever fails,
  less than a buffer is written too much.
* Process life: no work before the first list; the wait for it ends when it arrives;
  a signal ends the process.

## 2. Modules

    WorkQueue        Machines
          \            /
        KylinNodeController -> Refinements -> ControllerHistory
                                   |                  |
             MCKylinNodeController /  MCControllerHistory          (*.cfg)

    KylinNodeController_proofs -> Outcome_proofs -> Refinements_proofs
                                              \--> ControllerHistory_proofs

    ItemQueue (abstract)  <== Refinements
    Reconciler (abstract) <== Refinements

    BootstrapTokens ---- MCBootstrapTokens, BootstrapTokens_proofs

    PubKeyPin    KubeConfig
          \        /
         JoinCommand --- MCJoinCommand, JoinCommand_proofs

    InformerFactory -> Lifecycle -> Lifecycle_proofs
    SftpCopy -> SftpCopy_proofs

An arrow or a line is EXTENDS, a double arrow an INSTANCE with a refinement mapping. A module of
proofs also extends the module it is named after; `Outcome_proofs` is the second one about
`KylinNodeController`.

**WorkQueue.** `waiting` holds keys whose back-off runs. Delays are not timed:
`Expire` may happen at any later step. `Forget` only shortens a later delay and
has no counterpart. `ShutDown` is followed by the end of the process.

**Machines.** Per address: the host name set by `hostnamectl`, what
`preInstallNode` left (`prepared`, with "zip" for a whole archive), the Node name
its kubelet joined under. `listed` is the watch cache of `nodes`.

**KylinNodeController.** A worker's `pc` names the step it is about to take:

| pc | code | action |
|---|---|---|
| Get | `controller.go:165` | `GetItem` |
| lister | 227 | `ReadLister` |
| admission | 262-269 | `Admission`, `PingPanics` |
| token | 271 | `GetJoinCommand` |
| save | 279-286 | `SaveResetInfo` |
| hostname, copy, unzip, init | 453-478 | `SetHostnameStep`, `CopyStep`, `CopyFatal`, `UnzipStep`, `InitStep` |
| join | 489 | `JoinStep` |
| lookup | 237-242 | `LookupResetInfo`, `NilDereference` |
| reset | 243 | `ResetStep` |
| deleteNode | 248 | `DeleteNodeStep` |
| ok, error | 179, 198, 202 | `FinishItem` |

Steps that touch nothing shared are joined with the one before (the decoding of
the key, the checks of admission on the list it read, the logging, the event of
`recorder.Event`). `MapRace` stands for the undefined outcome of two goroutines in
the map at once: the Go runtime ends the process, or the accesses happen in some
order, which are the ordinary steps. A panic in a worker is not recovered
(`wait.Until` re-raises it), so it is an `Exit`.

What the abstraction leaves out: user names and passwords (carried along, never
compared); an empty spec; the wording of errors; API calls that hang for ever; a
command or an API call that takes effect late: after its caller has seen the error, or
after the process has started again (effects happen before the error or the death, or
never); kubelets whose Node gets no InternalIP. `seen` is a history variable: no action reads it.

**ItemQueue.** What the comment on `Controller.workqueue` (68-72) says the queue is for,
without delays, order or dirty set: asks are counted and may be merged, a run begins only
with an ask and only if no worker runs the same key, and an ask goes away only by a run
that begins after it or with the process.

**Reconciler.** What "compares the actual state with the desired, and attempts to converge the
two" (`controller.go:215`) comes to, without queue, workers or stages: the machine of a KylinNode joins
only when the process last read it to be there and has saved what a reset needs, and leaves
only when the process last read it to be gone and has that. Nothing says that what was read
last is still true; it may be days old.

**Refinements.** The mappings of the controller to both. For `ItemQueue`, a key has been asked for
once per place (`waiting`, `dirty`) that holds it, and what runs is `key`. For `Reconciler`,
a KylinNode is the version of its last write (0 when it is gone), `known` is the version in
the store, `read` is `seen`, `saved` whether `resetNodeInfo` has an entry, `in` whether a machine
of the KylinNode is a member. This needs names and machines that are not shared.

**ControllerHistory.** The controller with three variables that no step depends on: the keys
whose machine the process may not get out (`missed`: it died, or a reset failed, while the
machine was a member), the number of writes of each KylinNode and the number of syncs that
this process began. `HNext` is `Next` with a step of these.

**BootstrapTokens.** What `GetJoinCommand` calls. A worker's `step`: list
(`GetValidToken`, or `GenerateToken` when nothing valid is there), get (`CheckAbsent`, the
failIfExists of 98), create and update (`createOrUpdateSecret`, each call ending in
success, effect without success, or failure), done, failed. `attempts` is what
`tryRunCommand` has left. Time is not counted: `Elapse` marks a token as past its
expiration at any step; a back-off ends at any later step. Around the workers are other
writers, deletions, the token cleaner and restarts. `withdrawn` is a history variable. A
token is a model value with an ID; the order of the list and what makes a Secret
unacceptable (288-350) are abstracted to "usable" or not.

**PubKeyPin and KubeConfig.** What the program uses of the two packages, as operators. The
pin of a certificate is its format and the digest of its public key, so that a renewed CA
keeps its pin. A kubeconfig is two functions, Go's maps, and the name of the current context;
`GetClusterFromKubeConfig` takes the unnamed cluster before that of the current context.

**JoinCommand.** What `getJoinNodeCommand` does after the token, in four steps: `LoadConfig`
(392-403), `LoadCerts` (405-419), `Render` (421-441) and, after the preparation of the machine,
`KubeadmJoin`. Between them the administrators act: they add another cluster and its
context, with certificates, with data that holds none, without any or with the file that this
cluster's entry names; they make a context current, delete the other cluster, rotate the CA,
and replace the file by certificates of either cluster, whoever has read its name (`ReplaceFile`).
The files are outside the repository and so are these actions; that rotations overlap (a
bundle loses its first certificate only when the other side has the key of the next) is an
assumption on the administrators, without which no choice of a pin would help. kubeadm
trusts a cluster one of whose CAs is pinned. Three variables are history: `fresh` says that
the cluster has dropped no CA since the certificates were read, `switched` that the other
cluster was made current, and `disagreed` that at some time from the read of the kubeconfig to
that of the file, the file did not belong to the cluster that had been read.

**SftpCopy.** The loop at 54-60, byte by byte over all short sources: a read fills the
front of the buffer, a write sends all of it. A read that fails looks like the end, a
write that fails has sent a part; nobody notices (`faults` is a history variable). Reads
of a local file are never short before its end.

**InformerFactory and Lifecycle.** The factory's two operations are fragments, each under
the factory's lock. `Lifecycle` composes them with `main`, `NewController`, the signal
goroutine, the goroutine of `Start` (`main.go:49`), `Run` and the loops of the workers, which share
the informers, `stopCh` and the queue. `controller` is which informer the Controller got
for its lister, its `HasSynced` and its handlers. What a sync does is left out; it may last
for ever.

`..._DoneEarly`, `..._Once` and the like are mutants: variants of the definition
that follows them with a plausible bug, used only to show that a property fails
when the code is wrong. `Next` does not use them.

## 3. What the runs check

All bounds are CONSTANTS of the cfg: `Keys`, `SpecsOf` (what users may write),
`Workers` (two, as `main.go:51`), `MaxWrites` (writes to KylinNodes; it also
bounds `revision`). Crashes, failures and resyncs are not bounded.

| Run | Instance | Checks | Shows |
|---|---|---|---|
| one_key | 1 key, 2 machines (one does not resolve), 2 workers, 3 writes | `TypeOK`, `NoConcurrentSameKey`, `NoChangeLost`, `InstallRecorded`, `ResetUsesOwnInfo`, `JoinsAsSpecified`, `ImplementsItemQueue`, `ImplementsReconciler` | create, update, delete and recreate, with a machine that moves, and crashes at any point |
| two_keys | 2 keys with machines of their own, 2 workers, 3 writes, one process | `MachineExclusive`, `JoinsAsSpecified`, `CleanDelete`, `ImplementsItemQueue`, `ImplementsReconciler`, `EventuallyQuiet`, `HungWorkerIsolated` | two installations, or the reset of one machine and the installation of the other, side by side; the refinements; progress under `FairSpec` |
| deleted | 1 key, 1 machine, 1 worker, 4 writes, with history | `NoMachineForgotten`, `OneSyncPerWrite`, `CleanDelete`, `DeletedLeaves` | deletions before, during and after an installation, and recreations, under `HFairSpec` |
| requeue | 1 key, 1 worker | `ErrorRequeues` violated | finding 1 |
| lost_info | 1 key, 1 worker | `ResetHasSavedInfo` violated | finding 2 |
| tokens | 3 tokens to generate, 1 foreign, 2 workers, 2 attempts | `TypeOK`, `GivenTokensAreStored`, `TokensDoNotPileUp`, `CallsRunOut`, `EveryRequestEnds`, `ShortLived` | every call may fail or take effect unseen; progress under `FairSpec` |
| token_replaced | tokens of one ID, 5 attempts | `FailsIfExists` violated | finding 3 |
| sftp_copy | all sources of up to 7 bytes of 2 values, a buffer of 3 | `TypeOK`, `ArrivesPadded` | lengths 0, below, at, between and above multiples of the buffer; calls that fail |
| lifecycle | 2 workers, 2 queued keys, 2 signals | `TypeOK`, `NoWorkBeforeSync`, `StartRunsAll`, `EventuallyServes`, `SignalEndsProcess` | every order of requests, Start, signals, first list and work |
| run_returns | the same | `RunWaitsForWorkers` violated | finding 4 |
| join_command | a CA, the same renewed, its successor, another cluster's; bundles of up to 2; 3 cluster names | `TypeOK`, `EndpointAndPinMatch`, `EndpointIsDefault`, `FreshCommandJoins`, `NeverPanics` | edits, rotations and a file that changes hands, between all steps of a join command |
| join_pins | the same | `TrustsBundle` violated | finding 5 |

The runs of `SftpCopy` and `Lifecycle` do not check for deadlock: a copy returns and a
process ends. In `tokens` the third token is there to exceed the number of workers; two
attempts, where the code has five, are a first and a last one. `Generated` also bounds how
often a token can be generated; `MaxItems` bounds the queue of `Lifecycle`, `MaxLen` the
sources of `SftpCopy`, `MaxBundle` the certificates in one bundle, and of two signals the
second is the last that does anything.

Why the bounds are enough: two workers is what `main` starts, two keys is the least
that lets two workers work at once; create and delete take two writes, and three (create,
delete, create) is the least that overtakes a deletion in one key, and that has one machine
reset while the other is installed in two; the fourth, in `deleted`, deletes what
was created again. A bundle of two is one in the middle of a rotation, and three names are
no name, the cluster's own and the other one.

In `two_keys` the constraint `OneProcess` leaves out what makes three writes too many: the
process may die only while no command has touched a machine yet, and of the two keys, which
are alike, k1 is written first. So that run says nothing of crashes in the middle of a sync;
`one_key` and `deleted` do, for the same properties with one key. Its liveness properties are
checked for the behaviours within the constraint, which are those in which they say the
most: both assume that the process stays up from some time on.

The safety properties are also proved for all values (section 4), so that the runs are
there to exercise every action and to refute the mutants. Symmetry: the workers are interchangeable in one_key; runs with
liveness properties use none.

Fairness (`Fairness`): the Deployment restarts the process, the reflector keeps
watching, the notifications are a FIFO so that each is delivered, back-offs end,
runnable goroutines run and API calls return. Users, kubelets and crashes have no
fairness, and remote commands have none either because nothing bounds them in the
code: `EventuallyQuiet` assumes that they return, `HungWorkerIsolated` only that one
worker comes back again and again. Both assume that the process stays up from some
time on.

`DeletedLeaves` assumes much, each premise for a reason in the code: commands return; no
reset of the key fails, for a failed one is never repeated (finding 1); the process is up
while the machine is a member, for afterwards the map is empty (finding 2); names and
machines are not shared and the spec does not change, for the map holds one spec per
name. Under these it says that a deletion is never overtaken for good by an installation
that began before it, although a worker that installs does not look at the store again.

In `BootstrapTokens` calls return and back-offs end, time passes, and the token
cleaner of the cluster runs; nobody has to ask for a token. In `Lifecycle` the signal
goroutine, main and the goroutine of `Start` are fair, which wait for channels or for a lock
alone: neither the first list nor a worker has to come to an end. `EventuallyServes`
assumes that a list arrives if an informer runs for ever. `JoinCommand` has safety properties only.

### Findings

1. *A failed sync is not retried.* `controller.go:175-178` says that the item "is put
   back on the workqueue and attempted again after a back-off period"; nothing calls
   `AddRateLimited` after an error (198, 207-210). One failed ping leaves a KylinNode
   uninstalled until somebody edits it; one failed reset leaves a machine joined.
2. *Deletion without saved information ends the process.* `resetNodeInfo[name]` is nil
   after a restart and for a KylinNode that was never admitted; 237-242 dereference it.
3. *A token of the same ID is replaced.* `token.go:86` says that creation "fails if one
   with the same ID already exists"; it is tested by one Get, whose errors count as
   absence, and then whatever has the name is updated (97-103, 142).
4. *Run does not wait for its workers*, as `controller.go:124-127` says it does. It could
   not: with a worker hung on a remote command the process would not end (the mutant of
   `SignalEndsProcess`).
5. *One CA of a bundle is pinned.* `controller.go:421` says "hash all the CA certs and
   include their public key pins as trusted values"; the command has `publicKeyPins[0]`
   alone (429). `FreshCommandJoins` says when one is enough.

Seen, and the subject of no run because no statement of the source says otherwise:

* `resetNodeInfo` is keyed by name (285): two KylinNodes of one name in two namespaces
  overwrite each other's entry, and deleting one resets the other's machine. A shared name
  is the only way to it (`ResetUsesOwnInfo`).
* The kubeconfig is read at 394 and the file of CA certificates that it names at 413. If the
  file is given to another cluster in between, or entries of two clusters name one file, the
  command has the endpoint of one cluster and the pin of the other, and the machine refuses to
  join after all its preparation: without the premise `~ disagreed` TLC refutes
  `EndpointAndPinMatch` and `FreshCommandJoins` in four steps. Embedded certificates are read
  with the endpoint and do not have the problem.
* `Set.Allow` returns in the first iteration of its loop (`pubkeypin.go:56`) and would ignore
  all pins but the first. Nothing calls it.
* `GetValidToken` never reads `Expires` (`token.go:227-231`), so that an expired token is
  handed out until the token cleaner has deleted it.
* The copy may be longer than the file: the whole buffer is written after a short read
  (`sftp-command.go:59`). `ArrivesPadded` says by how much, also when calls fail.
* The errors of Read and Write in the copy are discarded (`sftp-command.go:55, 59`), which
  the controller's model has as `SpoilCopy` and `JoinsAsSpecified` has to survive.
* `tryRunCommand` says that "the last error is returned" (`token.go:117`) and returns
  `wait.ErrWaitTimeout`.

## 4. What is proved

TLAPS proves the following for all values of the constants: all keys, specs, machines,
numbers of workers, tokens, attempts, certificates, names, lengths and bounds.

| Module | Theorem | Property |
|---|---|---|
| `KylinNodeController_proofs` | `TypeCorrect`, `NeverConcurrent`, `ChangesReachWorkers` | `TypeOK`, `NoConcurrentSameKey`, `NoChangeLost` |
| `Outcome_proofs` | `InstallIsRecorded`, `MachinesAreExclusive`, `ResetsUseOwnInfo` | `InstallRecorded`, `MachineExclusive`, `ResetUsesOwnInfo` |
| `Outcome_proofs` | `JoinsAreAsSpecified`, `DeletesAreClean` | `JoinsAsSpecified`, `CleanDelete` |
| `Refinements_proofs` | `ControllerImplementsItemQueue`, `ControllerImplementsReconciler` | `ImplementsItemQueue`, `ImplementsReconciler` |
| `ControllerHistory_proofs` | `MachinesAreNotForgotten`, `OneSyncForAWrite` | `NoMachineForgotten`, `OneSyncPerWrite` |
| `BootstrapTokens_proofs` | `TypeCorrect`, `GivenTokensStayStored`, `TokensAreBounded`, `RequestsRunOutOfCalls` | `TypeOK`, `GivenTokensAreStored`, `TokensDoNotPileUp`, `CallsRunOut` |
| `JoinCommand_proofs` | `TypeCorrect`, `CommandIsOfOneCluster`, `CommandLeadsHome`, `FreshCommandsAreAccepted`, `RenderNeverPanics` | `TypeOK`, `EndpointAndPinMatch`, `EndpointIsDefault`, `FreshCommandJoins`, `NeverPanics` |
| `Lifecycle_proofs` | `TypeCorrect`, `WorkFollowsSync`, `StartRunsWhatIsUsed` | `TypeOK`, `NoWorkBeforeSync`, `StartRunsAll` |
| `SftpCopy_proofs` | `TypeCorrect`, `CopyIsComplete` | `TypeOK`, `ArrivesPadded` |

These are all the invariants and safety properties that the passing runs check. The proofs
assume nothing but the named assumptions on constants, which TLC evaluates in the
runs: special values differ from ordinary ones, functions have their domains, bounds are
natural numbers (`MachinesAssumption`, `ControllerAssumption`, `KubeConfigAssumption`,
`PinAssumption`); finitely many workers and at least one attempt (`TokenAssumption`);
finitely many types, KylinNode among them (`FactoryAssumption`, `LifecycleAssumption`); a
buffer that is not empty (`SftpAssumption`); in `JoinAssumption`, that bundles have at most
`MaxBundle` certificates, and that two clusters share no key and no name.

The argument:

* `TypeOK` is not inductive: a command is typed only if its worker holds a spec, and
  `Done` only if it holds a key. `Inv` adds `WQInv` and `WorkerInv`: a worker holds a key
  exactly when it is not in `Get`, the queue counts that key as processed, no other
  worker holds it. `Get` returns only keys that are not processed (`GetInv`), which
  gives `NoConcurrentSameKey`.
* `NoChangeLost` needs `VersionInv`: equal ResourceVersions mean equal objects, and an
  announced change has two different ones. That is what the comparison in `UpdateFunc`
  relies on; without it a real change could be taken for a resync. A key that is marked
  while it is processed is put back by `Done` (`DoneInv`).
* `InstallRecorded` and `MachineExclusive` follow from `OwnerInv`: store, map and workers
  hold only specs given to the key in question, and between the save and the end of the
  commands nobody overwrites the entry, because only a worker with the same key could.
  The same invariant gives `ResetUsesOwnInfo`. Here `OneKeyPerName` enters, and only here.
* `OutcomeInv` says what has been done on a worker's machine at each step
  (`Installed`), that a machine stays out between its reset and the deletion of its
  Node (`StaysReset`), and that it is only ever known under one name (`OneNodeName`).
  A step of one worker disturbs no other because their machines differ
  (`OwnMachineOnly`).
* The refinement of `ItemQueue` needs `Inv` where a worker begins: the head of the queue is dirty and not
  processed, so it has been asked for and no worker holds it. Every other step changes at
  most one key's count (`AsksExcept`).
* The refinement of `Reconciler` has to show that a worker which joins or resets does so on
  what the process read last, although it read many steps before. `SyncInv` says so: on
  the way of an installation `seen` of the worker's key is not 0, on the way of a reset it
  is 0. No other worker can have read since, for it would hold the same key. `OwnerInv` gives
  the entry of the map, and that the machine belongs to this KylinNode alone
  (`InsideExcept`). All other steps of a worker stutter.
* `NoMachineForgotten` follows from `ExplainedInv`: whose machine is a member, and not
  `missed`, the process has saved it, and if it read last that it is gone, a worker
  is on its way to the reset. A reset that succeeds takes the machine out; a kubeadm join of an
  earlier sync cannot come after that read, because the worker still holds the key. What is in
  the store but not read yet is still to be read (`NoChangeLost`).
* `OneSyncPerWrite` follows from a budget: the syncs that began and those that can still begin
  without another write (`ToCome`: back-off, mark, announced changes, and whether the store is
  behind) are together at most the writes. A write adds one to both sides; each other step only
  moves a unit along; `UpdateFunc` drops the notifications of a resync, whose two
  versions are equal.
* In `BootstrapTokens`, `RequestInv` says that a request has an attempt left whenever it
  makes one and works for a generated token, `SecretInv` that a Secret is found under its
  token's ID and that a generated one is as `ToSecret` made it. The latter is why tokens do
  not pile up: a stored one is recognised by the next `GetValidToken`, so a worker that
  generates found none, and all outstanding tokens are those of workers
  (`GenerateBounded`); every other step only removes some (`RequestOutstanding`). `CallsLeft`
  decreases with every call because attempts do, and an Update follows a Create.
* `JoinCommand` has an invariant about the administrators and one per step of the
  program. `Entries` says that the other cluster is found under its name only;
  `ContextsMatch` that a context leads to the cluster in its name; `Rotation` that the first
  certificate of each bundle is of a key the cluster has, except in a file that the other
  cluster has been given. `ConfigRead`, `FirstRead`, `CertsRead` and `CommandMade` carry this
  through the steps, `fresh` saying how long it stays true of what was read. `FileAgrees`
  covers the time between the two reads: unless `disagreed`, the file that will be read is of
  the cluster that was read. Since two clusters share no key, what the file holds then
  tells which cluster's it is (`FileIsOfOne`), also when it has changed hands before.
* In `Lifecycle`, `OneInformer` says that the factory has at most one informer however often
  it is asked; so the lister and `HasSynced` have the same (`Referred`), and that
  one has synced once there are workers (`WorkersWaited`). `StartInv` says that the
  goroutine of `Start` is spawned after the last request, so that it finds the informer.
* In `SftpCopy`, `BlockToWrite` says that the block in the buffer starts where the remote
  file ends, and `LengthBound` that the remote file is ahead of what was read only after the
  last block, also if failed writes made it shorter. Without the latter the padding of an
  earlier block could be in the middle.

Only model-checked: the liveness properties, since TLAPS has neither fairness nor ENABLED,
and the violations. For most of them the safety part on which they rest is proved:

| Liveness, checked by TLC | Safety part, proved |
|---|---|
| `EventuallyQuiet` | `OneSyncPerWrite`: without writes only so many syncs can begin |
| `DeletedLeaves` | `NoMachineForgotten`: whatever is left to do is on its way |
| `HungWorkerIsolated` | `ImplementsItemQueue`: an ask is not dropped; a run begins if no worker has the key |
| `EventuallyServes` | `StartRunsAll`: what main waits for has been run |
| `EveryRequestEnds` | `CallsRunOut`: each call is one less |
| `ShortLived` | `SecretInv` in `BootstrapTokens_proofs`: a generated token that is stored has an expiration |
| `SignalEndsProcess` | none: `MainReturns` and `StoppedBeforeSync` are enabled by what main sees alone |

## 5. Not modelled

* Generated code: the typed clients and their fakes, the clientset, the deep copies and the
  registration of the types. It has no logic of this program.
* `updateKylinNodeStatus` (`controller.go:497-510`), which is commented out.
* The helpers of `kubeconfig.go` that add credentials or hand a kubeconfig to client-go
  (`CreateWithCerts`, `CreateWithToken`, `ToClientSet`, `ClientSetFromFile`, `WriteToDisk`) and the
  options of the factory and its `WaitForCacheSync`: nothing calls them.
* The set of allowed pins (`NewSet`, `Allow`, `CheckAny`, `Empty` of `pubkeypin.go`), which nothing
  calls either.
* Connections: the ssh client of each command is never closed (`ssh-command.go:60`). Nothing
  counts them, so there is no state to check.
* Real time: how long a token lives against how long a preparation takes. `tokens` says only
  what can happen to a token meanwhile.

What would come next: `BootstrapTokens` and `JoinCommand` composed with the workers of
`KylinNodeController`, which asks how old the token of a join may be.
