------------------------------ MODULE Machines -------------------------------
(***************************************************************************)
(* What the controller acts on from outside its process: the machines it   *)
(* reaches by ssh and sftp, and the Node objects that their kubelets       *)
(* register.  Every operation is the effect of one command or call of      *)
(* controller.go on that state; whether the caller learns of the effect is *)
(* decided by the module that composes these.                              *)
(***************************************************************************)
EXTENDS Naturals

CONSTANTS
    NodeNames,            \* values of KylinNodeSpec.Name: host and Node names
    Addresses,            \* values of KylinNodeSpec.Address
    NoName,               \* no host name was set, or no cluster was joined
    NoAddress             \* no Node object with that name

ASSUME MachinesAssumption ==
    /\ NoName \notin NodeNames
    /\ NoAddress \notin Addresses

VARIABLES
    hostname,             \* hostname[a]: the last one hostnamectl set on a
    prepared,             \* prepared[a]: what preInstallNode left on a
    member,               \* member[a]: the Node name a's kubelet joined under
    nodes,                \* nodes[n]: InternalIP of the Node object named n
    listed                \* the API server's watch cache of nodes

machineVars == <<hostname, prepared, member, nodes, listed>>

Stages == {"zip", "unzipped", "inited"}

MachinesTypeOK ==
    /\ hostname \in [Addresses -> NodeNames \cup {NoName}]
    /\ prepared \in [Addresses -> SUBSET Stages]
    /\ member \in [Addresses -> NodeNames \cup {NoName}]
    /\ nodes \in [NodeNames -> Addresses \cup {NoAddress}]
    /\ listed \in [NodeNames -> Addresses \cup {NoAddress}]

MachinesInit ==
    /\ hostname = [a \in Addresses |-> NoName]
    /\ prepared = [a \in Addresses |-> {}]
    /\ member = [a \in Addresses |-> NoName]
    /\ nodes = [n \in NodeNames |-> NoAddress]
    /\ listed = [n \in NodeNames |-> NoAddress]

(* hostnamectl set-hostname n                                              *)
SetHostname(a, n) ==
    /\ hostname' = [hostname EXCEPT ![a] = n]
    /\ UNCHANGED <<prepared, member, nodes, listed>>

(* One stage of the preparation of a.  The commands test with [ -f ... ]   *)
(* for the file that the stage before leaves, and unzip refuses a file that*)
(* is no archive; "zip" stands for a whole one.                            *)
Prepare(a, needs, stage) ==
    /\ needs \subseteq prepared[a]
    /\ prepared' = [prepared EXCEPT ![a] = @ \cup {stage}]
    /\ UNCHANGED <<hostname, member, nodes, listed>>

CopyInitNode(a) == Prepare(a, {}, "zip")
Unzip(a) == Prepare(a, {"zip"}, "unzipped")
RunInit(a) == Prepare(a, {"unzipped"}, "inited")

(* The copy replaced the file and did not finish: what is there is no      *)
(* archive any more.  What was unpacked from an earlier one stays.         *)
SpoilCopy(a) ==
    /\ prepared' = [prepared EXCEPT ![a] = @ \ {"zip"}]
    /\ UNCHANGED <<hostname, member, nodes, listed>>

(* kubeadm join, run without --node-name: the node takes the host name.    *)
(* The preflight check refuses a machine that has joined already.          *)
KubeadmJoin(a) ==
    /\ member[a] = NoName
    /\ member' = [member EXCEPT ![a] = hostname[a]]
    /\ UNCHANGED <<hostname, prepared, nodes, listed>>

(* kubeadm reset -f stops the kubelet and leaves the Node object.          *)
KubeadmReset(a) ==
    /\ member' = [member EXCEPT ![a] = NoName]
    /\ UNCHANGED <<hostname, prepared, nodes, listed>>

(* The kubelet of a joined machine creates or updates its Node object, any *)
(* time after kubeadm join returned.                                       *)
Register(a) ==
    /\ member[a] # NoName
    /\ nodes[member[a]] # a
    /\ nodes' = [nodes EXCEPT ![member[a]] = a]
    /\ UNCHANGED <<hostname, prepared, member, listed>>

(* Nodes().Delete(n), which fails with NotFound when there is no such Node.*)
DeleteNode(n) ==
    /\ nodes[n] # NoAddress
    /\ nodes' = [nodes EXCEPT ![n] = NoAddress]
    /\ UNCHANGED <<hostname, prepared, member, listed>>

(* The watch cache that answers a List with ResourceVersion "0" catches up.*)
SyncListed ==
    /\ listed # nodes
    /\ listed' = nodes
    /\ UNCHANGED <<hostname, prepared, member, nodes>>
=============================================================================
