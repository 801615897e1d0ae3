----------------------------- MODULE JoinCommand -----------------------------
(***************************************************************************)
(* The second half of getJoinNodeCommand, after the token: it reads the    *)
(* admin kubeconfig and the CA certificates it holds or names, and puts    *)
(* the endpoint and the pin of a certificate into the kubeadm join command.*)
(* Between the reads, and before the command runs on the machine, the      *)
(* administrators may edit the kubeconfig, rotate the CA of the cluster and*)
(* give the file of certificates to another cluster.                       *)
(***************************************************************************)
EXTENDS Naturals, Sequences, PubKeyPin, KubeConfig

CONSTANTS
    Own, Other,           \* the endpoints of this cluster and another one
    OwnCertificates,      \* the CA certificates this cluster ever has
    OtherBundle,          \* those of the other cluster
    OtherName,            \* the name administrators give to the other one
    MaxBundle             \* bound on the certificates in one bundle

BundlesOf(certs) == UNION {[1..n -> certs] : n \in 0..MaxBundle}

Keys(bundle) == {KeyOf[bundle[i]] : i \in DOMAIN bundle}

(* The keys of the CAs of the cluster at an endpoint.                      *)
KeysAt(server) ==
    IF server = Own THEN {KeyOf[c] : c \in OwnCertificates} ELSE Keys(OtherBundle)

ASSUME JoinAssumption ==
    /\ Own \in Servers /\ Other \in Servers /\ Own # Other
    /\ OtherName \in ClusterNames \ {Unnamed}
    /\ OwnCertificates \subseteq Certificates
    /\ MaxBundle \in Nat
    /\ Bundles = BundlesOf(Certificates)
    /\ OtherBundle \in Bundles \ {<<>>}
    /\ \A c \in OwnCertificates : KeyOf[c] \notin Keys(OtherBundle)

VARIABLES
    served,               \* the CA bundle of this cluster: cluster-info
    adminConf,            \* the kubeconfig on the controller's host
    caFile,               \* the file of CA certificates besides it
    step,                 \* where getJoinNodeCommand is
    clusterConfig,        \* what it has read of adminConf
    caCerts,              \* the certificates that it has read
    command,              \* the kubeadm join command
    fresh,                \* history: served has lost nothing since the read
    disagreed,            \* history: between the reads, the file was not of
                          \* the cluster that clusterConfig is about
    switched              \* history: the other cluster was made current

local == <<step, clusterConfig, caCerts, command, fresh, disagreed>>
vars == <<served, adminConf, caFile, local, switched>>

Commands == [server : Servers, pins : Seq(Hashes)]
NoCommand == [server |-> Own, pins |-> <<>>]

TypeOK ==
    /\ served \in BundlesOf(OwnCertificates) \ {<<>>}
    /\ adminConf \in Configs
    /\ caFile \in BundlesOf(OwnCertificates) \cup {OtherBundle}
    /\ step \in {"start", "certs", "render", "prepare", "joined", "refused",
                 "error", "panic"}
    /\ clusterConfig \in Clusters \cup {NoCluster}
    /\ caCerts \in Bundles
    /\ command \in Commands
    /\ fresh \in BOOLEAN
    /\ disagreed \in BOOLEAN
    /\ switched \in BOOLEAN

(* The kubeconfig holds the cluster's first CA, or names the file of it.   *)
Init ==
    /\ \E c \in OwnCertificates, n \in ClusterNames \ {OtherName}, u \in UserNames :
           /\ served = <<c>>
           /\ \/ /\ adminConf = CreateBasic(Own, n, u, <<c>>)
                 /\ caFile = <<>>
              \/ /\ adminConf = [CreateBasic(Own, n, u, <<>>)
                                   EXCEPT !.clusters[n].ca = "file"]
                 /\ caFile = <<c>>
    /\ step = "start"
    /\ clusterConfig = NoCluster
    /\ caCerts = <<>>
    /\ command = NoCommand
    /\ fresh = FALSE
    /\ disagreed = FALSE
    /\ switched = FALSE

-----------------------------------------------------------------------------
(* The administrators                                                      *)

(* The entries of this cluster in the kubeconfig, and their certificates.  *)
OwnEntries == {n \in ClusterNames : /\ adminConf.clusters[n] # NoCluster
                                    /\ adminConf.clusters[n].server = Own}

CertsOf(cluster) == IF cluster.ca = "file" THEN caFile ELSE cluster.data

(* Whether a cluster entry names the file and this, its content, is of     *)
(* another cluster.                                                        *)
Disagrees(cluster, content) ==
    cluster.ca = "file" /\ ~ (Keys(content) \subseteq KeysAt(cluster.server))

(* A rotation overlaps: the cluster and the kubeconfig each append the new *)
(* CA to their bundle, and drop its first one only when the other side has *)
(* the key of the next.  A CA that is renewed keeps its key.               *)
ServeCA(c) ==
    /\ Len(served) < MaxBundle
    /\ served' = Append(served, c)
    /\ UNCHANGED <<adminConf, caFile, local, switched>>

RetireCA ==
    /\ Len(served) > 1
    /\ \A n \in OwnEntries :
           KeyOf[Head(CertsOf(adminConf.clusters[n]))] \in Keys(Tail(served))
    /\ served' = Tail(served)
    /\ fresh' = FALSE
    /\ UNCHANGED <<adminConf, caFile, step, clusterConfig, caCerts, command,
                   disagreed, switched>>

PutBundle(n, bundle) ==
    /\ \/ /\ adminConf.clusters[n].ca = "data"
          /\ adminConf' = [adminConf EXCEPT !.clusters[n].data = bundle]
          /\ UNCHANGED caFile
       \/ /\ adminConf.clusters[n].ca = "file"
          /\ caFile' = bundle
          /\ UNCHANGED adminConf
    /\ UNCHANGED <<served, local, switched>>

TrustCA(n, c) ==
    LET bundle == CertsOf(adminConf.clusters[n]) IN
    /\ bundle \in BundlesOf(OwnCertificates)
    /\ Len(bundle) < MaxBundle
    /\ PutBundle(n, Append(bundle, c))

DistrustCA(n) ==
    LET rest == Tail(CertsOf(adminConf.clusters[n])) IN
    /\ rest # <<>>
    /\ KeyOf[Head(rest)] \in Keys(served)
    /\ PutBundle(n, rest)

(* The file gets the CA of the other cluster, or a bundle of this one whose*)
(* first key is served.  Its readers are not asked, nor is the kubeconfig  *)
(* changed in the same step.                                               *)
ReplaceFile(bundle) ==
    /\ \E n \in ClusterNames : /\ adminConf.clusters[n] # NoCluster
                               /\ adminConf.clusters[n].ca = "file"
    /\ bundle # <<>>
    /\ bundle = OtherBundle \/ KeyOf[Head(bundle)] \in Keys(served)
    /\ caFile' = bundle
    /\ disagreed' = (disagreed \/ (step = "certs" /\ Disagrees(clusterConfig, bundle)))
    /\ UNCHANGED <<served, adminConf, step, clusterConfig, caCerts, command, fresh,
                   switched>>

(* kubectl config set-cluster and set-context; the data may hold nothing   *)
(* that is a certificate, there may be none, and the file may be the one   *)
(* that this cluster's entry names.                                        *)
AddOther(u) ==
    /\ adminConf.clusters[OtherName] = NoCluster
    /\ \E ca \in {"data", "file", "none"}, data \in {OtherBundle, <<>>} :
           /\ ca # "data" => data = <<>>
           /\ adminConf' = [adminConf EXCEPT
                   !.clusters[OtherName] = [server |-> Other, ca |-> ca, data |-> data],
                   !.contexts[<<u, OtherName>>] = [cluster |-> OtherName, user |-> u]]
    /\ UNCHANGED <<served, caFile, local, switched>>

(* kubectl config use-context                                              *)
UseContext(name) ==
    /\ adminConf.contexts[name] # NoContext
    /\ adminConf' = [adminConf EXCEPT !.currentContext = name]
    /\ switched' = (switched \/ adminConf.contexts[name].cluster = OtherName)
    /\ UNCHANGED <<served, caFile, local>>

(* kubectl config delete-cluster, which leaves the contexts as they are.   *)
DeleteOther ==
    /\ adminConf.clusters[OtherName] # NoCluster
    /\ adminConf' = [adminConf EXCEPT !.clusters[OtherName] = NoCluster]
    /\ UNCHANGED <<served, caFile, local, switched>>

-----------------------------------------------------------------------------
(* getJoinNodeCommand                                                      *)

LoadConfig ==
    /\ step = "start"
    /\ clusterConfig' = GetClusterFromKubeConfig(adminConf)
    /\ clusterConfig' # NoCluster
    /\ step' = "certs"
    /\ fresh' = TRUE
    /\ disagreed' = Disagrees(clusterConfig', caFile)
    /\ UNCHANGED <<served, adminConf, caFile, caCerts, command, switched>>

(* Mutant of LoadCerts: no certificates in the kubeconfig is no error.     *)
LoadCerts_None ==
    /\ step = "certs"
    /\ caCerts' = CertsOf(clusterConfig)
    /\ caCerts' # <<>> \/ clusterConfig.ca = "none"
    /\ step' = "render"
    /\ fresh' = (fresh \/ clusterConfig.ca = "file")
    /\ UNCHANGED <<served, adminConf, caFile, clusterConfig, command, disagreed,
                   switched>>

(* ParseCertsPEM of the data, or CertsFromFile; each returns at least one  *)
(* certificate or an error.                                                *)
LoadCerts ==
    /\ step = "certs"
    /\ clusterConfig.ca # "none"
    /\ caCerts' = CertsOf(clusterConfig)
    /\ caCerts' # <<>>
    /\ step' = "render"
    /\ fresh' = (fresh \/ clusterConfig.ca = "file")
    /\ UNCHANGED <<served, adminConf, caFile, clusterConfig, command, disagreed,
                   switched>>

(* A file cannot be read or holds nothing of use.                          *)
ReadFails ==
    /\ step \in {"start", "certs"}
    /\ step' = "error"
    /\ UNCHANGED <<served, adminConf, caFile, clusterConfig, caCerts, command, fresh,
                   disagreed, switched>>

publicKeyPins == [i \in DOMAIN caCerts |-> Hash(caCerts[i])]

(* The command line has the server and publicKeyPins[0].                   *)
JoinCommandTo(server, pins) ==
    IF pins = <<>>
    THEN step' = "panic" /\ UNCHANGED command
    ELSE step' = "prepare" /\ command' = [server |-> server, pins |-> <<pins[1]>>]

(* Mutant of Render: the endpoint is read again.                           *)
Render_Reads ==
    /\ step = "render"
    /\ GetClusterFromKubeConfig(adminConf) # NoCluster
    /\ JoinCommandTo(GetClusterFromKubeConfig(adminConf).server, publicKeyPins)
    /\ clusterConfig' = NoCluster
    /\ UNCHANGED <<served, adminConf, caFile, caCerts, fresh, disagreed, switched>>

(* Mutant of Render: the newest certificate is the last one.               *)
Render_Last ==
    /\ step = "render"
    /\ JoinCommandTo(clusterConfig.server, <<publicKeyPins[Len(caCerts)]>>)
    /\ clusterConfig' = NoCluster
    /\ UNCHANGED <<served, adminConf, caFile, caCerts, fresh, disagreed, switched>>

Render ==
    /\ step = "render"
    /\ JoinCommandTo(clusterConfig.server, publicKeyPins)
    /\ clusterConfig' = NoCluster
    /\ UNCHANGED <<served, adminConf, caFile, caCerts, fresh, disagreed, switched>>

-----------------------------------------------------------------------------
(* The machine                                                             *)

(* kubeadm join trusts the cluster that it reaches if one of the CAs in    *)
(* its cluster-info has a pinned key.  It is not of this repository.       *)
ServedBy(server) == IF server = Own THEN served ELSE OtherBundle

Trusts(pins, certs) == \E i \in DOMAIN pins : pins[i].digestOf \in Keys(certs)

Accepted == Trusts(command.pins, ServedBy(command.server))

(* What getJoinNodeCommand, its caller and the machine leave behind.       *)
Forget ==
    /\ clusterConfig' = NoCluster
    /\ caCerts' = <<>>
    /\ command' = NoCommand
    /\ fresh' = FALSE
    /\ disagreed' = FALSE
    /\ UNCHANGED <<served, adminConf, caFile, switched>>

(* The preparation of the machine comes first, and takes its time.         *)
KubeadmJoin ==
    /\ step = "prepare"
    /\ step' = IF Accepted THEN "joined" ELSE "refused"
    /\ Forget

(* The next KylinNode                                                      *)
Again ==
    /\ step \in {"joined", "refused", "error"}
    /\ step' = "start"
    /\ Forget

-----------------------------------------------------------------------------
Administrators ==
    \/ \E c \in OwnCertificates : ServeCA(c)
    \/ RetireCA
    \/ \E n \in OwnEntries, c \in OwnCertificates : TrustCA(n, c)
    \/ \E n \in OwnEntries : DistrustCA(n)
    \/ \E bundle \in BundlesOf(OwnCertificates) \cup {OtherBundle} : ReplaceFile(bundle)
    \/ \E u \in UserNames : AddOther(u)
    \/ \E name \in ContextNames : UseContext(name)
    \/ DeleteOther

GetJoinNodeCommand == ReadFails \/ LoadConfig \/ LoadCerts \/ Render

Next == Administrators \/ GetJoinNodeCommand \/ KubeadmJoin \/ Again

Spec == Init /\ [][Next]_vars

-----------------------------------------------------------------------------
(* Properties                                                              *)

(* The endpoint of a command and its pin are of one cluster, although the  *)
(* kubeconfig is read first (controller.go:394) and the file that it names *)
(* later (413): the only way to a command of two clusters is that the file *)
(* held another cluster's certificates at some time from the first read to *)
(* the second.  No other edit does it, of whichever entry, context or file,*)
(* at whichever time, and none at all if the certificates are embedded.    *)
EndpointAndPinMatch ==
    step = "prepare" /\ ~ disagreed => command.pins[1].digestOf \in KeysAt(command.server)

(* A command leads to this cluster as long as nobody makes the other one   *)
(* current in the kubeconfig, and even then if this one has no name,       *)
(* whatever clusters and contexts are added and deleted meanwhile.         *)
EndpointIsDefault ==
    step = "prepare" /\ command.server = Other =>
        switched /\ adminConf.clusters[Unnamed] = NoCluster

(* A command that is used before the cluster drops a CA is accepted, in    *)
(* whatever stage of an overlapping rotation its certificates were read,   *)
(* and after a CA was renewed: the first certificate of the bundle is the  *)
(* one the cluster is sure to have, and the pin is of its key.  Of a       *)
(* command of two clusters it says nothing.                                *)
FreshCommandJoins == step = "prepare" /\ fresh /\ ~ disagreed => Accepted

(* publicKeyPins[0] is there, whatever the kubeconfig holds.               *)
NeverPanics == step # "panic"

-----------------------------------------------------------------------------
(* What a comment of the source says and the code does not do              *)

(* controller.go:421: "hash all the CA certs and include their public key  *)
(* pins as trusted values": each CA that was read is trusted.              *)
TrustsBundle ==
    step = "prepare" =>
        \A i \in DOMAIN caCerts : Trusts(command.pins, <<caCerts[i]>>)
=============================================================================
