------------------------------ MODULE KubeConfig ------------------------------
(***************************************************************************)
(* Kubeconfigs, as kubeconfig.go makes and reads them.  Go's maps of       *)
(* pointers are functions with a value for what is not there.  A context   *)
(* is named user@cluster, which is the pair of the two.  The credentials of*)
(* the users, which nothing here reads, are left out.                      *)
(***************************************************************************)
CONSTANTS
    ClusterNames, UserNames, Servers,
    Unnamed,              \* the empty cluster name
    Bundles,              \* the contents of certificate-authority-data
    NoCluster, NoContext

ASSUME KubeConfigAssumption ==
    /\ Unnamed \in ClusterNames
    /\ NoCluster \notin [server : Servers, ca : {"data", "file", "none"},
                         data : Bundles]
    /\ NoContext \notin [cluster : ClusterNames, user : UserNames]

(* data is there when ca = "data"; with "file" the certificates are in a   *)
(* file that certificate-authority names.                                  *)
Clusters == [server : Servers, ca : {"data", "file", "none"}, data : Bundles]
Contexts == [cluster : ClusterNames, user : UserNames]
ContextNames == UserNames \X ClusterNames

Configs ==
    [clusters : [ClusterNames -> Clusters \cup {NoCluster}],
     contexts : [ContextNames -> Contexts \cup {NoContext}],
     currentContext : ContextNames]

CreateBasic(server, clusterName, userName, caCert) ==
    LET contextName == <<userName, clusterName>> IN
    [clusters |-> [n \in ClusterNames |->
         IF n = clusterName
         THEN [server |-> server, ca |-> "data", data |-> caCert]
         ELSE NoCluster],
     contexts |-> [n \in ContextNames |->
         IF n = contextName
         THEN [cluster |-> clusterName, user |-> userName]
         ELSE NoContext],
     currentContext |-> contextName]

(* Mutant of GetClusterFromKubeConfig: the current context comes first.    *)
GetClusterFromKubeConfig_ContextFirst(config) ==
    LET context == config.contexts[config.currentContext] IN
    IF context = NoContext THEN config.clusters[Unnamed]
    ELSE config.clusters[context.cluster]

(* An unnamed cluster comes before that of the current context.            *)
GetClusterFromKubeConfig(config) ==
    IF config.clusters[Unnamed] # NoCluster THEN config.clusters[Unnamed]
    ELSE LET context == config.contexts[config.currentContext] IN
         IF context = NoContext THEN NoCluster
         ELSE config.clusters[context.cluster]
=============================================================================
