-------------------------- MODULE JoinCommand_proofs --------------------------
(***************************************************************************)
(* Theorems about JoinCommand for any certificates and keys, any names of  *)
(* clusters and users, and bundles of any length.                          *)
(***************************************************************************)
EXTENDS JoinCommand, TLAPS

OwnBundles == BundlesOf(OwnCertificates) \ {<<>>}

(* CertsOf, for a given content of the file.                               *)
Certs(cluster, f) == IF cluster.ca = "file" THEN f ELSE cluster.data

(* What the entries of the two clusters look like.                         *)
OwnCluster(cluster, f) ==
    /\ cluster.server = Own
    /\ cluster.ca \in {"data", "file"}
    /\ cluster.ca = "data" => cluster.data \in OwnBundles
    /\ cluster.ca = "file" => f # <<>>

OtherCluster(cluster) ==
    /\ cluster.server = Other
    /\ cluster.ca = "data" => cluster.data \in {OtherBundle, <<>>}

(* The other cluster is only ever found under its name.                    *)
Entries ==
    \A n \in ClusterNames : adminConf.clusters[n] # NoCluster =>
        IF n = OtherName THEN OtherCluster(adminConf.clusters[n])
        ELSE OwnCluster(adminConf.clusters[n], caFile)

(* A context leads to the cluster in its name.                             *)
ContextsMatch ==
    /\ \A name \in ContextNames : adminConf.contexts[name] # NoContext =>
           adminConf.contexts[name].cluster = name[2]
    /\ ~ switched => adminConf.currentContext[2] # OtherName

(* Rotations overlap: the first certificate of each bundle is of a key that*)
(* the cluster has, except in a file that the other cluster has been given.*)
Rotation ==
    \A n \in ClusterNames \ {OtherName} : adminConf.clusters[n] # NoCluster =>
        \/ KeyOf[Head(Certs(adminConf.clusters[n], caFile))] \in Keys(served)
        \/ adminConf.clusters[n].ca = "file" /\ caFile = OtherBundle

(* What has been read.                                                     *)
ConfigRead ==
    step \in {"certs", "render"} =>
        /\ clusterConfig \in Clusters
        /\ \/ /\ OwnCluster(clusterConfig, caFile)
              /\ clusterConfig.ca = "file" =>
                     \E n \in ClusterNames \ {OtherName} :
                         /\ adminConf.clusters[n] # NoCluster
                         /\ adminConf.clusters[n].ca = "file"
           \/ OtherCluster(clusterConfig)
        /\ clusterConfig.server = Other =>
               switched /\ adminConf.clusters[Unnamed] = NoCluster

FirstRead ==
    step = "certs" /\ fresh /\ clusterConfig.server = Own
                   /\ clusterConfig.ca = "data"
        => KeyOf[Head(clusterConfig.data)] \in Keys(served)

(* The file that will be read next is of the cluster that was read first.  *)
FileAgrees ==
    step = "certs" /\ ~ disagreed => ~ Disagrees(clusterConfig, caFile)

CertsRead ==
    step = "render" =>
        /\ caCerts # <<>>
        /\ ~ disagreed =>
               IF clusterConfig.server = Own
               THEN /\ caCerts \in OwnBundles
                    /\ fresh => KeyOf[Head(caCerts)] \in Keys(served)
               ELSE caCerts = OtherBundle

(* What has been put into the command.                                     *)
CommandMade ==
    step = "prepare" =>
        /\ command.server \in {Own, Other}
        /\ command.server = Other =>
               switched /\ adminConf.clusters[Unnamed] = NoCluster
        /\ ~ disagreed =>
               IF command.server = Own
               THEN \E c \in OwnCertificates :
                        /\ command.pins = <<Hash(c)>>
                        /\ fresh => KeyOf[c] \in Keys(served)
               ELSE command.pins = <<Hash(Head(OtherBundle))>>

Inv ==
    /\ TypeOK
    /\ Entries /\ ContextsMatch /\ Rotation
    /\ ConfigRead /\ FirstRead /\ FileAgrees /\ CertsRead /\ CommandMade
    /\ NeverPanics

(* TypeOK in parts that one backend each can prove.                        *)
FlagTypes == fresh \in BOOLEAN /\ disagreed \in BOOLEAN /\ switched \in BOOLEAN

AdminTypes ==
    /\ served \in OwnBundles
    /\ adminConf \in Configs
    /\ caFile \in BundlesOf(OwnCertificates) \cup {OtherBundle}

LocalTypes ==
    /\ step \in {"start", "certs", "render", "prepare", "joined", "refused",
                 "error", "panic"}
    /\ clusterConfig \in Clusters \cup {NoCluster}
    /\ caCerts \in Bundles
    /\ command \in Commands

LEMMA TypeParts == TypeOK <=> FlagTypes /\ AdminTypes /\ LocalTypes
BY Zenon DEF TypeOK, FlagTypes, AdminTypes, LocalTypes, OwnBundles

LEMMA TypePartsNext == TypeOK' <=> FlagTypes' /\ AdminTypes' /\ LocalTypes'
BY Zenon DEF TypeOK, FlagTypes, AdminTypes, LocalTypes, OwnBundles

-----------------------------------------------------------------------------
(* Bundles and pins                                                        *)

LEMMA BundleIsSequence ==
  ASSUME NEW S, NEW b
  PROVE  b \in BundlesOf(S) <=> b \in Seq(S) /\ Len(b) \in 0..MaxBundle
<1>1. ASSUME b \in BundlesOf(S)
      PROVE  b \in Seq(S) /\ Len(b) \in 0..MaxBundle
  BY <1>1, JoinAssumption DEF BundlesOf
<1>2. ASSUME b \in Seq(S), Len(b) \in 0..MaxBundle
      PROVE  b \in BundlesOf(S)
  <2>1. b \in [1..Len(b) -> S]
    BY <1>2
  <2>. QED
    BY <1>2, <2>1 DEF BundlesOf
<1>. QED
  BY <1>1, <1>2

LEMMA BundleFacts ==
  ASSUME NEW S, NEW b \in BundlesOf(S), b # <<>>
  PROVE  /\ Len(b) \in Nat \ {0}
         /\ Head(b) = b[1] /\ b[1] \in S
         /\ \A c \in S : Len(b) < MaxBundle =>
                Append(b, c) \in BundlesOf(S) \ {<<>>} /\ Append(b, c)[1] = b[1]
         /\ Tail(b) \in BundlesOf(S)
<1>1. b \in Seq(S) /\ Len(b) \in 0..MaxBundle
  BY BundleIsSequence
<1>2. Len(b) \in Nat \ {0}
  BY <1>1, JoinAssumption
<1>3. Head(b) = b[1] /\ b[1] \in S
  BY <1>1, <1>2
<1>4. ASSUME NEW c \in S, Len(b) < MaxBundle
      PROVE  Append(b, c) \in BundlesOf(S) \ {<<>>} /\ Append(b, c)[1] = b[1]
  <2>1. Append(b, c) \in Seq(S) /\ Len(Append(b, c)) = Len(b) + 1
    BY <1>1
  <2>2. Append(b, c) \in BundlesOf(S)
    <3>1. Len(Append(b, c)) \in 0..MaxBundle
      BY <1>1, <1>4, <2>1, JoinAssumption
    <3>. QED
      BY <2>1, <3>1, BundleIsSequence, Zenon
  <2>3. Append(b, c)[1] = b[1]
    BY <1>1, <1>2
  <2>4. Append(b, c) # <<>>
    BY <1>2, <2>1
  <2>. QED
    BY <2>2, <2>3, <2>4
<1>5. Tail(b) \in BundlesOf(S)
  <2>1. Tail(b) \in Seq(S) /\ Len(Tail(b)) = Len(b) - 1
    BY <1>1, <1>2
  <2>2. Len(Tail(b)) \in 0..MaxBundle
    BY <1>1, <1>2, <2>1, JoinAssumption
  <2>. QED
    BY <2>1, <2>2, BundleIsSequence, Zenon
<1>. QED
  BY <1>2, <1>3, <1>4, <1>5

(* A bundle keeps its keys when a certificate is appended.                 *)
LEMMA KeysAppend ==
  ASSUME NEW S, NEW b \in Seq(S), NEW c \in S
  PROVE  Keys(b) \subseteq Keys(Append(b, c))
<1>1. \A i \in 1..Len(b) : i \in 1..Len(Append(b, c)) /\ Append(b, c)[i] = b[i]
  OBVIOUS
<1>2. DOMAIN b = 1..Len(b) /\ DOMAIN Append(b, c) = 1..Len(Append(b, c))
  BY Append(b, c) \in Seq(S)
<1>. QED
  BY <1>1, <1>2 DEF Keys

(* The other cluster has a certificate, so bundles have room for one.      *)
LEMMA RoomForOne ==
  /\ MaxBundle \in Nat \ {0}
  /\ OtherBundle \in Seq(Certificates) /\ OtherBundle # <<>>
<1>1. OtherBundle \in Seq(Certificates) /\ Len(OtherBundle) \in 0..MaxBundle
  BY BundleIsSequence, JoinAssumption
<1>. QED
  BY <1>1, JoinAssumption

(* Two clusters share no key, so a file belongs to one of them.            *)
LEMMA OtherIsForeign == OtherBundle \notin BundlesOf(OwnCertificates)
<1>. SUFFICES ASSUME OtherBundle \in BundlesOf(OwnCertificates) PROVE FALSE
  OBVIOUS
<1>1. OtherBundle[1] \in OwnCertificates /\ 1 \in DOMAIN OtherBundle
  BY RoomForOne, BundleFacts
<1>2. KeyOf[OtherBundle[1]] \in Keys(OtherBundle)
  BY <1>1 DEF Keys
<1>. QED
  BY <1>1, <1>2, JoinAssumption

LEMMA FileIsOfOne ==
  ASSUME NEW f \in BundlesOf(OwnCertificates) \cup {OtherBundle}, f # <<>>
  PROVE  /\ Keys(f) \subseteq KeysAt(Own) <=> f \in OwnBundles
         /\ Keys(f) \subseteq KeysAt(Other) <=> f = OtherBundle
<1>1. KeysAt(Own) = {KeyOf[c] : c \in OwnCertificates} /\ KeysAt(Other) = Keys(OtherBundle)
  BY JoinAssumption DEF KeysAt
<1>2. \A k \in KeysAt(Own) : k \notin KeysAt(Other)
  BY <1>1, JoinAssumption
<1>3. CASE f \in BundlesOf(OwnCertificates)
  <2>1. f \in Seq(OwnCertificates) /\ 1 \in DOMAIN f
    BY <1>3, BundleIsSequence, BundleFacts
  <2>2. \A i \in DOMAIN f : f[i] \in OwnCertificates
    BY <2>1
  <2>3. Keys(f) \subseteq KeysAt(Own) /\ KeyOf[f[1]] \in Keys(f)
    BY <1>1, <2>1, <2>2 DEF Keys
  <2>. QED
    BY <1>1, <1>2, <1>3, <2>3 DEF OwnBundles
<1>4. CASE f = OtherBundle
  <2>1. 1 \in DOMAIN OtherBundle
    BY RoomForOne
  <2>2. KeyOf[OtherBundle[1]] \in KeysAt(Other)
    BY <1>1, <2>1 DEF Keys
  <2>3. OtherBundle \notin OwnBundles
    BY OtherIsForeign DEF OwnBundles
  <2>. QED
    BY <1>1, <1>2, <1>4, <2>1, <2>2, <2>3 DEF Keys
<1>. QED
  BY <1>3, <1>4

-----------------------------------------------------------------------------
(* The beginning                                                           *)

LEMMA NoClusterIsNone == NoCluster \notin Clusters /\ NoContext \notin Contexts
BY KubeConfigAssumption DEF Clusters, Contexts

LEMMA OwnInBundles ==
  ASSUME NEW b \in BundlesOf(OwnCertificates)
  PROVE  b \in Bundles /\ b \in Seq(Certificates)
<1>1. b \in Seq(OwnCertificates) /\ Len(b) \in 0..MaxBundle
  BY BundleIsSequence
<1>2. b \in Seq(Certificates)
  BY <1>1, JoinAssumption
<1>. QED
  BY <1>1, <1>2, BundleIsSequence, JoinAssumption

LEMMA InvNext ==
  ASSUME FlagTypes', AdminTypes', LocalTypes', Entries', ContextsMatch', Rotation',
         ConfigRead', FirstRead', FileAgrees', CertsRead', CommandMade', NeverPanics'
  PROVE  Inv'
BY TypePartsNext, Zenon DEF Inv

(* An entry of the kubeconfig is one of the two clusters.                  *)
LEMMA AdminFacts ==
  ASSUME AdminTypes
  PROVE  /\ adminConf.clusters \in [ClusterNames -> Clusters \cup {NoCluster}]
         /\ adminConf.contexts \in [ContextNames -> Contexts \cup {NoContext}]
         /\ adminConf.currentContext \in ContextNames
         /\ served \in OwnBundles
         /\ caFile \in BundlesOf(OwnCertificates) \cup {OtherBundle}
BY DEF AdminTypes, Configs

LEMMA InitInv == Init => Inv
<1>. SUFFICES ASSUME Init PROVE Inv
  OBVIOUS
<1>1. PICK c \in OwnCertificates, n \in ClusterNames \ {OtherName}, u \in UserNames :
         /\ served = <<c>>
         /\ \/ /\ adminConf = CreateBasic(Own, n, u, <<c>>)
               /\ caFile = <<>>
            \/ /\ adminConf = [CreateBasic(Own, n, u, <<>>)
                                 EXCEPT !.clusters[n].ca = "file"]
               /\ caFile = <<c>>
  BY DEF Init
<1>. DEFINE Entry(ca, data) == [server |-> Own, ca |-> ca, data |-> data]
            Table(e) == [m \in ClusterNames |-> IF m = n THEN e ELSE NoCluster]
            Names == [m \in ContextNames |->
                IF m = <<u, n>> THEN [cluster |-> n, user |-> u] ELSE NoContext]
            First(table) == [clusters |-> table, contexts |-> Names,
                             currentContext |-> <<u, n>>]
<1>2. \/ adminConf = First(Table(Entry("data", <<c>>))) /\ caFile = <<>>
      \/ adminConf = First(Table(Entry("file", <<>>))) /\ caFile = <<c>>
  <2>1. \A data : CreateBasic(Own, n, u, data) = First(Table(Entry("data", data)))
    BY DEF CreateBasic
  <2>2. [First(Table(Entry("data", <<>>))) EXCEPT !.clusters[n].ca = "file"]
            = First(Table(Entry("file", <<>>)))
    <3>1. ASSUME NEW F
          PROVE  [First(F) EXCEPT !.clusters[n].ca = "file"]
                     = First([F EXCEPT ![n] = [F[n] EXCEPT !.ca = "file"]])
      <4>1. ASSUME NEW G, NEW x
            PROVE  [[clusters |-> F, contexts |-> G, currentContext |-> x]
                        EXCEPT !.clusters[n].ca = "file"]
                   = [clusters |-> [F EXCEPT ![n] = [F[n] EXCEPT !.ca = "file"]],
                      contexts |-> G, currentContext |-> x]
        OBVIOUS
      <4>. QED
        BY <4>1, Zenon
    <3>2. [Entry("data", <<>>) EXCEPT !.ca = "file"] = Entry("file", <<>>)
      OBVIOUS
    <3>3. ASSUME NEW e, NEW e2, [e EXCEPT !.ca = "file"] = e2
          PROVE  [Table(e) EXCEPT ![n] = [Table(e)[n] EXCEPT !.ca = "file"]]
                     = Table(e2)
      BY <3>3
    <3>4. [Table(Entry("data", <<>>)) EXCEPT
               ![n] = [Table(Entry("data", <<>>))[n] EXCEPT !.ca = "file"]]
              = Table(Entry("file", <<>>))
      BY <3>2, <3>3
    <3>5. [First(Table(Entry("data", <<>>))) EXCEPT !.clusters[n].ca = "file"]
              = First([Table(Entry("data", <<>>)) EXCEPT
                    ![n] = [Table(Entry("data", <<>>))[n] EXCEPT !.ca = "file"]])
      BY <3>1
    <3>. HIDE DEF First, Table, Entry
    <3>. QED
      BY <3>4, <3>5
  <2>. HIDE DEF First, Table, Entry
  <2>. QED
    BY <1>1, <2>1, <2>2
<1>3. PICK ca \in {"data", "file"}, data \in {<<>>, <<c>>} :
         /\ adminConf = First(Table(Entry(ca, data)))
         /\ IF ca = "data" THEN data = <<c>> /\ caFile = <<>>
            ELSE data = <<>> /\ caFile = <<c>>
  BY <1>2
<1>4. /\ adminConf.clusters = [m \in ClusterNames |->
            IF m = n THEN Entry(ca, data) ELSE NoCluster]
      /\ adminConf.contexts = [m \in ContextNames |->
            IF m = <<u, n>> THEN [cluster |-> n, user |-> u] ELSE NoContext]
      /\ adminConf.currentContext = <<u, n>>
  BY <1>3
<1>5. <<c>> \in OwnBundles /\ <<>> \in BundlesOf(OwnCertificates)
  <2>1. <<c>> \in Seq(OwnCertificates) /\ Len(<<c>>) \in 0..MaxBundle /\ <<c>> # <<>>
    BY RoomForOne
  <2>2. <<>> \in Seq(OwnCertificates) /\ Len(<<>>) \in 0..MaxBundle
    BY RoomForOne
  <2>. QED
    BY <2>1, <2>2, BundleIsSequence DEF OwnBundles
<1>6. Entry(ca, data) \in Clusters
  BY <1>3, <1>5, OwnInBundles, JoinAssumption DEF Clusters, OwnBundles
<1>7. FlagTypes
  BY Zenon DEF Init, FlagTypes
<1>8. AdminTypes
  <2>1. adminConf \in Configs
    BY <1>3, <1>6 DEF Configs, Contexts, ContextNames
  <2>. QED
    BY <1>1, <1>3, <1>5, <2>1 DEF AdminTypes, OwnBundles
<1>9. LocalTypes
  <2>1. <<>> \in Bundles
    BY <1>5, OwnInBundles
  <2>2. NoCommand \in Commands
    BY JoinAssumption DEF NoCommand, Commands
  <2>. QED
    BY <2>1, <2>2 DEF Init, LocalTypes
<1>10. Entries /\ Rotation
  <2>1. Certs(Entry(ca, data), caFile) = <<c>>
    BY <1>3 DEF Certs
  <2>2. OwnCluster(Entry(ca, data), caFile)
    BY <1>3, <1>5 DEF OwnCluster, OwnBundles
  <2>3. KeyOf[Head(<<c>>)] \in Keys(<<c>>)
    BY DEF Keys
  <2>4. n \in ClusterNames \ {OtherName} /\ adminConf.clusters[n] = Entry(ca, data)
    BY <1>4
  <2>5. \A m \in ClusterNames \ {n} : adminConf.clusters[m] = NoCluster
    BY <1>4
  <2>6. Entries
    BY <1>3, <1>6, <2>2, <2>4, <2>5, NoClusterIsNone DEF Entries
  <2>7. Rotation
    BY <1>1, <2>1, <2>3, <2>4, <2>5 DEF Rotation
  <2>. QED
    BY <2>6, <2>7
<1>11. ContextsMatch
  BY <1>4 DEF ContextsMatch, ContextNames
<1>12. ConfigRead /\ FirstRead /\ FileAgrees /\ CertsRead /\ CommandMade /\ NeverPanics
  BY DEF Init, ConfigRead, FirstRead, FileAgrees, CertsRead, CommandMade, NeverPanics
<1>. QED
  BY <1>7, <1>8, <1>9, <1>10, <1>11, <1>12, TypeParts DEF Inv

-----------------------------------------------------------------------------
(* The administrators                                                      *)

(* Editing the kubeconfig or the file leaves what getJoinNodeCommand knows *)
(* true.                                                                   *)
LEMMA EditKeepsLocal ==
  ASSUME Inv, UNCHANGED <<served, step, clusterConfig, caCerts, command, fresh>>,
         disagreed => disagreed',
         switched => switched',
         caFile' = caFile \/ caFile' # <<>>,
         FileAgrees',
         \A n \in ClusterNames \ {OtherName} :
             adminConf.clusters[n] # NoCluster /\ adminConf.clusters[n].ca = "file"
                 => /\ adminConf'.clusters[n] # NoCluster
                    /\ adminConf'.clusters[n].ca = "file",
         adminConf.clusters[Unnamed] = NoCluster
             => adminConf'.clusters[Unnamed] = NoCluster
  PROVE  /\ LocalTypes' /\ ConfigRead' /\ FirstRead' /\ FileAgrees' /\ CertsRead'
         /\ CommandMade' /\ NeverPanics'
<1>1. LocalTypes' /\ FirstRead' /\ NeverPanics'
  BY TypeParts DEF Inv, LocalTypes, FirstRead, NeverPanics, Keys
<1>2. ASSUME NEW cluster, OwnCluster(cluster, caFile)
      PROVE  OwnCluster(cluster, caFile')
  BY <1>2 DEF OwnCluster
<1>3. ConfigRead'
  BY <1>2 DEF Inv, ConfigRead
<1>4. CertsRead'
  BY DEF Inv, CertsRead, Keys
<1>5. CommandMade'
  BY DEF Inv, CommandMade, Keys
<1>. QED
  BY <1>1, <1>3, <1>4, <1>5

LEMMA SameFileAgrees ==
  ASSUME FileAgrees, UNCHANGED <<step, clusterConfig, disagreed, caFile>>
  PROVE  FileAgrees'
BY DEF FileAgrees, Disagrees, Keys

(* A bundle of this cluster is replaced by one that begins with a key the  *)
(* cluster has.                                                            *)
LEMMA PutBundleInv ==
  ASSUME Inv, NEW n \in OwnEntries, NEW bundle \in OwnBundles,
         CertsOf(adminConf.clusters[n]) \in OwnBundles,
         KeyOf[Head(bundle)] \in Keys(served), PutBundle(n, bundle)
  PROVE  Inv'
<1>. DEFINE F == adminConf.clusters
<1>1. /\ AdminTypes /\ Entries /\ Rotation /\ ContextsMatch
      /\ F \in [ClusterNames -> Clusters \cup {NoCluster}]
      /\ adminConf = [clusters |-> F, contexts |-> adminConf.contexts,
                      currentContext |-> adminConf.currentContext]
  BY TypeParts, AdminFacts DEF Inv, AdminTypes, Configs
<1>2. /\ n \in ClusterNames \ {OtherName}
      /\ F[n] # NoCluster /\ F[n] \in Clusters
      /\ OwnCluster(F[n], caFile)
  BY <1>1, JoinAssumption DEF OwnEntries, Entries, OtherCluster
<1>3. /\ UNCHANGED <<served, local, switched>>
      /\ bundle \in BundlesOf(OwnCertificates) /\ bundle \in Bundles /\ bundle # <<>>
  BY OwnInBundles DEF PutBundle, OwnBundles
<1>4. /\ adminConf' \in Configs
      /\ adminConf'.contexts = adminConf.contexts
      /\ adminConf'.currentContext = adminConf.currentContext
      /\ \A m \in ClusterNames \ {n} : adminConf'.clusters[m] = F[m]
      /\ adminConf'.clusters[n] \in Clusters
      /\ OwnCluster(adminConf'.clusters[n], caFile')
      /\ adminConf'.clusters[n].ca = F[n].ca
      /\ Certs(adminConf'.clusters[n], caFile') = bundle
      /\ caFile' \in {caFile, bundle}
  <2>1. CASE F[n].ca = "file"
    <3>1. caFile' = bundle /\ adminConf' = adminConf
      BY <2>1 DEF PutBundle
    <3>. QED
      BY <1>1, <1>2, <1>3, <2>1, <3>1 DEF AdminTypes, OwnCluster, Certs
  <2>2. CASE F[n].ca = "data"
    <3>1. /\ caFile' = caFile
          /\ adminConf' = [adminConf EXCEPT !.clusters[n].data = bundle]
      BY <2>2 DEF PutBundle
    <3>2. ASSUME NEW G, NEW x
          PROVE  [[clusters |-> F, contexts |-> G, currentContext |-> x]
                      EXCEPT !.clusters[n].data = bundle]
                 = [clusters |-> [F EXCEPT ![n] = [F[n] EXCEPT !.data = bundle]],
                    contexts |-> G, currentContext |-> x]
      OBVIOUS
    <3>3. adminConf' =
            [clusters |-> [F EXCEPT ![n] = [F[n] EXCEPT !.data = bundle]],
             contexts |-> adminConf.contexts,
             currentContext |-> adminConf.currentContext]
      BY <1>1, <3>1, <3>2, Zenon
    <3>4. /\ [F[n] EXCEPT !.data = bundle] \in Clusters
          /\ [F[n] EXCEPT !.data = bundle].server = F[n].server
          /\ [F[n] EXCEPT !.data = bundle].ca = F[n].ca
          /\ [F[n] EXCEPT !.data = bundle].data = bundle
      BY <1>2, <1>3 DEF Clusters
    <3>5. /\ adminConf'.clusters = [F EXCEPT ![n] = [F[n] EXCEPT !.data = bundle]]
          /\ adminConf'.contexts = adminConf.contexts
          /\ adminConf'.currentContext = adminConf.currentContext
      BY <3>3
    <3>6. /\ adminConf'.clusters[n] = [F[n] EXCEPT !.data = bundle]
          /\ \A m \in ClusterNames \ {n} : adminConf'.clusters[m] = F[m]
          /\ adminConf'.clusters \in [ClusterNames -> Clusters \cup {NoCluster}]
      BY <1>1, <1>2, <3>4, <3>5
    <3>7. adminConf' \in Configs
      BY <1>1, <3>3, <3>5, <3>6, AdminFacts DEF Configs
    <3>8. OwnCluster(adminConf'.clusters[n], caFile')
      BY <1>2, <2>2, <3>1, <3>4, <3>6 DEF OwnCluster
    <3>. QED
      BY <2>2, <3>1, <3>4, <3>5, <3>6, <3>7, <3>8 DEF Certs
  <2>. QED
    BY <1>2, <2>1, <2>2 DEF OwnCluster
<1>5. AdminTypes' /\ FlagTypes'
  <2>1. AdminTypes'
    BY <1>1, <1>3, <1>4 DEF AdminTypes
  <2>2. FlagTypes'
    BY <1>3, TypeParts, Zenon DEF Inv, FlagTypes, local
  <2>. QED
    BY <2>1, <2>2
<1>6. adminConf'.clusters[n] # NoCluster
  BY <1>4, NoClusterIsNone
<1>7. ASSUME NEW m \in ClusterNames \ {OtherName}, F[m] # NoCluster
      PROVE  /\ adminConf'.clusters[m] # NoCluster
             /\ adminConf'.clusters[m].ca = F[m].ca
             /\ OwnCluster(adminConf'.clusters[m], caFile')
             /\ \/ KeyOf[Head(Certs(adminConf'.clusters[m], caFile'))] \in Keys(served)
                \/ adminConf'.clusters[m].ca = "file" /\ caFile' = OtherBundle
  <2>1. CASE m = n
    BY <1>4, <1>6, <2>1
  <2>2. CASE m # n
    <3>1. adminConf'.clusters[m] = F[m]
      BY <1>4, <2>2
    <3>2. /\ OwnCluster(F[m], caFile)
          /\ \/ KeyOf[Head(Certs(F[m], caFile))] \in Keys(served)
             \/ F[m].ca = "file" /\ caFile = OtherBundle
      BY <1>1, <1>7 DEF Entries, Rotation
    <3>3. CASE caFile' = bundle /\ F[m].ca = "file"
      <4>1. Certs(F[m], caFile') = bundle
        BY <3>3 DEF Certs
      <4>. QED
        BY <1>3, <1>7, <3>1, <3>2, <3>3, <4>1 DEF OwnCluster
    <3>4. CASE F[m].ca # "file"
      <4>1. Certs(F[m], caFile') = Certs(F[m], caFile)
        BY <3>4 DEF Certs
      <4>. QED
        BY <1>7, <3>1, <3>2, <3>4, <4>1 DEF OwnCluster
    <3>5. CASE caFile' = caFile
      BY <1>7, <3>1, <3>2, <3>5
    <3>. QED
      BY <1>4, <3>3, <3>4, <3>5
  <2>. QED
    BY <2>1, <2>2
<1>8. Entries'
  <2>1. \A m \in ClusterNames : adminConf'.clusters[m] # NoCluster => F[m] # NoCluster
    BY <1>2, <1>4
  <2>2. OtherName \in ClusterNames /\ adminConf'.clusters[OtherName] = F[OtherName]
    BY <1>2, <1>4, JoinAssumption
  <2>. QED
    BY <1>1, <1>7, <2>1, <2>2 DEF Entries
<1>9. Rotation'
  <2>1. \A m \in ClusterNames : adminConf'.clusters[m] # NoCluster => F[m] # NoCluster
    BY <1>2, <1>4
  <2>2. served' = served
    BY <1>3
  <2>. QED
    BY <1>7, <2>1, <2>2 DEF Rotation, Keys
<1>10. ContextsMatch'
  BY <1>1, <1>3, <1>4 DEF ContextsMatch
<1>11. F[Unnamed] = NoCluster => adminConf'.clusters[Unnamed] = NoCluster
  BY <1>2, <1>4, KubeConfigAssumption
<1>12. FileAgrees'
  <2>1. UNCHANGED <<step, clusterConfig, disagreed>>
    BY <1>3 DEF local
  <2>2. CASE caFile' = caFile
    BY <2>1, <2>2, SameFileAgrees DEF Inv
  <2>3. CASE caFile' # caFile
    <3>1. F[n].ca = "file" /\ caFile' = bundle /\ caFile \in OwnBundles
      BY <2>3 DEF PutBundle, CertsOf
    <3>2. /\ Keys(caFile) \subseteq KeysAt(Own) /\ Keys(bundle) \subseteq KeysAt(Own)
          /\ ~ (Keys(caFile) \subseteq KeysAt(Other))
      <4>1. caFile # OtherBundle
        BY <3>1, OtherIsForeign DEF OwnBundles
      <4>. QED
        BY <3>1, <4>1, FileIsOfOne DEF OwnBundles
    <3>3. step = "certs" => clusterConfig.server \in {Own, Other}
      BY DEF Inv, ConfigRead, OwnCluster, OtherCluster
    <3>. HIDE DEF Keys, KeysAt
    <3>. QED
      BY <2>1, <3>1, <3>2, <3>3 DEF Inv, FileAgrees, Disagrees
  <2>. QED
    BY <2>2, <2>3
<1>13. /\ LocalTypes' /\ ConfigRead' /\ FirstRead' /\ CertsRead' /\ CommandMade'
       /\ NeverPanics'
  <2>1. \A m \in ClusterNames \ {OtherName} : F[m] # NoCluster /\ F[m].ca = "file"
            => adminConf'.clusters[m] # NoCluster /\ adminConf'.clusters[m].ca = "file"
    BY <1>7
  <2>2. UNCHANGED <<served, step, clusterConfig, caCerts, command, fresh, disagreed, switched>>
    BY <1>3 DEF local
  <2>. QED
    BY <1>3, <1>4, <1>11, <1>12, <2>1, <2>2, EditKeepsLocal
<1>. QED
  BY <1>5, <1>8, <1>9, <1>10, <1>12, <1>13, InvNext

(* The new CA is appended; the old one goes when the cluster has the next. *)
LEMMA RotateConfigInv ==
  Inv /\ (\E n \in OwnEntries : DistrustCA(n) \/ \E c \in OwnCertificates : TrustCA(n, c))
    => Inv'
<1>. SUFFICES ASSUME Inv, NEW n \in OwnEntries,
                     DistrustCA(n) \/ \E c \in OwnCertificates : TrustCA(n, c)
              PROVE  Inv'
  OBVIOUS
<1>. DEFINE bundle == CertsOf(adminConf.clusters[n])
<1>1. /\ AdminTypes
      /\ n \in ClusterNames \ {OtherName} /\ adminConf.clusters[n] # NoCluster
      /\ OwnCluster(adminConf.clusters[n], caFile)
      /\ bundle = Certs(adminConf.clusters[n], caFile)
      /\ \/ KeyOf[Head(bundle)] \in Keys(served)
         \/ adminConf.clusters[n].ca = "file" /\ caFile = OtherBundle
  BY TypeParts, JoinAssumption
  DEF Inv, Entries, Rotation, OwnEntries, OtherCluster, Certs, CertsOf
<1>2. /\ bundle # <<>>
      /\ bundle \in BundlesOf(OwnCertificates) \cup {OtherBundle}
      /\ bundle = OtherBundle \/ KeyOf[Head(bundle)] \in Keys(served)
  BY <1>1 DEF OwnCluster, Certs, AdminTypes, OwnBundles
<1>3. CASE DistrustCA(n)
  <2>1. /\ Tail(bundle) # <<>> /\ KeyOf[Head(Tail(bundle))] \in Keys(served)
        /\ PutBundle(n, Tail(bundle))
    BY <1>3 DEF DistrustCA
  <2>. HIDE DEF bundle
  <2>2. bundle \in OwnBundles
    <3>1. ASSUME bundle = OtherBundle PROVE FALSE
      <4>1. /\ OtherBundle \in Seq(Certificates) /\ Len(OtherBundle) \in Nat \ {0, 1}
            /\ Head(Tail(OtherBundle)) = OtherBundle[2] /\ 2 \in DOMAIN OtherBundle
        BY <2>1, <3>1, RoomForOne
      <4>2. KeyOf[OtherBundle[2]] \in Keys(OtherBundle) /\ KeyOf[OtherBundle[2]] \in Keys(served)
        BY <2>1, <3>1, <4>1 DEF Keys
      <4>3. served \in BundlesOf(OwnCertificates) \cup {OtherBundle} /\ served \in OwnBundles
        BY <1>1 DEF AdminTypes, OwnBundles
      <4>4. Keys(served) \subseteq KeysAt(Own)
        BY <4>3, FileIsOfOne DEF OwnBundles
      <4>5. PICK c \in OwnCertificates : KeyOf[c] = KeyOf[OtherBundle[2]]
        BY <4>2, <4>4 DEF KeysAt
      <4>. QED
        BY <4>2, <4>5, JoinAssumption
    <3>. QED
      BY <1>2, <3>1 DEF OwnBundles
  <2>3. Tail(bundle) \in OwnBundles
    BY <2>1, <2>2, BundleFacts DEF OwnBundles
  <2>4. CertsOf(adminConf.clusters[n]) \in OwnBundles
    BY <2>2 DEF bundle
  <2>. QED
    BY <2>1, <2>3, <2>4, PutBundleInv
<1>4. ASSUME NEW c \in OwnCertificates, TrustCA(n, c)
      PROVE  Inv'
  <2>1. /\ bundle \in BundlesOf(OwnCertificates)
        /\ Len(bundle) < MaxBundle /\ PutBundle(n, Append(bundle, c))
    BY <1>4 DEF TrustCA
  <2>2. CertsOf(adminConf.clusters[n]) \in OwnBundles
    BY <1>2, <2>1 DEF OwnBundles
  <2>. HIDE DEF bundle
  <2>3. /\ Append(bundle, c) \in OwnBundles
        /\ Append(bundle, c)[1] = bundle[1] /\ Head(bundle) = bundle[1]
    BY <1>2, <2>1, BundleFacts DEF OwnBundles
  <2>4. Head(Append(bundle, c)) = Head(bundle)
    BY <2>3, BundleFacts DEF OwnBundles
  <2>5. KeyOf[Head(bundle)] \in Keys(served)
    <3>1. bundle # OtherBundle
      BY <2>1, OtherIsForeign
    <3>. QED
      BY <1>2, <3>1
  <2>. QED
    BY <2>1, <2>2, <2>3, <2>4, <2>5, PutBundleInv
<1>. QED
  BY <1>3, <1>4

(* The file changes hands; who has read that the file is of this cluster,  *)
(* or of the other one, has disagreed set.                                 *)
LEMMA ReplaceFileInv ==
  ASSUME Inv, NEW bundle \in BundlesOf(OwnCertificates) \cup {OtherBundle},
         ReplaceFile(bundle)
  PROVE  Inv'
<1>1. /\ AdminTypes /\ FlagTypes /\ Entries /\ Rotation /\ ContextsMatch
  BY TypeParts DEF Inv
<1>2. /\ bundle # <<>> /\ caFile' = bundle
      /\ bundle = OtherBundle \/ KeyOf[Head(bundle)] \in Keys(served)
      /\ UNCHANGED <<served, adminConf, step, clusterConfig, caCerts, command, fresh,
                     switched>>
  BY DEF ReplaceFile
<1>3. disagreed' = (disagreed \/ (step = "certs" /\ Disagrees(clusterConfig, bundle)))
  BY DEF ReplaceFile
<1>4. /\ disagreed' \in BOOLEAN
      /\ disagreed => disagreed'
      /\ step = "certs" /\ ~ disagreed' => ~ Disagrees(clusterConfig, bundle)
  <2>1. disagreed' = TRUE \/ disagreed' = FALSE
    BY <1>3 DEF Disagrees
  <2>. QED
    BY <1>3, <2>1, Zenon
<1>5. AdminTypes'
  BY <1>1, <1>2 DEF AdminTypes
<1>6. FlagTypes'
  BY <1>1, <1>2, <1>4, Zenon DEF FlagTypes
<1>7. Entries' /\ ContextsMatch'
  BY <1>1, <1>2 DEF Entries, ContextsMatch, OwnCluster
<1>8. Rotation'
  <2>1. ASSUME NEW n \in ClusterNames \ {OtherName}, adminConf.clusters[n] # NoCluster
        PROVE  \/ KeyOf[Head(Certs(adminConf.clusters[n], bundle))] \in Keys(served)
               \/ adminConf.clusters[n].ca = "file" /\ bundle = OtherBundle
    <3>1. CASE adminConf.clusters[n].ca = "file"
      BY <1>2, <3>1 DEF Certs
    <3>2. CASE adminConf.clusters[n].ca # "file"
      <4>1. Certs(adminConf.clusters[n], bundle) = Certs(adminConf.clusters[n], caFile)
        BY <3>2 DEF Certs
      <4>. QED
        BY <1>1, <2>1, <3>2, <4>1 DEF Rotation
    <3>. QED
      BY <3>1, <3>2
  <2>. QED
    BY <1>2, <2>1 DEF Rotation, Keys
<1>9. FileAgrees'
  BY <1>2, <1>4 DEF FileAgrees, Disagrees, Keys
<1>10. /\ LocalTypes' /\ ConfigRead' /\ FirstRead' /\ CertsRead' /\ CommandMade'
       /\ NeverPanics'
  BY <1>2, <1>4, <1>9, EditKeepsLocal
<1>. QED
  BY <1>5, <1>6, <1>7, <1>8, <1>9, <1>10, InvNext

(* Another cluster comes with a context of its own, and with nothing that  *)
(* the controller has read.                                                *)
LEMMA AddOtherInv == ASSUME Inv, NEW u \in UserNames, AddOther(u) PROVE Inv'
<1>. DEFINE F == adminConf.clusters
            G == adminConf.contexts
            x == adminConf.currentContext
<1>1. /\ AdminTypes /\ Entries /\ Rotation /\ ContextsMatch
      /\ F \in [ClusterNames -> Clusters \cup {NoCluster}]
      /\ G \in [ContextNames -> Contexts \cup {NoContext}]
      /\ x \in ContextNames
      /\ adminConf = [clusters |-> F, contexts |-> G, currentContext |-> x]
  BY TypeParts, AdminFacts DEF Inv, AdminTypes, Configs
<1>2. PICK cluster \in [server : {Other}, ca : {"data", "file", "none"},
                        data : {OtherBundle, <<>>}] :
         adminConf' = [adminConf EXCEPT
                          !.clusters[OtherName] = cluster,
                          !.contexts[<<u, OtherName>>] =
                              [cluster |-> OtherName, user |-> u]]
  BY DEF AddOther
<1>3. /\ UNCHANGED <<served, caFile, local, switched>>
      /\ OtherName \in ClusterNames /\ OtherName # Unnamed
      /\ <<u, OtherName>> \in ContextNames
  BY JoinAssumption DEF AddOther, ContextNames
<1>4. /\ adminConf'.clusters = [F EXCEPT ![OtherName] = cluster]
      /\ adminConf'.contexts =
             [G EXCEPT ![<<u, OtherName>>] = [cluster |-> OtherName, user |-> u]]
      /\ adminConf'.currentContext = x
      /\ adminConf' = [clusters |-> adminConf'.clusters,
                       contexts |-> adminConf'.contexts, currentContext |-> x]
  <2>1. ASSUME NEW A, NEW B, NEW y, NEW n, NEW m, NEW a, NEW b
        PROVE  [[clusters |-> A, contexts |-> B, currentContext |-> y]
                    EXCEPT !.clusters[n] = a, !.contexts[m] = b]
               = [clusters |-> [A EXCEPT ![n] = a], contexts |-> [B EXCEPT ![m] = b],
                  currentContext |-> y]
    <3>1. ASSUME NEW r
          PROVE  [r EXCEPT !.clusters[n] = a, !.contexts[m] = b]
                     = [[r EXCEPT !.clusters[n] = a] EXCEPT !.contexts[m] = b]
      OBVIOUS
    <3>2. ASSUME NEW A1
          PROVE  [[clusters |-> A1, contexts |-> B, currentContext |-> y]
                      EXCEPT !.contexts[m] = b]
                 = [clusters |-> A1, contexts |-> [B EXCEPT ![m] = b],
                    currentContext |-> y]
      OBVIOUS
    <3>3. [[clusters |-> A, contexts |-> B, currentContext |-> y]
               EXCEPT !.clusters[n] = a]
          = [clusters |-> [A EXCEPT ![n] = a], contexts |-> B, currentContext |-> y]
      OBVIOUS
    <3>. QED
      BY <3>1, <3>2, <3>3, Zenon
  <2>2. adminConf' = [clusters |-> [F EXCEPT ![OtherName] = cluster],
                      contexts |-> [G EXCEPT ![<<u, OtherName>>] =
                                       [cluster |-> OtherName, user |-> u]],
                      currentContext |-> x]
    BY <1>1, <1>2, <2>1, Zenon
  <2>. QED
    BY <2>2
<1>5. cluster \in Clusters /\ OtherCluster(cluster)
  <2>1. <<>> \in Bundles /\ OtherBundle \in Bundles
    <3>1. <<>> \in Seq(Certificates) /\ Len(<<>>) \in 0..MaxBundle
      BY RoomForOne
    <3>. QED
      BY <3>1, BundleIsSequence, JoinAssumption
  <2>. QED
    BY <2>1, JoinAssumption DEF Clusters, OtherCluster
<1>6. AdminTypes' /\ FlagTypes'
  <2>1. [cluster |-> OtherName, user |-> u] \in Contexts
    BY <1>3 DEF Contexts
  <2>2. adminConf' \in Configs
    BY <1>1, <1>4, <1>5, <2>1 DEF Configs
  <2>3. FlagTypes'
    BY <1>3, TypeParts, Zenon DEF Inv, FlagTypes, local
  <2>. QED
    BY <1>1, <1>3, <2>2, <2>3 DEF AdminTypes
<1>7. /\ adminConf'.clusters[OtherName] = cluster
      /\ \A n \in ClusterNames \ {OtherName} : adminConf'.clusters[n] = F[n]
  BY <1>1, <1>3, <1>4
<1>8. Entries'
  BY <1>1, <1>3, <1>5, <1>7 DEF Entries
<1>9. Rotation'
  BY <1>1, <1>3, <1>7 DEF Rotation, Keys
<1>10. ContextsMatch'
  <2>1. ASSUME NEW name \in ContextNames, adminConf'.contexts[name] # NoContext
        PROVE  adminConf'.contexts[name].cluster = name[2]
    <3>1. CASE name = <<u, OtherName>>
      BY <1>1, <1>3, <1>4, <3>1
    <3>2. CASE name # <<u, OtherName>>
      BY <1>1, <1>3, <1>4, <2>1, <3>2 DEF ContextsMatch
    <3>. QED
      BY <3>1, <3>2
  <2>. QED
    BY <1>1, <1>3, <1>4, <2>1 DEF ContextsMatch
<1>11. /\ LocalTypes' /\ ConfigRead' /\ FirstRead' /\ FileAgrees' /\ CertsRead'
       /\ CommandMade' /\ NeverPanics'
  <2>1. Unnamed \in ClusterNames
    BY KubeConfigAssumption
  <2>2. F[Unnamed] = NoCluster => adminConf'.clusters[Unnamed] = NoCluster
    BY <1>3, <1>7, <2>1
  <2>. QED
    BY <1>3, <1>7, <2>2, EditKeepsLocal, SameFileAgrees DEF Inv, local
<1>. QED
  BY <1>6, <1>8, <1>9, <1>10, <1>11, InvNext

LEMMA UseContextInv ==
  ASSUME Inv, NEW name \in ContextNames, UseContext(name) PROVE Inv'
<1>. DEFINE F == adminConf.clusters
            G == adminConf.contexts
            x == adminConf.currentContext
<1>1. /\ AdminTypes /\ Entries /\ Rotation /\ ContextsMatch /\ FlagTypes
      /\ adminConf = [clusters |-> F, contexts |-> G, currentContext |-> x]
  BY TypeParts, AdminFacts DEF Inv, AdminTypes, Configs
<1>2. /\ G[name] # NoContext
      /\ UNCHANGED <<served, caFile, local>>
      /\ switched' = (switched \/ G[name].cluster = OtherName)
  BY DEF UseContext
<1>3. /\ adminConf'.clusters = F /\ adminConf'.contexts = G
      /\ adminConf'.currentContext = name
      /\ adminConf' = [clusters |-> F, contexts |-> G, currentContext |-> name]
  <2>1. adminConf' = [adminConf EXCEPT !.currentContext = name]
    BY DEF UseContext
  <2>2. ASSUME NEW A, NEW B, NEW y, NEW n
        PROVE  [[clusters |-> A, contexts |-> B, currentContext |-> y]
                    EXCEPT !.currentContext = n]
               = [clusters |-> A, contexts |-> B, currentContext |-> n]
    OBVIOUS
  <2>3. adminConf' = [clusters |-> F, contexts |-> G, currentContext |-> name]
    BY <1>1, <2>1, <2>2, Zenon
  <2>. QED
    BY <2>3
<1>4. AdminTypes'
  <2>1. adminConf' \in Configs
    BY <1>1, <1>3, AdminFacts DEF Configs
  <2>. QED
    BY <1>1, <1>2, <2>1 DEF AdminTypes
<1>5. FlagTypes'
  BY <1>1, <1>2, Zenon DEF FlagTypes, local
<1>6. Entries' /\ Rotation'
  BY <1>1, <1>2, <1>3 DEF Entries, Rotation, Keys
<1>7. ContextsMatch'
  BY <1>1, <1>2, <1>3 DEF ContextsMatch
<1>8. /\ LocalTypes' /\ ConfigRead' /\ FirstRead' /\ FileAgrees' /\ CertsRead'
      /\ CommandMade' /\ NeverPanics'
  BY <1>2, <1>3, EditKeepsLocal, SameFileAgrees DEF Inv, local
<1>. QED
  BY <1>4, <1>5, <1>6, <1>7, <1>8, InvNext

LEMMA DeleteOtherInv == Inv /\ DeleteOther => Inv'
<1>. SUFFICES ASSUME Inv, DeleteOther PROVE Inv'
  OBVIOUS
<1>. DEFINE F == adminConf.clusters
            G == adminConf.contexts
            x == adminConf.currentContext
<1>1. /\ AdminTypes /\ Entries /\ Rotation /\ ContextsMatch /\ FlagTypes
      /\ F \in [ClusterNames -> Clusters \cup {NoCluster}]
      /\ adminConf = [clusters |-> F, contexts |-> G, currentContext |-> x]
  BY TypeParts, AdminFacts DEF Inv, AdminTypes, Configs
<1>2. /\ UNCHANGED <<served, caFile, local, switched>>
      /\ OtherName \in ClusterNames /\ OtherName # Unnamed
  BY JoinAssumption DEF DeleteOther
<1>3. /\ adminConf'.clusters = [F EXCEPT ![OtherName] = NoCluster]
      /\ adminConf'.contexts = G /\ adminConf'.currentContext = x
      /\ adminConf' = [clusters |-> adminConf'.clusters, contexts |-> G,
                       currentContext |-> x]
  <2>1. adminConf' = [adminConf EXCEPT !.clusters[OtherName] = NoCluster]
    BY DEF DeleteOther
  <2>2. ASSUME NEW A, NEW B, NEW y, NEW n, NEW a
        PROVE  [[clusters |-> A, contexts |-> B, currentContext |-> y]
                    EXCEPT !.clusters[n] = a]
               = [clusters |-> [A EXCEPT ![n] = a], contexts |-> B,
                  currentContext |-> y]
    OBVIOUS
  <2>3. adminConf' = [clusters |-> [F EXCEPT ![OtherName] = NoCluster],
                      contexts |-> G, currentContext |-> x]
    BY <1>1, <2>1, <2>2, Zenon
  <2>. QED
    BY <2>3
<1>4. /\ adminConf'.clusters[OtherName] = NoCluster
      /\ \A n \in ClusterNames \ {OtherName} : adminConf'.clusters[n] = F[n]
  BY <1>1, <1>2, <1>3
<1>5. AdminTypes'
  <2>1. adminConf' \in Configs
    BY <1>1, <1>3, AdminFacts DEF Configs
  <2>. QED
    BY <1>1, <1>2, <2>1 DEF AdminTypes
<1>6. FlagTypes'
  BY <1>1, <1>2, Zenon DEF FlagTypes, local
<1>7. Entries' /\ Rotation'
  BY <1>1, <1>2, <1>4 DEF Entries, Rotation, Keys
<1>8. ContextsMatch'
  BY <1>1, <1>2, <1>3 DEF ContextsMatch
<1>9. /\ LocalTypes' /\ ConfigRead' /\ FirstRead' /\ FileAgrees' /\ CertsRead'
      /\ CommandMade' /\ NeverPanics'
  <2>1. Unnamed \in ClusterNames
    BY KubeConfigAssumption
  <2>2. F[Unnamed] = NoCluster => adminConf'.clusters[Unnamed] = NoCluster
    BY <1>2, <1>4, <2>1
  <2>. QED
    BY <1>2, <1>4, <2>2, EditKeepsLocal, SameFileAgrees DEF Inv, local
<1>. QED
  BY <1>5, <1>6, <1>7, <1>8, <1>9, InvNext

(* The cluster serves one more CA: no key is lost.                         *)
LEMMA ServeCAInv == ASSUME Inv, NEW c \in OwnCertificates, ServeCA(c) PROVE Inv'
<1>1. /\ FlagTypes /\ AdminTypes /\ LocalTypes
      /\ served \in BundlesOf(OwnCertificates) /\ served # <<>>
      /\ served \in Seq(OwnCertificates)
  BY TypeParts, BundleIsSequence DEF Inv, AdminTypes, OwnBundles
<1>2. /\ Len(served) < MaxBundle /\ served' = Append(served, c)
      /\ UNCHANGED <<adminConf, caFile, local, switched>>
  BY DEF ServeCA
<1>3. served' \in OwnBundles
  BY <1>1, <1>2, BundleFacts DEF OwnBundles
<1>4. Keys(served) \subseteq Keys(served')
  BY <1>1, <1>2, KeysAppend
<1>5. AdminTypes'
  BY <1>1, <1>2, <1>3 DEF AdminTypes
<1>6. FlagTypes'
  BY <1>1, <1>2, Zenon DEF FlagTypes, local
<1>7. LocalTypes' /\ NeverPanics'
  BY <1>1, <1>2 DEF Inv, LocalTypes, NeverPanics, local
<1>8. Entries' /\ ContextsMatch' /\ ConfigRead'
  BY <1>2 DEF Inv, Entries, ContextsMatch, ConfigRead, local
<1>. HIDE DEF Keys
<1>9. Rotation'
  BY <1>2, <1>4 DEF Inv, Rotation
<1>10. FirstRead' /\ CertsRead' /\ FileAgrees'
  BY <1>2, <1>4, SameFileAgrees DEF Inv, FirstRead, CertsRead, local
<1>11. CommandMade'
  BY <1>2, <1>4 DEF Inv, CommandMade, local
<1>. QED
  BY <1>5, <1>6, <1>7, <1>8, <1>9, <1>10, <1>11, InvNext

(* It drops one: what was read before may be refused from now on.          *)
LEMMA RetireCAInv == Inv /\ RetireCA => Inv'
<1>. SUFFICES ASSUME Inv, RetireCA PROVE Inv'
  OBVIOUS
<1>1. /\ FlagTypes /\ AdminTypes /\ LocalTypes
      /\ served \in BundlesOf(OwnCertificates) /\ served # <<>>
  BY TypeParts DEF Inv, AdminTypes, OwnBundles
<1>2. /\ Len(served) > 1 /\ served' = Tail(served)
      /\ fresh' = FALSE
      /\ UNCHANGED <<adminConf, caFile, step, clusterConfig, caCerts, command, disagreed,
                     switched>>
  BY DEF RetireCA
<1>3. served' \in OwnBundles
  <2>1. Tail(served) \in BundlesOf(OwnCertificates)
    BY <1>1, BundleFacts
  <2>2. served \in Seq(OwnCertificates)
    BY <1>1, BundleIsSequence
  <2>3. Tail(served) # <<>>
    BY <1>2, <2>2
  <2>. QED
    BY <1>2, <2>1, <2>3 DEF OwnBundles
<1>4. AdminTypes'
  BY <1>1, <1>2, <1>3 DEF AdminTypes
<1>5. FlagTypes'
  BY <1>1, <1>2, Zenon DEF FlagTypes
<1>6. LocalTypes' /\ NeverPanics'
  BY <1>1, <1>2 DEF Inv, LocalTypes, NeverPanics
<1>7. Entries' /\ ContextsMatch' /\ ConfigRead'
  BY <1>2 DEF Inv, Entries, ContextsMatch, ConfigRead
<1>8. Rotation'
  <2>1. ASSUME NEW n \in ClusterNames \ {OtherName}, adminConf.clusters[n] # NoCluster
        PROVE  KeyOf[Head(CertsOf(adminConf.clusters[n]))] \in Keys(Tail(served))
    <3>1. n \in OwnEntries
      BY <2>1 DEF Inv, Entries, OwnCluster, OwnEntries
    <3>. QED
      BY <3>1 DEF RetireCA
  <2>. QED
    BY <1>2, <2>1 DEF Rotation, CertsOf, Certs, Keys
<1>9. FirstRead' /\ CertsRead' /\ CommandMade' /\ FileAgrees'
  BY <1>2, SameFileAgrees DEF Inv, FirstRead, CertsRead, CommandMade
<1>. QED
  BY <1>4, <1>5, <1>6, <1>7, <1>8, <1>9, InvNext

-----------------------------------------------------------------------------
(* getJoinNodeCommand and the machine                                      *)

(* A step of getJoinNodeCommand leaves the administrators' state alone.    *)
LEMMA LocalKeepsAdmin ==
  ASSUME Inv, UNCHANGED <<served, adminConf, caFile, switched>>
  PROVE  /\ AdminTypes' /\ Entries' /\ ContextsMatch' /\ Rotation'
         /\ fresh' \in BOOLEAN /\ disagreed' \in BOOLEAN => FlagTypes'
<1>1. AdminTypes' /\ Entries' /\ ContextsMatch' /\ Rotation'
  BY TypeParts DEF Inv, AdminTypes, Entries, ContextsMatch, Rotation, Keys
<1>2. fresh' \in BOOLEAN /\ disagreed' \in BOOLEAN => FlagTypes'
  BY TypeParts, Zenon DEF Inv, FlagTypes
<1>. QED
  BY <1>1, <1>2

(* The default cluster is the other one only after it was made current, and*)
(* while this one has a name.                                              *)
LEMMA LoadConfigInv == Inv /\ LoadConfig => Inv'
<1>. SUFFICES ASSUME Inv, LoadConfig PROVE Inv'
  OBVIOUS
<1>. DEFINE F == adminConf.clusters
            context == adminConf.contexts[adminConf.currentContext]
<1>1. /\ FlagTypes /\ AdminTypes /\ LocalTypes /\ Entries /\ ContextsMatch /\ Rotation
      /\ F \in [ClusterNames -> Clusters \cup {NoCluster}]
      /\ adminConf.contexts \in [ContextNames -> Contexts \cup {NoContext}]
      /\ adminConf.currentContext \in ContextNames
  BY TypeParts, AdminFacts DEF Inv
<1>2. /\ clusterConfig' = GetClusterFromKubeConfig(adminConf)
      /\ clusterConfig' # NoCluster
      /\ step' = "certs" /\ fresh' = TRUE
      /\ disagreed' = Disagrees(clusterConfig', caFile)
      /\ UNCHANGED <<served, adminConf, caFile, caCerts, command, switched>>
  BY DEF LoadConfig
<1>3. Unnamed \in ClusterNames \ {OtherName}
  BY JoinAssumption, KubeConfigAssumption
<1>4. PICK m \in ClusterNames :
         /\ clusterConfig' = F[m]
         /\ m = OtherName => switched /\ F[Unnamed] = NoCluster
  <2>1. CASE F[Unnamed] # NoCluster
    BY <1>2, <1>3, <2>1 DEF GetClusterFromKubeConfig
  <2>2. CASE F[Unnamed] = NoCluster
    <3>1. context # NoContext /\ clusterConfig' = F[context.cluster]
      BY <1>2, <2>2 DEF GetClusterFromKubeConfig
    <3>2. /\ context.cluster \in ClusterNames
          /\ context.cluster = adminConf.currentContext[2]
      BY <1>1, <3>1 DEF Contexts, ContextsMatch
    <3>3. context.cluster = OtherName => switched
      BY <1>1, <3>2 DEF ContextsMatch
    <3>. QED
      BY <2>2, <3>1, <3>2, <3>3
  <2>. QED
    BY <2>1, <2>2
<1>5. clusterConfig' \in Clusters /\ F[m] # NoCluster
  BY <1>1, <1>2, <1>4
<1>6. ConfigRead'
  <2>1. CASE m = OtherName
    <3>1. OtherCluster(clusterConfig') /\ switched' /\ adminConf'.clusters[Unnamed] = NoCluster
      BY <1>1, <1>2, <1>4, <1>5, <2>1 DEF Entries
    <3>. QED
      BY <1>2, <1>5, <3>1 DEF ConfigRead
  <2>2. CASE m # OtherName
    <3>1. OwnCluster(clusterConfig', caFile')
      BY <1>1, <1>2, <1>4, <1>5, <2>2 DEF Entries
    <3>2. clusterConfig'.server # Other
      BY <3>1, JoinAssumption DEF OwnCluster
    <3>3. m \in ClusterNames \ {OtherName} /\ adminConf'.clusters[m] = clusterConfig'
              /\ adminConf'.clusters[m] # NoCluster
      BY <1>2, <1>4, <1>5, <2>2
    <3>. QED
      BY <1>2, <1>5, <3>1, <3>2, <3>3 DEF ConfigRead
  <2>. QED
    BY <2>1, <2>2
<1>7. FirstRead'
  <2>. SUFFICES ASSUME clusterConfig'.server = Own, clusterConfig'.ca = "data"
                PROVE  KeyOf[Head(clusterConfig'.data)] \in Keys(served)
    BY <1>2 DEF FirstRead, Keys
  <2>1. m # OtherName
    BY <1>1, <1>4, <1>5, JoinAssumption DEF Entries, OtherCluster
  <2>2. Certs(F[m], caFile) = clusterConfig'.data
    BY <1>4 DEF Certs
  <2>. QED
    BY <1>1, <1>4, <1>5, <2>1, <2>2 DEF Rotation
<1>8. LocalTypes' /\ CertsRead' /\ CommandMade' /\ NeverPanics'
  BY <1>1, <1>2, <1>5 DEF LocalTypes, CertsRead, CommandMade, NeverPanics
<1>9. fresh' \in BOOLEAN /\ disagreed' \in BOOLEAN
  <2>1. disagreed' = TRUE \/ disagreed' = FALSE
    BY <1>2 DEF Disagrees
  <2>. QED
    BY <1>2, <2>1, Zenon
<1>10. FileAgrees'
  <2>1. ~ disagreed' => ~ Disagrees(clusterConfig', caFile')
    <3>1. Disagrees(clusterConfig', caFile') = Disagrees(clusterConfig', caFile)
      BY <1>2
    <3>. QED
      BY <1>2, <3>1, Zenon
  <2>2. Disagrees(clusterConfig, caFile)' <=> Disagrees(clusterConfig', caFile')
    BY DEF Disagrees, Keys
  <2>. QED
    BY <2>1, <2>2, Zenon DEF FileAgrees
<1>. QED
  BY <1>2, <1>6, <1>7, <1>8, <1>9, <1>10, LocalKeepsAdmin, InvNext

(* What is read of this cluster begins with a key that it has; there is at *)
(* least one certificate.                                                  *)
LEMMA LoadCertsInv == Inv /\ LoadCerts => Inv'
<1>. SUFFICES ASSUME Inv, LoadCerts PROVE Inv'
  OBVIOUS
<1>1. /\ FlagTypes /\ AdminTypes /\ LocalTypes /\ Entries /\ Rotation
  BY TypeParts DEF Inv
<1>2. /\ step = "certs" /\ step' = "render"
      /\ clusterConfig.ca # "none"
      /\ caCerts' = Certs(clusterConfig, caFile) /\ caCerts' # <<>>
      /\ UNCHANGED <<served, adminConf, caFile, clusterConfig, command, disagreed, switched>>
  BY DEF LoadCerts, CertsOf, Certs
<1>3. fresh' = (fresh \/ clusterConfig.ca = "file")
  BY DEF LoadCerts
<1>4. /\ clusterConfig \in Clusters
      /\ OwnCluster(clusterConfig, caFile) \/ OtherCluster(clusterConfig)
      /\ clusterConfig.ca \in {"data", "file"}
      /\ ConfigRead'
  BY <1>2 DEF Inv, ConfigRead, Clusters
<1>5. caCerts' \in Bundles
  <2>1. CASE clusterConfig.ca = "file"
    BY <1>1, <1>2, <2>1, OwnInBundles, JoinAssumption DEF Certs, AdminTypes
  <2>2. CASE clusterConfig.ca = "data"
    BY <1>2, <1>4, <2>2 DEF Certs, Clusters
  <2>. QED
    BY <1>4, <2>1, <2>2
<1>6. ASSUME ~ disagreed
      PROVE  IF clusterConfig.server = Own
             THEN /\ caCerts' \in OwnBundles
                  /\ fresh' => KeyOf[Head(caCerts')] \in Keys(served)
             ELSE caCerts' = OtherBundle
  <2>1. CASE clusterConfig.ca = "file"
    <3>1. caCerts' = caFile /\ caFile # <<>>
          /\ caFile \in BundlesOf(OwnCertificates) \cup {OtherBundle}
      BY <1>1, <1>2, <2>1 DEF Certs, AdminTypes
    <3>2. Keys(caFile) \subseteq KeysAt(clusterConfig.server)
      BY <1>2, <1>6, <2>1 DEF Inv, FileAgrees, Disagrees
    <3>3. CASE OwnCluster(clusterConfig, caFile)
      <4>1. clusterConfig.server = Own /\ caFile \in OwnBundles
        BY <3>1, <3>2, <3>3, FileIsOfOne DEF OwnCluster
      <4>2. PICK n \in ClusterNames \ {OtherName} :
               /\ adminConf.clusters[n] # NoCluster
               /\ adminConf.clusters[n].ca = "file"
        BY <1>2, <2>1, <4>1, JoinAssumption DEF Inv, ConfigRead, OtherCluster
      <4>3. Certs(adminConf.clusters[n], caFile) = caFile
        BY <4>2 DEF Certs
      <4>4. caFile # OtherBundle
        BY <4>1, OtherIsForeign DEF OwnBundles
      <4>. QED
        BY <1>1, <3>1, <4>1, <4>2, <4>3, <4>4 DEF Rotation
    <3>4. CASE OtherCluster(clusterConfig)
      <4>1. clusterConfig.server = Other
        BY <3>4 DEF OtherCluster
      <4>. QED
        BY <3>1, <3>2, <4>1, FileIsOfOne, JoinAssumption
    <3>. QED
      BY <1>4, <3>3, <3>4
  <2>2. CASE clusterConfig.ca = "data"
    <3>1. caCerts' = clusterConfig.data
      BY <1>2, <2>2 DEF Certs
    <3>2. CASE OwnCluster(clusterConfig, caFile)
      <4>1. clusterConfig.server = Own /\ caCerts' \in OwnBundles
        BY <2>2, <3>1, <3>2 DEF OwnCluster
      <4>2. ASSUME fresh' PROVE KeyOf[Head(caCerts')] \in Keys(served)
        <5>1. fresh
          BY <1>3, <2>2, <4>2
        <5>. QED
          BY <1>2, <2>2, <3>1, <4>1, <5>1 DEF Inv, FirstRead
      <4>. QED
        BY <4>1, <4>2
    <3>3. CASE OtherCluster(clusterConfig)
      BY <1>2, <2>2, <3>1, <3>3, JoinAssumption DEF OtherCluster
    <3>. QED
      BY <1>4, <3>2, <3>3
  <2>. QED
    BY <1>4, <2>1, <2>2
<1>7. CertsRead'
  BY <1>2, <1>6 DEF CertsRead, Keys
<1>8. LocalTypes' /\ FirstRead' /\ FileAgrees' /\ CommandMade' /\ NeverPanics'
  BY <1>1, <1>2, <1>5 DEF LocalTypes, FirstRead, FileAgrees, CommandMade, NeverPanics
<1>9. fresh' \in BOOLEAN /\ disagreed' \in BOOLEAN
  BY <1>1, <1>2, <1>3, Zenon DEF FlagTypes
<1>. QED
  BY <1>2, <1>4, <1>7, <1>8, <1>9, LocalKeepsAdmin, InvNext

LEMMA HashType == ASSUME NEW c \in Certificates PROVE Hash(c) \in Hashes
BY PinAssumption DEF Hash, Hashes

(* The pin of the command is that of the first certificate.                *)
LEMMA RenderInv == Inv /\ Render => Inv'
<1>. SUFFICES ASSUME Inv, Render PROVE Inv'
  OBVIOUS
<1>1. FlagTypes /\ AdminTypes /\ LocalTypes
  BY TypeParts DEF Inv
<1>2. /\ step = "render"
      /\ JoinCommandTo(clusterConfig.server, publicKeyPins)
      /\ clusterConfig' = NoCluster
      /\ UNCHANGED <<served, adminConf, caFile, caCerts, fresh, disagreed, switched>>
  BY DEF Render
<1>3. /\ clusterConfig \in Clusters
      /\ clusterConfig.server \in {Own, Other}
      /\ clusterConfig.server = Other
             => switched /\ adminConf.clusters[Unnamed] = NoCluster
  BY <1>2 DEF Inv, ConfigRead, OwnCluster, OtherCluster
<1>4. caCerts \in Seq(Certificates) /\ caCerts # <<>>
  BY <1>1, <1>2, BundleIsSequence, JoinAssumption DEF Inv, CertsRead, LocalTypes
<1>5. /\ Len(caCerts) \in Nat \ {0} /\ DOMAIN caCerts = 1..Len(caCerts)
      /\ 1 \in DOMAIN caCerts
      /\ caCerts[1] \in Certificates /\ Head(caCerts) = caCerts[1]
  BY <1>4
<1>6. publicKeyPins # <<>> /\ publicKeyPins[1] = Hash(caCerts[1])
  <2>1. 1 \in DOMAIN publicKeyPins /\ publicKeyPins[1] = Hash(caCerts[1])
    BY <1>5 DEF publicKeyPins
  <2>. QED
    BY <2>1
<1>7. /\ step' = "prepare"
      /\ command' = [server |-> clusterConfig.server, pins |-> <<Hash(caCerts[1])>>]
  BY <1>2, <1>6 DEF JoinCommandTo
<1>8. LocalTypes'
  <2>1. Hash(caCerts[1]) \in Hashes
    BY <1>5, HashType
  <2>2. clusterConfig.server \in Servers
    BY <1>3, JoinAssumption
  <2>3. command' \in Commands
    BY <1>7, <2>1, <2>2 DEF Commands
  <2>. QED
    BY <1>1, <1>2, <1>7, <2>3 DEF LocalTypes
<1>9. CommandMade'
  <2>1. command'.server = clusterConfig.server /\ command'.pins = <<Hash(caCerts[1])>>
    BY <1>7
  <2>2. ASSUME ~ disagreed, clusterConfig.server = Own
        PROVE  \E c \in OwnCertificates : /\ command'.pins = <<Hash(c)>>
                                          /\ fresh => KeyOf[c] \in Keys(served)
    <3>1. /\ caCerts \in BundlesOf(OwnCertificates)
          /\ fresh => KeyOf[caCerts[1]] \in Keys(served)
      BY <1>2, <1>5, <2>2 DEF Inv, CertsRead, OwnBundles
    <3>2. caCerts[1] \in OwnCertificates
      BY <1>4, <3>1, BundleFacts
    <3>. QED
      BY <2>1, <3>1, <3>2
  <2>3. ASSUME ~ disagreed, clusterConfig.server = Other
        PROVE  command'.pins = <<Hash(Head(OtherBundle))>>
    <3>1. caCerts = OtherBundle
      BY <1>2, <2>3, JoinAssumption DEF Inv, CertsRead
    <3>. QED
      BY <1>5, <2>1, <3>1
  <2>. QED
    <3>1. /\ command'.server \in {Own, Other}
          /\ command'.server = Other
                 => switched' /\ adminConf'.clusters[Unnamed] = NoCluster
      BY <1>2, <1>3, <2>1
    <3>2. ASSUME ~ disagreed', command'.server = Own
          PROVE  \E c \in OwnCertificates : /\ command'.pins = <<Hash(c)>>
                                            /\ fresh' => KeyOf[c] \in Keys(served)'
      <4>1. PICK c \in OwnCertificates : /\ command'.pins = <<Hash(c)>>
                                         /\ fresh => KeyOf[c] \in Keys(served)
        <5>1. ~ disagreed /\ clusterConfig.server = Own
          BY <1>2, <2>1, <3>2, Zenon
        <5>. QED
          BY <2>2, <5>1
      <4>2. fresh' => KeyOf[c] \in Keys(served)'
        <5>1. served' = served /\ (fresh' => fresh)
          BY <1>2, Zenon
        <5>. QED
          BY <4>1, <5>1 DEF Keys
      <4>. QED
        BY <4>1, <4>2
    <3>3. ASSUME ~ disagreed', command'.server # Own
          PROVE  command'.pins = <<Hash(Head(OtherBundle))>>
      <4>1. ~ disagreed /\ clusterConfig.server # Own
        BY <1>2, <2>1, <3>3, Zenon
      <4>. QED
        BY <1>3, <2>3, <4>1
    <3>. QED
      BY <3>1, <3>2, <3>3 DEF CommandMade
<1>10. ConfigRead' /\ FirstRead' /\ FileAgrees' /\ CertsRead' /\ NeverPanics'
  BY <1>7 DEF ConfigRead, FirstRead, FileAgrees, CertsRead, NeverPanics
<1>11. fresh' \in BOOLEAN /\ disagreed' \in BOOLEAN
  BY <1>1, <1>2, Zenon DEF FlagTypes
<1>. QED
  BY <1>2, <1>8, <1>9, <1>10, <1>11, LocalKeepsAdmin, InvNext

LEMMA EndInv == Inv /\ (ReadFails \/ KubeadmJoin \/ Again) => Inv'
<1>. SUFFICES ASSUME Inv, ReadFails \/ KubeadmJoin \/ Again PROVE Inv'
  OBVIOUS
<1>1. FlagTypes /\ AdminTypes /\ LocalTypes
  BY TypeParts DEF Inv
<1>2. /\ step' \in {"error", "joined", "refused", "start"}
      /\ UNCHANGED <<served, adminConf, caFile, switched>>
  BY DEF ReadFails, KubeadmJoin, Again, Forget
<1>3. fresh' \in BOOLEAN /\ disagreed' \in BOOLEAN
  <2>1. /\ fresh' = fresh \/ fresh' = FALSE
        /\ disagreed' = disagreed \/ disagreed' = FALSE
    BY DEF ReadFails, KubeadmJoin, Again, Forget
  <2>. QED
    BY <1>1, <2>1, Zenon DEF FlagTypes
<1>4. LocalTypes'
  <2>1. /\ clusterConfig' \in {clusterConfig, NoCluster}
        /\ caCerts' \in {caCerts, <<>>}
        /\ command' \in {command, NoCommand}
    BY DEF ReadFails, KubeadmJoin, Again, Forget
  <2>2. NoCommand \in Commands
    BY JoinAssumption DEF NoCommand, Commands
  <2>3. <<>> \in Bundles
    <3>1. <<>> \in Seq(Certificates) /\ Len(<<>>) \in 0..MaxBundle
      BY RoomForOne
    <3>. QED
      BY <3>1, BundleIsSequence, JoinAssumption
  <2>. QED
    BY <1>1, <1>2, <2>1, <2>2, <2>3 DEF LocalTypes
<1>5. /\ ConfigRead' /\ FirstRead' /\ FileAgrees' /\ CertsRead' /\ CommandMade'
      /\ NeverPanics'
  BY <1>2 DEF ConfigRead, FirstRead, FileAgrees, CertsRead, CommandMade, NeverPanics
<1>. QED
  BY <1>2, <1>3, <1>4, <1>5, LocalKeepsAdmin, InvNext

LEMMA StutterInv == Inv /\ UNCHANGED vars => Inv'
<1>. SUFFICES ASSUME Inv, UNCHANGED vars PROVE Inv'
  OBVIOUS
<1>1. UNCHANGED <<served, adminConf, caFile, step, clusterConfig, caCerts, command, fresh,
                  disagreed, switched>>
  BY DEF vars, local
<1>2. fresh' \in BOOLEAN /\ disagreed' \in BOOLEAN
  BY <1>1, TypeParts, Zenon DEF Inv, FlagTypes
<1>3. FileAgrees'
  BY <1>1, SameFileAgrees DEF Inv
<1>4. /\ LocalTypes' /\ ConfigRead' /\ FirstRead' /\ FileAgrees' /\ CertsRead'
      /\ CommandMade' /\ NeverPanics'
  BY <1>1, <1>3, EditKeepsLocal
<1>. QED
  BY <1>1, <1>2, <1>4, LocalKeepsAdmin, InvNext

LEMMA InvCorrect == Spec => []Inv
<1>1. Inv /\ Administrators => Inv'
  BY ServeCAInv, RetireCAInv, RotateConfigInv, ReplaceFileInv, AddOtherInv, UseContextInv,
     DeleteOtherInv
  DEF Administrators
<1>2. Inv /\ GetJoinNodeCommand => Inv'
  BY LoadConfigInv, LoadCertsInv, RenderInv, EndInv DEF GetJoinNodeCommand
<1>3. Inv /\ [Next]_vars => Inv'
  BY <1>1, <1>2, EndInv, StutterInv DEF Next
<1>. QED
  BY <1>3, InitInv, PTL DEF Spec

-----------------------------------------------------------------------------
(* Theorems                                                                *)

(* Types: what the command has is a pin with its format (controller.go:424)*)
(* of a key.                                                               *)
THEOREM TypeCorrect == Spec => []TypeOK
<1>1. Inv => TypeOK
  BY DEF Inv
<1>. QED
  BY <1>1, InvCorrect, PTL

(* publicKeyPins[0] (controller.go:429) exists whenever it is read.        *)
THEOREM RenderNeverPanics == Spec => []NeverPanics
<1>1. Inv => NeverPanics
  BY DEF Inv
<1>. QED
  BY <1>1, InvCorrect, PTL

(* The kubeconfig is read at controller.go:394 and the file that it names  *)
(* at 413: only a file that held another cluster's certificates at some    *)
(* time from the first to the second can give a command of two clusters.   *)
THEOREM CommandIsOfOneCluster == Spec => []EndpointAndPinMatch
<1>1. Inv => EndpointAndPinMatch
  <2>. SUFFICES ASSUME Inv, step = "prepare", ~ disagreed
                PROVE  command.pins[1].digestOf \in KeysAt(command.server)
    BY DEF EndpointAndPinMatch
  <2>1. \A c : Hash(c).digestOf = KeyOf[c]
    BY DEF Hash
  <2>2. CASE command.server = Own
    <3>1. PICK c \in OwnCertificates : command.pins = <<Hash(c)>>
      BY <2>2 DEF Inv, CommandMade
    <3>2. command.pins[1].digestOf = KeyOf[c]
      BY <2>1, <3>1
    <3>. QED
      BY <2>2, <3>2 DEF KeysAt
  <2>3. CASE command.server # Own
    <3>1. command.pins = <<Hash(Head(OtherBundle))>>
      BY <2>3 DEF Inv, CommandMade
    <3>2. command.pins[1].digestOf = KeyOf[Head(OtherBundle)]
      BY <2>1, <3>1
    <3>3. KeyOf[Head(OtherBundle)] \in Keys(OtherBundle)
      BY RoomForOne DEF Keys
    <3>. QED
      BY <2>3, <3>2, <3>3 DEF KeysAt
  <2>. QED
    BY <2>2, <2>3
<1>. QED
  BY <1>1, InvCorrect, PTL

(* GetClusterFromKubeConfig (kubeconfig.go:105): a command leads elsewhere *)
(* only after somebody made the other cluster current.                     *)
THEOREM CommandLeadsHome == Spec => []EndpointIsDefault
<1>1. Inv => EndpointIsDefault
  BY JoinAssumption DEF Inv, CommandMade, EndpointIsDefault
<1>. QED
  BY <1>1, InvCorrect, PTL

(* Taking the first of the pins (controller.go:429) is enough: a command   *)
(* of one cluster that is used before the cluster drops a CA is accepted.  *)
THEOREM FreshCommandsAreAccepted == Spec => []FreshCommandJoins
<1>1. Inv => FreshCommandJoins
  <2>. SUFFICES ASSUME Inv, step = "prepare", fresh, ~ disagreed PROVE Accepted
    BY DEF FreshCommandJoins
  <2>1. ASSUME NEW c, NEW certs, command.pins = <<Hash(c)>>, KeyOf[c] \in Keys(certs)
        PROVE  Trusts(command.pins, certs)
    <3>1. 1 \in DOMAIN command.pins /\ command.pins[1] = Hash(c)
      BY <2>1
    <3>2. command.pins[1].digestOf = KeyOf[c]
      BY <3>1 DEF Hash
    <3>. QED
      BY <2>1, <3>1, <3>2 DEF Trusts
  <2>2. CASE command.server = Own
    <3>1. PICK c \in OwnCertificates :
             command.pins = <<Hash(c)>> /\ KeyOf[c] \in Keys(served)
      BY <2>2 DEF Inv, CommandMade
    <3>. QED
      BY <2>1, <2>2, <3>1 DEF Accepted, ServedBy
  <2>3. CASE command.server # Own
    <3>1. command.pins = <<Hash(Head(OtherBundle))>>
      BY <2>3 DEF Inv, CommandMade
    <3>2. KeyOf[Head(OtherBundle)] \in Keys(OtherBundle)
      BY RoomForOne DEF Keys
    <3>. QED
      BY <2>1, <2>3, <3>1, <3>2 DEF Accepted, ServedBy
  <2>. QED
    BY <2>2, <2>3
<1>. QED
  BY <1>1, InvCorrect, PTL
=============================================================================
