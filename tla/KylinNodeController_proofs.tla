---------------------- MODULE KylinNodeController_proofs ----------------------
(***************************************************************************)
(* Theorems about KylinNodeController for every set of keys, machines and  *)
(* workers, every choice of specs and every bound on the writes.           *)
(***************************************************************************)
EXTENDS KylinNodeController, TLAPS

-----------------------------------------------------------------------------
(* The fragments of WorkQueue                                              *)

(* The elements of a sequence after Append.                                *)
LEMMA RangeAppend ==
  ASSUME NEW S, NEW s \in Seq(S), NEW e \in S
  PROVE  Range(Append(s, e)) = Range(s) \cup {e}
<1>1. /\ Append(s, e) \in Seq(S)
      /\ Len(Append(s, e)) = Len(s) + 1
      /\ Append(s, e)[Len(s) + 1] = e
      /\ \A i \in 1..Len(s) : Append(s, e)[i] = s[i]
  OBVIOUS
<1>2. /\ DOMAIN Append(s, e) = 1..(Len(s) + 1)
      /\ DOMAIN s = 1..Len(s)
      /\ Len(s) \in Nat
  BY <1>1
<1>. QED
  BY <1>1, <1>2 DEF Range

(* Append of a new element keeps a sequence free of duplicates.            *)
LEMMA InjectiveAppend ==
  ASSUME NEW S, NEW s \in Seq(S), NEW e \in S, IsInjective(s), e \notin Range(s)
  PROVE  IsInjective(Append(s, e))
<1>1. /\ DOMAIN Append(s, e) = 1..(Len(s) + 1)
      /\ DOMAIN s = 1..Len(s)
      /\ Len(s) \in Nat
      /\ Append(s, e)[Len(s) + 1] = e
      /\ \A i \in 1..Len(s) : Append(s, e)[i] = s[i]
  OBVIOUS
<1>2. \A i \in 1..Len(s) : s[i] # e
  BY <1>1 DEF Range
<1>. QED
  BY <1>1, <1>2 DEF IsInjective

(* Tail of a sequence without duplicates drops exactly its head.           *)
LEMMA TailProperties ==
  ASSUME NEW S, NEW s \in Seq(S), s # <<>>, IsInjective(s)
  PROVE  /\ Tail(s) \in Seq(S)
         /\ Head(s) \in Range(s)
         /\ IsInjective(Tail(s))
         /\ Range(Tail(s)) = Range(s) \ {Head(s)}
<1>1. /\ Len(s) \in Nat \ {0}
      /\ DOMAIN s = 1..Len(s)
      /\ Head(s) = s[1]
      /\ Tail(s) \in Seq(S)
      /\ DOMAIN Tail(s) = 1..(Len(s) - 1)
      /\ \A i \in 1..(Len(s) - 1) : Tail(s)[i] = s[i + 1]
  OBVIOUS
<1>2. Head(s) \in Range(s)
  BY <1>1 DEF Range
<1>3. IsInjective(Tail(s))
  <2>. SUFFICES ASSUME NEW i \in 1..(Len(s) - 1), NEW j \in 1..(Len(s) - 1),
                       Tail(s)[i] = Tail(s)[j]
                PROVE  i = j
    BY <1>1 DEF IsInjective
  <2>1. i + 1 \in DOMAIN s /\ j + 1 \in DOMAIN s /\ s[i + 1] = s[j + 1]
    BY <1>1
  <2>2. i + 1 = j + 1
    BY <2>1 DEF IsInjective
  <2>. QED
    BY <2>2
<1>4. Range(Tail(s)) \subseteq Range(s) \ {Head(s)}
  <2>. SUFFICES ASSUME NEW i \in 1..(Len(s) - 1)
                PROVE  Tail(s)[i] \in Range(s) /\ Tail(s)[i] # Head(s)
    BY <1>1 DEF Range
  <2>1. i + 1 \in DOMAIN s /\ 1 \in DOMAIN s /\ i + 1 # 1
    BY <1>1
  <2>2. s[i + 1] # s[1]
    BY <2>1 DEF IsInjective
  <2>. QED
    BY <1>1, <2>1, <2>2 DEF Range
<1>5. Range(s) \ {Head(s)} \subseteq Range(Tail(s))
  <2>. SUFFICES ASSUME NEW i \in 1..Len(s), s[i] # s[1]
                PROVE  s[i] \in Range(Tail(s))
    BY <1>1 DEF Range
  <2>1. i - 1 \in 1..(Len(s) - 1) /\ Tail(s)[i - 1] = s[i]
    BY <1>1
  <2>. QED
    BY <1>1, <2>1 DEF Range
<1>. QED
  BY <1>1, <1>2, <1>3, <1>4, <1>5

-----------------------------------------------------------------------------

LEMMA WQInitInv == WQInit => WQTypeOK /\ WQInv
<1>. SUFFICES ASSUME WQInit PROVE WQTypeOK /\ WQInv
  OBVIOUS
<1>1. queue \in Seq(Keys) /\ DOMAIN queue = {}
  BY DEF WQInit
<1>. QED
  BY <1>1 DEF WQInit, WQTypeOK, WQInv, IsInjective, Range

LEMMA AddRateLimitedInv ==
  ASSUME WQTypeOK, WQInv, NEW k \in Keys, AddRateLimited(k)
  PROVE  WQTypeOK' /\ WQInv'
BY DEF WQTypeOK, WQInv, AddRateLimited

LEMMA ExpireInv ==
  ASSUME WQTypeOK, WQInv, NEW k \in Keys, Expire(k)
  PROVE  WQTypeOK' /\ WQInv'
<1>1. CASE k \in dirty \cup processing
  BY <1>1 DEF WQTypeOK, WQInv, Expire
<1>2. CASE k \notin dirty \cup processing
  <2>1. queue' = Append(queue, k) /\ k \notin Range(queue)
    BY <1>2 DEF Expire, WQInv
  <2>2. IsInjective(queue') /\ Range(queue') = Range(queue) \cup {k}
    BY <2>1, InjectiveAppend, RangeAppend DEF WQTypeOK, WQInv
  <2>. QED
    BY <1>2, <2>1, <2>2 DEF WQTypeOK, WQInv, Expire
<1>. QED
  BY <1>1, <1>2

(* The key that Get returns was not being processed.                       *)
LEMMA GetInv ==
  ASSUME WQTypeOK, WQInv, Get
  PROVE  /\ WQTypeOK' /\ WQInv'
         /\ Head(queue) \in Keys \ processing
         /\ Range(queue) = Range(queue') \cup {Head(queue)}
<1>1. /\ queue' \in Seq(Keys)
      /\ IsInjective(queue')
      /\ Range(queue') = Range(queue) \ {Head(queue)}
      /\ Head(queue) \in Range(queue)
  BY TailProperties DEF Get, WQTypeOK, WQInv
<1>2. Head(queue) \in Keys \ processing
  BY <1>1 DEF WQTypeOK, WQInv
<1>. QED
  BY <1>1, <1>2 DEF Get, WQTypeOK, WQInv

LEMMA DoneInv ==
  ASSUME WQTypeOK, WQInv, NEW k \in processing, Done(k)
  PROVE  /\ WQTypeOK' /\ WQInv'
         /\ Range(queue) \cup (dirty \cap processing)
              \subseteq Range(queue') \cup (dirty' \cap processing')
<1>1. CASE k \in dirty
  <2>1. queue' = Append(queue, k) /\ k \notin Range(queue) /\ k \in Keys
    BY <1>1 DEF Done, WQInv, WQTypeOK
  <2>2. IsInjective(queue') /\ Range(queue') = Range(queue) \cup {k}
    BY <2>1, InjectiveAppend, RangeAppend DEF WQTypeOK, WQInv
  <2>. QED
    BY <1>1, <2>1, <2>2 DEF WQTypeOK, WQInv, Done
<1>2. CASE k \notin dirty
  BY <1>2 DEF WQTypeOK, WQInv, Done
<1>. QED
  BY <1>1, <1>2

-----------------------------------------------------------------------------
(* The controller                                                          *)

(* The steps at which a worker holds a spec.                               *)
SpecSteps == {"admission", "token", "save", "deleteNode"} \cup RemoteSteps

(* What a worker holds where: no key exactly when it waits in Get, a key   *)
(* that the queue counts as processed and no other worker holds, a spec    *)
(* from the lister or from the map on.                                     *)
WorkerInv ==
    /\ \A w \in Workers : key[w] = NoKey <=> pc[w] = "Get"
    /\ \A w \in Workers : key[w] # NoKey => key[w] \in processing
    /\ \A w \in Workers : pc[w] \in SpecSteps => spec[w] \in Specs
    /\ NoConcurrentSameKey

Inv == TypeOK /\ WQInv /\ WorkerInv

-----------------------------------------------------------------------------

LEMMA InitInv == Init => Inv
<1>. SUFFICES ASSUME Init PROVE Inv
  OBVIOUS
<1>1. WQTypeOK /\ WQInv
  BY WQInitInv DEF Init
<1>2. TypeOK
  <2>1. MachinesTypeOK
    BY DEF Init, MachinesInit, MachinesTypeOK
  <2>2. /\ kylinNodes \in [Keys -> Objects \cup {NoObject}]
        /\ cache \in [Keys -> Objects \cup {NoObject}]
        /\ resetNodeInfo \in [Names -> Specs \cup {NoSpec}]
        /\ key \in [Workers -> Keys \cup {NoKey}]
        /\ spec \in [Workers -> Specs \cup {NoSpec}]
        /\ pc \in [Workers -> Steps]
    BY DEF Init, Nothing, NoResetInfo, Steps
  <2>3. /\ revision \in 0..MaxWrites
        /\ seen \in [Keys -> 0..MaxWrites]
    BY ControllerAssumption DEF Init
  <2>4. up \in BOOLEAN /\ notes \subseteq Notes
    BY DEF Init
  <2>. QED
    BY <1>1, <2>1, <2>2, <2>3, <2>4 DEF TypeOK
<1>3. WorkerInv
  BY DEF Init, WorkerInv, NoConcurrentSameKey, SpecSteps, RemoteSteps, InstallSteps
<1>. QED
  BY <1>1, <1>2, <1>3 DEF Inv

LEMMA StutterInv == Inv /\ UNCHANGED vars => Inv'
BY DEF Inv, TypeOK, WQTypeOK, MachinesTypeOK, WQInv, WorkerInv, NoConcurrentSameKey,
   vars, apiVars, machineVars, processVars, informerVars, wqVars, workerVars

LEMMA UserInv == Inv /\ User => Inv'
<1>. SUFFICES ASSUME Inv, User PROVE Inv'
  OBVIOUS
<1>1. PICK k \in Keys, object \in Objects \cup {NoObject} : Write(k, object)
  BY ControllerAssumption DEF User, CreateKylinNode, UpdateKylinNode, DeleteKylinNode,
     Inv, TypeOK, Write, Objects, Versions
<1>2. TypeOK'
  BY <1>1, ControllerAssumption DEF Inv, TypeOK, WQTypeOK, MachinesTypeOK, Write,
     machineVars, processVars, informerVars, wqVars, workerVars
<1>. QED
  BY <1>1, <1>2 DEF Inv, WQInv, WorkerInv, NoConcurrentSameKey, Write,
     machineVars, processVars, informerVars, wqVars, workerVars

LEMMA EnvironmentInv == Inv /\ (Kubelet \/ WatchCache) => Inv'
<1>. SUFFICES ASSUME Inv, Kubelet \/ WatchCache PROVE Inv'
  OBVIOUS
<1>1. MachinesTypeOK'
  BY DEF Inv, TypeOK, MachinesTypeOK, Kubelet, WatchCache, Register, SyncListed
<1>. QED
  BY <1>1 DEF Inv, TypeOK, WQTypeOK, WQInv, WorkerInv, NoConcurrentSameKey,
     Kubelet, WatchCache, apiVars, processVars, informerVars, wqVars, workerVars

LEMMA ExitInv == Inv /\ Exit => Inv'
<1>. SUFFICES ASSUME Inv, Exit PROVE Inv'
  OBVIOUS
<1>1. WQTypeOK' /\ WQInv'
  BY DEF Exit, WQTypeOK, WQInv, IsInjective, Range
<1>2. WorkerInv'
  BY DEF Exit, WorkerInv, NoConcurrentSameKey, SpecSteps, RemoteSteps, InstallSteps
<1>3. TypeOK'
  <2>1. MachinesTypeOK'
    BY DEF Inv, TypeOK, MachinesTypeOK, Exit, machineVars
  <2>2. /\ cache' \in [Keys -> Objects \cup {NoObject}]
        /\ resetNodeInfo' \in [Names -> Specs \cup {NoSpec}]
        /\ key' \in [Workers -> Keys \cup {NoKey}]
        /\ spec' \in [Workers -> Specs \cup {NoSpec}]
        /\ pc' \in [Workers -> Steps]
    BY DEF Exit, Nothing, NoResetInfo, Steps
  <2>3. seen' \in [Keys -> 0..MaxWrites]
    BY ControllerAssumption DEF Exit
  <2>4. up' \in BOOLEAN /\ notes' \subseteq Notes
    BY DEF Exit
  <2>. QED
    BY <1>1, <2>1, <2>2, <2>3, <2>4 DEF Inv, TypeOK, Exit, apiVars
<1>. QED
  BY <1>1, <1>2, <1>3 DEF Inv

LEMMA StartInv == Inv /\ Start => Inv'
<1>. SUFFICES ASSUME Inv, Start PROVE Inv'
  OBVIOUS
<1>1. notes' \subseteq Notes
  BY DEF Start, Notes, Inv, TypeOK
<1>. QED
  BY <1>1 DEF Inv, TypeOK, WQTypeOK, MachinesTypeOK, WQInv, WorkerInv,
     NoConcurrentSameKey, Start, apiVars, machineVars, wqVars, workerVars

LEMMA InformerInv == Inv /\ Informer => Inv'
<1>. SUFFICES ASSUME Inv, Informer PROVE Inv'
  OBVIOUS
<1>. USE DEF apiVars, machineVars, informerVars, wqVars, workerVars
<1>1. CASE \E k \in Keys : Observe(k)
  <2>1. PICK k \in Keys : Observe(k)
    BY <1>1
  <2>2. cache' \in [Keys -> Objects \cup {NoObject}] /\ notes' \subseteq Notes
    BY <2>1 DEF Observe, Notes, Inv, TypeOK
  <2>. QED
    BY <2>1, <2>2 DEF Observe, Inv, TypeOK, WQTypeOK, MachinesTypeOK, WQInv,
       WorkerInv, NoConcurrentSameKey
<1>2. CASE \E k \in Keys : Resync(k)
  <2>1. PICK k \in Keys : Resync(k)
    BY <1>2
  <2>2. notes' \subseteq Notes
    BY <2>1 DEF Resync, Notes, Inv, TypeOK
  <2>. QED
    BY <2>1, <2>2 DEF Resync, Inv, TypeOK, WQTypeOK, MachinesTypeOK, WQInv,
       WorkerInv, NoConcurrentSameKey
<1>3. CASE \E k \in Keys : EndBackOff(k)
  <2>1. PICK k \in Keys : EndBackOff(k)
    BY <1>3
  <2>2. WQTypeOK' /\ WQInv' /\ processing' = processing
    BY <2>1, ExpireInv DEF EndBackOff, Expire, Inv, TypeOK
  <2>. QED
    BY <2>1, <2>2 DEF EndBackOff, Inv, TypeOK, MachinesTypeOK, WorkerInv,
       NoConcurrentSameKey
<1>4. CASE \E note \in notes : Deliver(note)
  <2>1. PICK note \in notes : Deliver(note)
    BY <1>4
  <2>2. note.key \in Keys
    BY DEF Inv, TypeOK, Notes
  <2>3. WQTypeOK' /\ WQInv' /\ processing' = processing
    <3>1. CASE UNCHANGED wqVars
      BY <3>1 DEF Inv, TypeOK, WQTypeOK, WQInv
    <3>2. CASE AddRateLimited(note.key)
      BY <2>2, <3>2, AddRateLimitedInv DEF Inv, TypeOK, AddRateLimited
    <3>. QED
      BY <2>1, <3>1, <3>2 DEF Deliver, UpdateFunc
  <2>. QED
    BY <2>1, <2>3 DEF Deliver, Inv, TypeOK, MachinesTypeOK, WorkerInv,
       NoConcurrentSameKey
<1>. QED
  BY <1>1, <1>2, <1>3, <1>4 DEF Informer

-----------------------------------------------------------------------------
(* The steps of the workers                                                *)

(* A worker that holds key and spec moves on, whatever it did to machines. *)
LEMMA WalkInv ==
  ASSUME Inv, NEW w \in Workers, NEW step \in Steps \ {"Get"},
         pc[w] # "Get", Goto(w, step),
         step \in SpecSteps => spec[w] \in Specs,
         MachinesTypeOK',
         resetNodeInfo' \in [Names -> Specs \cup {NoSpec}],
         UNCHANGED <<Others, wqVars, key, spec, seen>>
  PROVE  Inv'
<1>. USE DEF Others, apiVars, informerVars, wqVars
<1>1. pc' \in [Workers -> Steps]
  BY DEF Goto, Inv, TypeOK
<1>2. TypeOK'
  BY <1>1 DEF Inv, TypeOK, WQTypeOK
<1>3. WorkerInv'
  BY <1>1 DEF Inv, TypeOK, WorkerInv, NoConcurrentSameKey, Goto
<1>. QED
  BY <1>2, <1>3 DEF Inv, WQInv

LEMMA AttemptInv ==
  ASSUME Inv, NEW w \in Workers, NEW step \in Steps \ {"Get"},
         pc[w] \in SpecSteps, Attempt(w, step)
  PROVE  Inv'
<1>1. pc[w] # "Get" /\ spec[w] \in Specs /\ "error" \in Steps \ {"Get"}
  BY DEF Inv, WorkerInv, SpecSteps, RemoteSteps, InstallSteps, Steps
<1>2. MachinesTypeOK' /\ resetNodeInfo' \in [Names -> Specs \cup {NoSpec}]
  BY DEF Attempt, machineVars, MachinesTypeOK, Inv, TypeOK
<1>. QED
  BY <1>1, <1>2, WalkInv DEF Attempt

LEMMA RemoteInv ==
  ASSUME Inv, NEW w \in Workers, NEW step \in Steps \ {"Get"},
         pc[w] \in SpecSteps,
         MachinesTypeOK',
         Goto(w, step) \/ Goto(w, "error"),
         UNCHANGED <<Others, wqVars, resetNodeInfo, key, spec, seen>>
  PROVE  Inv'
<1>1. pc[w] # "Get" /\ spec[w] \in Specs /\ "error" \in Steps \ {"Get"}
  BY DEF Inv, WorkerInv, SpecSteps, RemoteSteps, InstallSteps, Steps
<1>2. resetNodeInfo' \in [Names -> Specs \cup {NoSpec}]
  BY DEF Inv, TypeOK
<1>. QED
  BY <1>1, <1>2, WalkInv

LEMMA GetItemInv == \A w \in Workers : Inv /\ GetItem(w) => Inv'
<1>. SUFFICES ASSUME NEW w \in Workers, Inv, GetItem(w) PROVE Inv'
  OBVIOUS
<1>. USE DEF Others, apiVars, informerVars, machineVars
<1>1. /\ WQTypeOK' /\ WQInv'
      /\ Head(queue) \in Keys \ processing
      /\ processing' = processing \cup {Head(queue)}
  BY GetInv DEF GetItem, Get, Inv, TypeOK
<1>2. pc' \in [Workers -> Steps] /\ key' \in [Workers -> Keys \cup {NoKey}]
  BY <1>1 DEF GetItem, Goto, Inv, TypeOK, Steps
<1>3. TypeOK'
  BY <1>1, <1>2 DEF GetItem, Inv, TypeOK, MachinesTypeOK
<1>4. WorkerInv'
  <2>1. pc'[w] = "lister" /\ key'[w] = Head(queue) /\ key'[w] # NoKey
    BY <1>1, ControllerAssumption DEF GetItem, Goto, Inv, TypeOK
  <2>2. \A v \in Workers \ {w} : pc'[v] = pc[v] /\ key'[v] = key[v]
    BY DEF GetItem, Goto, Inv, TypeOK
  <2>3. \A v \in Workers \ {w} : key'[v] # key'[w]
    BY <1>1, <2>1, <2>2 DEF Inv, WorkerInv
  <2>4. \A v \in Workers : spec'[v] = spec[v]
    BY DEF GetItem
  <2>. QED
    BY <1>1, <2>1, <2>2, <2>3, <2>4
       DEF Inv, WorkerInv, NoConcurrentSameKey, SpecSteps, RemoteSteps, InstallSteps
<1>. QED
  BY <1>1, <1>3, <1>4 DEF Inv

LEMMA ReadListerInv == \A w \in Workers : Inv /\ ReadLister(w) => Inv'
<1>. SUFFICES ASSUME NEW w \in Workers, Inv, ReadLister(w) PROVE Inv'
  OBVIOUS
<1>. USE DEF Others, apiVars, informerVars, machineVars, wqVars
<1>1. key[w] \in Keys /\ pc[w] = "lister"
  BY DEF ReadLister, At, Inv, TypeOK, WorkerInv
<1>2. cache[key[w]] # NoObject =>
         cache[key[w]].spec \in Specs /\ cache[key[w]].version \in 0..MaxWrites
  BY <1>1, ControllerAssumption DEF Inv, TypeOK, Objects, Versions
<1>3. seen' \in [Keys -> 0..MaxWrites]
  BY <1>1, <1>2, ControllerAssumption DEF ReadLister, Inv, TypeOK, VersionOf
<1>4. /\ pc' \in [Workers -> Steps]
      /\ spec' \in [Workers -> Specs \cup {NoSpec}]
      /\ \A v \in Workers \ {w} : pc'[v] = pc[v] /\ spec'[v] = spec[v]
      /\ \/ pc'[w] = "lookup"
         \/ pc'[w] = "admission" /\ spec'[w] \in Specs
  BY <1>2 DEF ReadLister, Goto, Inv, TypeOK, Steps, MapSteps
<1>5. TypeOK'
  BY <1>3, <1>4 DEF ReadLister, Inv, TypeOK, WQTypeOK, MachinesTypeOK
<1>6. WorkerInv'
  BY <1>1, <1>4 DEF ReadLister, Inv, WorkerInv, NoConcurrentSameKey, SpecSteps,
     RemoteSteps, InstallSteps
<1>. QED
  BY <1>5, <1>6 DEF ReadLister, Inv, WQInv

LEMMA LookupResetInfoInv == \A w \in Workers : Inv /\ LookupResetInfo(w) => Inv'
<1>. SUFFICES ASSUME NEW w \in Workers, Inv, LookupResetInfo(w) PROVE Inv'
  OBVIOUS
<1>. USE DEF Others, apiVars, informerVars, machineVars, wqVars
<1>1. key[w] \in Keys /\ pc[w] = "lookup"
  BY DEF LookupResetInfo, At, Inv, TypeOK, WorkerInv
<1>2. resetNodeInfo[NameOf[key[w]]] \in Specs
  BY <1>1, ControllerAssumption DEF LookupResetInfo, Inv, TypeOK
<1>3. /\ pc' \in [Workers -> Steps]
      /\ spec' \in [Workers -> Specs \cup {NoSpec}]
      /\ \A v \in Workers \ {w} : pc'[v] = pc[v] /\ spec'[v] = spec[v]
      /\ pc'[w] = "reset" /\ spec'[w] \in Specs
  BY <1>2 DEF LookupResetInfo, Goto, Inv, TypeOK, Steps, RemoteSteps
<1>4. TypeOK'
  BY <1>3 DEF LookupResetInfo, Inv, TypeOK, WQTypeOK, MachinesTypeOK
<1>5. WorkerInv'
  BY <1>1, <1>3 DEF LookupResetInfo, Inv, WorkerInv, NoConcurrentSameKey
<1>. QED
  BY <1>4, <1>5 DEF LookupResetInfo, Inv, WQInv

LEMMA FinishItemInv == \A w \in Workers : Inv /\ FinishItem(w) => Inv'
<1>. SUFFICES ASSUME NEW w \in Workers, Inv, FinishItem(w) PROVE Inv'
  OBVIOUS
<1>. USE DEF Others, apiVars, informerVars, machineVars
<1>1. key[w] \in processing /\ key[w] # NoKey
  BY DEF FinishItem, Inv, WorkerInv
<1>2. WQTypeOK' /\ WQInv' /\ processing' = processing \ {key[w]}
  BY <1>1, DoneInv DEF FinishItem, Done, Inv, TypeOK
<1>3. /\ pc' \in [Workers -> Steps]
      /\ key' \in [Workers -> Keys \cup {NoKey}]
      /\ spec' \in [Workers -> Specs \cup {NoSpec}]
      /\ pc'[w] = "Get" /\ key'[w] = NoKey
      /\ \A v \in Workers \ {w} : /\ pc'[v] = pc[v]
                                  /\ key'[v] = key[v]
                                  /\ spec'[v] = spec[v]
  BY DEF FinishItem, Goto, Inv, TypeOK, Steps
<1>4. TypeOK'
  BY <1>2, <1>3 DEF FinishItem, Inv, TypeOK, MachinesTypeOK
<1>5. \A v \in Workers \ {w} : key[v] # NoKey => key[v] # key[w]
  BY <1>1 DEF Inv, WorkerInv, NoConcurrentSameKey
<1>6. WorkerInv'
  BY <1>2, <1>3, <1>5 DEF Inv, WorkerInv, NoConcurrentSameKey, SpecSteps,
     RemoteSteps, InstallSteps
<1>. QED
  BY <1>2, <1>4, <1>6 DEF Inv

LEMMA SaveResetInfoInv == \A w \in Workers : Inv /\ SaveResetInfo(w) => Inv'
<1>. SUFFICES ASSUME NEW w \in Workers, Inv, SaveResetInfo(w) PROVE Inv'
  OBVIOUS
<1>1. pc[w] = "save" /\ spec[w] \in Specs
  BY DEF SaveResetInfo, At, Inv, WorkerInv, SpecSteps
<1>2. resetNodeInfo' \in [Names -> Specs \cup {NoSpec}]
  BY <1>1 DEF SaveResetInfo, Inv, TypeOK
<1>3. MachinesTypeOK'
  BY DEF SaveResetInfo, machineVars, Inv, TypeOK, MachinesTypeOK
<1>4. "hostname" \in Steps \ {"Get"}
  BY DEF Steps, RemoteSteps, InstallSteps
<1>. QED
  BY <1>1, <1>2, <1>3, <1>4, WalkInv DEF SaveResetInfo

LEMMA AdmissionInv == \A w \in Workers : Inv /\ Admission(w) => Inv'
<1>. SUFFICES ASSUME NEW w \in Workers, Inv, Admission(w) PROVE Inv'
  OBVIOUS
<1>1. pc[w] \in SpecSteps
  BY DEF Admission, At, SpecSteps
<1>2. {"error", "token"} \subseteq Steps \ {"Get"}
  BY DEF Steps
<1>3. CASE InCluster(spec[w])
  BY <1>1, <1>2, <1>3, AttemptInv DEF Admission
<1>4. CASE ~ InCluster(spec[w])
  BY <1>1, <1>2, <1>4, AttemptInv DEF Admission
<1>. QED
  BY <1>3, <1>4

LEMMA GetJoinCommandInv == \A w \in Workers : Inv /\ GetJoinCommand(w) => Inv'
<1>. SUFFICES ASSUME NEW w \in Workers, Inv, GetJoinCommand(w) PROVE Inv'
  OBVIOUS
<1>1. pc[w] \in SpecSteps /\ "save" \in Steps \ {"Get"}
  BY DEF GetJoinCommand, At, SpecSteps, Steps, MapSteps
<1>. QED
  BY <1>1, AttemptInv DEF GetJoinCommand

(* The remote commands and the deletion of the Node: each leaves the       *)
(* machines well typed, and moves the worker on or to "error".             *)
LEMMA RemoteStepsInv ==
  \A w \in Workers :
    Inv /\ (\/ SetHostnameStep(w) \/ CopyStep(w) \/ UnzipStep(w) \/ InitStep(w)
            \/ JoinStep(w) \/ ResetStep(w) \/ DeleteNodeStep(w)) => Inv'
<1>. SUFFICES ASSUME NEW w \in Workers, Inv PROVE
       (\/ SetHostnameStep(w) \/ CopyStep(w) \/ UnzipStep(w) \/ InitStep(w)
        \/ JoinStep(w) \/ ResetStep(w) \/ DeleteNodeStep(w)) => Inv'
  OBVIOUS
<1>0. {"copy", "unzip", "init", "join", "ok", "deleteNode"} \subseteq Steps \ {"Get"}
  BY DEF Steps, RemoteSteps, InstallSteps, MapSteps
<1>a. MachinesTypeOK /\ (UNCHANGED machineVars => MachinesTypeOK')
  BY DEF Inv, TypeOK, MachinesTypeOK, machineVars
<1>1. CASE SetHostnameStep(w)
  <2>1. pc[w] \in SpecSteps /\ spec[w].name \in NodeNames
    BY <1>1 DEF SetHostnameStep, At, Inv, WorkerInv, SpecSteps, RemoteSteps,
       InstallSteps, Specs
  <2>2. MachinesTypeOK' /\ (Goto(w, "copy") \/ Goto(w, "error"))
    BY <1>1, <1>a, <2>1 DEF SetHostnameStep, Remote, SetHostname, MachinesTypeOK
  <2>. QED
    BY <1>0, <1>1, <2>1, <2>2, RemoteInv DEF SetHostnameStep, Remote
<1>2. CASE CopyStep(w)
  <2>1. pc[w] \in SpecSteps
    BY <1>2 DEF CopyStep, At, SpecSteps, RemoteSteps, InstallSteps
  <2>2. MachinesTypeOK' /\ (Goto(w, "unzip") \/ Goto(w, "error"))
    BY <1>2, <1>a DEF CopyStep, Remote, CopyInitNode, SpoilCopy, Prepare,
       MachinesTypeOK, Stages
  <2>. QED
    BY <1>0, <1>2, <2>1, <2>2, RemoteInv DEF CopyStep, Remote
<1>3. CASE UnzipStep(w)
  <2>1. pc[w] \in SpecSteps
    BY <1>3 DEF UnzipStep, At, SpecSteps, RemoteSteps, InstallSteps
  <2>2. MachinesTypeOK' /\ (Goto(w, "init") \/ Goto(w, "error"))
    BY <1>3, <1>a DEF UnzipStep, Remote, Unzip, Prepare, MachinesTypeOK, Stages
  <2>. QED
    BY <1>0, <1>3, <2>1, <2>2, RemoteInv DEF UnzipStep, Remote
<1>4. CASE InitStep(w)
  <2>1. pc[w] \in SpecSteps
    BY <1>4 DEF InitStep, At, SpecSteps, RemoteSteps, InstallSteps
  <2>2. MachinesTypeOK' /\ (Goto(w, "join") \/ Goto(w, "error"))
    BY <1>4, <1>a DEF InitStep, Remote, RunInit, Prepare, MachinesTypeOK, Stages
  <2>. QED
    BY <1>0, <1>4, <2>1, <2>2, RemoteInv DEF InitStep, Remote
<1>5. CASE JoinStep(w)
  <2>1. pc[w] \in SpecSteps /\ spec[w].address \in Addresses
    BY <1>5 DEF JoinStep, At, Inv, WorkerInv, SpecSteps, RemoteSteps, InstallSteps,
       Specs
  <2>2. MachinesTypeOK' /\ (Goto(w, "ok") \/ Goto(w, "error"))
    BY <1>5, <1>a, <2>1 DEF JoinStep, Remote, KubeadmJoin, MachinesTypeOK
  <2>. QED
    BY <1>0, <1>5, <2>1, <2>2, RemoteInv DEF JoinStep, Remote
<1>6. CASE ResetStep(w)
  <2>1. pc[w] \in SpecSteps
    BY <1>6 DEF ResetStep, At, SpecSteps, RemoteSteps
  <2>2. MachinesTypeOK' /\ (Goto(w, "deleteNode") \/ Goto(w, "error"))
    BY <1>6, <1>a DEF ResetStep, Remote, KubeadmReset, MachinesTypeOK
  <2>. QED
    BY <1>0, <1>6, <2>1, <2>2, RemoteInv DEF ResetStep, Remote
<1>7. CASE DeleteNodeStep(w)
  <2>1. pc[w] \in SpecSteps
    BY <1>7 DEF DeleteNodeStep, At, SpecSteps
  <2>2. MachinesTypeOK' /\ (Goto(w, "ok") \/ Goto(w, "error"))
    BY <1>7, <1>a DEF DeleteNodeStep, Remote, DeleteNode, MachinesTypeOK
  <2>. QED
    BY <1>0, <1>7, <2>1, <2>2, RemoteInv DEF DeleteNodeStep, Remote
<1>. QED
  BY <1>1, <1>2, <1>3, <1>4, <1>5, <1>6, <1>7

-----------------------------------------------------------------------------

LEMMA NextInv == Inv /\ [Next]_vars => Inv'
<1>. SUFFICES ASSUME Inv, [Next]_vars PROVE Inv'
  OBVIOUS
<1>1. CASE User
  BY <1>1, UserInv
<1>2. CASE Kubelet \/ WatchCache
  BY <1>2, EnvironmentInv
<1>3. CASE Start
  BY <1>3, StartInv
<1>4. CASE Exit
  BY <1>4, ExitInv
<1>5. CASE Informer
  BY <1>5, InformerInv
<1>6. ASSUME NEW w \in Workers, Worker(w) PROVE Inv'
  <2>1. CASE GetItem(w)
    BY <2>1, GetItemInv
  <2>2. CASE LocalStep(w)
    BY <2>2, ReadListerInv, AdmissionInv, ExitInv, GetJoinCommandInv,
       SaveResetInfoInv, LookupResetInfoInv, RemoteStepsInv, FinishItemInv
       DEF LocalStep, PingPanics, NilDereference
  <2>3. CASE RemoteStep(w)
    BY <2>3, RemoteStepsInv, ExitInv DEF RemoteStep, CopyFatal
  <2>. QED
    BY <1>6, <2>1, <2>2, <2>3 DEF Worker
<1>7. CASE \E w1, w2 \in Workers : MapRace(w1, w2)
  BY <1>7, ExitInv DEF MapRace
<1>8. CASE UNCHANGED vars
  BY <1>8, StutterInv
<1>. QED
  BY <1>1, <1>2, <1>3, <1>4, <1>5, <1>6, <1>7, <1>8 DEF Next, Kill

(* Inv is an invariant of the specification.                               *)
THEOREM InvCorrect == Spec => []Inv
<1>1. Init => Inv
  BY InitInv
<1>2. Inv /\ [Next]_vars => Inv'
  BY NextInv
<1>. QED
  BY <1>1, <1>2, PTL DEF Spec

(* Every variable of the controller, the queue and the machines keeps its  *)
(* type; in particular no command is ever sent without a spec.             *)
THEOREM TypeCorrect == Spec => []TypeOK
<1>1. Inv => TypeOK
  BY DEF Inv
<1>. QED
  BY <1>1, InvCorrect, PTL

(* Two workers never process the same KylinNode, for any number of workers *)
(* and keys (comment on Controller.workqueue).                             *)
THEOREM NeverConcurrent == Spec => []NoConcurrentSameKey
<1>1. Inv => NoConcurrentSameKey
  BY DEF Inv, WorkerInv
<1>. QED
  BY <1>1, InvCorrect, PTL

-----------------------------------------------------------------------------
(* No change of a KylinNode is lost between the informer's store and the   *)
(* workers.                                                                *)

(* ResourceVersions identify states of an object: what UpdateFunc relies   *)
(* on when it compares two of them.                                        *)
VersionInv ==
    /\ \A k \in Keys : /\ VersionOf(kylinNodes[k]) <= revision
                       /\ VersionOf(cache[k]) <= revision
    /\ \A k \in Keys : VersionOf(cache[k]) = VersionOf(kylinNodes[k])
                          => cache[k] = kylinNodes[k]
    /\ \A note \in notes : note.old # note.new
                              => VersionOf(note.old) # VersionOf(note.new)
    /\ ~up => \A k \in Keys : seen[k] = 0

ChangeInv == VersionInv /\ NoChangeLost

-----------------------------------------------------------------------------

LEMMA VersionOfType ==
  ASSUME NEW object \in Objects \cup {NoObject}
  PROVE  /\ VersionOf(object) \in 0..MaxWrites
         /\ VersionOf(object) = 0 <=> object = NoObject
         /\ object # NoObject => VersionOf(object) = object.version
BY ControllerAssumption DEF VersionOf, Objects, Versions

LEMMA InitChangeInv == Init => ChangeInv
BY ControllerAssumption DEF Init, ChangeInv, VersionInv, NoChangeLost, VersionOf, Nothing

(* A step that leaves the API server, the informer and seen alone and takes*)
(* away no pending sync.                                                   *)
LEMMA KeepsChangeInv ==
  ASSUME ChangeInv, UNCHANGED <<Others, seen>>,
         \A k \in Keys : Pending(k) => Pending(k)'
  PROVE  ChangeInv'
BY DEF ChangeInv, VersionInv, NoChangeLost, VersionOf, Others, apiVars, informerVars

(* A step of worker w, not from "lister", that leaves the queue alone.     *)
LEMMA WalkChangeInv ==
  ASSUME Inv, ChangeInv, NEW w \in Workers, NEW step, Goto(w, step),
         pc[w] # "lister",
         UNCHANGED <<Others, wqVars, key, seen>>
  PROVE  ChangeInv'
<1>1. \A v \in Workers : pc[v] = "lister" => pc'[v] = "lister"
  BY DEF Goto, Inv, TypeOK
<1>2. \A k \in Keys : Pending(k) => Pending(k)'
  BY <1>1 DEF Pending, Others, informerVars, wqVars
<1>. QED
  BY <1>2, KeepsChangeInv DEF Others, apiVars, informerVars

LEMMA UserChangeInv == Inv /\ ChangeInv /\ User => ChangeInv'
<1>. SUFFICES ASSUME Inv, ChangeInv, User PROVE ChangeInv'
  OBVIOUS
<1>1. PICK k \in Keys, object \in Objects \cup {NoObject} :
         /\ Write(k, object)
         /\ object # NoObject => object.version = revision + 1
  BY ControllerAssumption DEF User, CreateKylinNode, UpdateKylinNode, DeleteKylinNode,
     Inv, TypeOK, Write, Objects, Versions
<1>2. /\ revision \in 0..MaxWrites /\ revision' = revision + 1
      /\ kylinNodes' = [kylinNodes EXCEPT ![k] = object]
      /\ UNCHANGED <<up, cache, notes, waiting, queue, dirty, processing, pc, key, seen>>
  BY <1>1 DEF Write, Inv, TypeOK, processVars, informerVars, wqVars, workerVars
<1>3. VersionOf(object) = 0 \/ VersionOf(object) = revision + 1
  BY <1>1, VersionOfType
<1>4. \A i \in Keys : /\ VersionOf(kylinNodes[i]) \in 0..MaxWrites
                      /\ VersionOf(cache[i]) \in 0..MaxWrites
                      /\ VersionOf(cache[i]) = 0 <=> cache[i] = NoObject
  BY VersionOfType DEF Inv, TypeOK
<1>5. \A i \in Keys : /\ VersionOf(kylinNodes'[i]) <= revision'
                      /\ VersionOf(cache[i]) <= revision'
  <2>. SUFFICES ASSUME NEW i \in Keys
                PROVE  /\ VersionOf(kylinNodes'[i]) <= revision'
                       /\ VersionOf(cache[i]) <= revision'
    OBVIOUS
  <2>1. kylinNodes'[i] = IF i = k THEN object ELSE kylinNodes[i]
    BY <1>2 DEF Inv, TypeOK
  <2>. QED
    BY <1>2, <1>3, <1>4, <2>1, ControllerAssumption DEF ChangeInv, VersionInv
<1>6. \A i \in Keys : VersionOf(cache[i]) = VersionOf(kylinNodes'[i])
                         => cache[i] = kylinNodes'[i]
  <2>. SUFFICES ASSUME NEW i \in Keys, VersionOf(cache[i]) = VersionOf(kylinNodes'[i])
                PROVE  cache[i] = kylinNodes'[i]
    OBVIOUS
  <2>1. CASE i # k
    BY <1>2, <2>1 DEF ChangeInv, VersionInv, Inv, TypeOK
  <2>2. CASE i = k
    <3>1. kylinNodes'[i] = object
      BY <1>2, <2>2 DEF Inv, TypeOK
    <3>2. VersionOf(cache[i]) # revision + 1
      BY <1>2, <1>4 DEF ChangeInv, VersionInv
    <3>. QED
      BY <1>1, <1>3, <1>4, <3>1, <3>2, VersionOfType
  <2>. QED
    BY <2>1, <2>2
<1>7. VersionInv'
  BY <1>2, <1>5, <1>6 DEF ChangeInv, VersionInv, VersionOf
<1>8. NoChangeLost'
  BY <1>2 DEF ChangeInv, NoChangeLost, Pending, VersionOf
<1>. QED
  BY <1>7, <1>8 DEF ChangeInv

LEMMA ExitChangeInv == Inv /\ ChangeInv /\ Exit => ChangeInv'
<1>. SUFFICES ASSUME Inv, ChangeInv, Exit PROVE ChangeInv'
  OBVIOUS
<1>1. \A k \in Keys : cache'[k] = NoObject /\ seen'[k] = 0
  BY DEF Exit, Nothing
<1>2. \A k \in Keys : /\ VersionOf(kylinNodes[k]) \in 0..MaxWrites
                      /\ VersionOf(kylinNodes[k]) = 0 <=> kylinNodes[k] = NoObject
                      /\ VersionOf(cache'[k]) = 0
  BY <1>1, VersionOfType DEF Inv, TypeOK, VersionOf
<1>3. VersionInv'
  BY <1>1, <1>2 DEF Exit, apiVars, ChangeInv, VersionInv, VersionOf, Inv, TypeOK
<1>. QED
  BY <1>3 DEF Exit, ChangeInv, NoChangeLost

LEMMA StartChangeInv == Inv /\ ChangeInv /\ Start => ChangeInv'
<1>. SUFFICES ASSUME Inv, ChangeInv, Start PROVE ChangeInv'
  OBVIOUS
<1>1. /\ up' = TRUE /\ cache' = kylinNodes
      /\ UNCHANGED <<kylinNodes, revision, seen>>
      /\ \A k \in Keys : seen[k] = 0
  BY DEF Start, apiVars, ChangeInv, VersionInv
<1>2. \A note \in notes' : note.old = NoObject /\ note.new \in Objects
  BY DEF Start, Inv, TypeOK
<1>3. VersionInv'
  BY <1>1, <1>2, VersionOfType, ControllerAssumption DEF ChangeInv, VersionInv, VersionOf, Objects
<1>4. ASSUME NEW k \in Keys, seen'[k] # VersionOf(cache'[k]) PROVE Pending(k)'
  <2>1. kylinNodes[k] # NoObject
    BY <1>1, <1>4 DEF VersionOf
  <2>2. [key |-> k, old |-> NoObject, new |-> kylinNodes[k]] \in notes'
    BY <2>1 DEF Start
  <2>. QED
    BY <2>1, <2>2 DEF Pending
<1>. QED
  BY <1>3, <1>4 DEF ChangeInv, NoChangeLost, VersionOf

LEMMA ObserveChangeInv == \A k \in Keys : Inv /\ ChangeInv /\ Observe(k) => ChangeInv'
<1>. SUFFICES ASSUME NEW k \in Keys, Inv, ChangeInv, Observe(k) PROVE ChangeInv'
  OBVIOUS
<1>. DEFINE note == [key |-> k, old |-> cache[k], new |-> kylinNodes[k]]
<1>1. /\ up /\ cache[k] # kylinNodes[k]
      /\ cache' = [cache EXCEPT ![k] = kylinNodes[k]]
      /\ notes' = notes \cup {note}
      /\ UNCHANGED <<kylinNodes, revision, up, waiting, queue, dirty, processing,
                     pc, key, seen>>
  BY DEF Observe, apiVars, wqVars, workerVars
<1>2. VersionOf(cache[k]) # VersionOf(kylinNodes[k])
  BY <1>1 DEF ChangeInv, VersionInv
<1>3. \A i \in Keys : cache'[i] = IF i = k THEN kylinNodes[k] ELSE cache[i]
  BY <1>1 DEF Inv, TypeOK
<1>4. VersionInv'
  BY <1>1, <1>2, <1>3 DEF ChangeInv, VersionInv, VersionOf
<1>5. ASSUME NEW i \in Keys, seen[i] # VersionOf(cache'[i]) PROVE Pending(i)'
  <2>1. CASE i = k
    <3>1. note \in notes' /\ note.key = k /\ note.old # note.new
      BY <1>1
    <3>. QED
      BY <2>1, <3>1 DEF Pending
  <2>2. CASE i # k
    <3>1. Pending(i)
      BY <1>1, <1>3, <1>5, <2>2 DEF ChangeInv, NoChangeLost
    <3>. QED
      BY <1>1, <3>1 DEF Pending
  <2>. QED
    BY <2>1, <2>2
<1>. QED
  BY <1>1, <1>4, <1>5 DEF ChangeInv, NoChangeLost, VersionOf

LEMMA DeliverChangeInv ==
  \A note \in notes : Inv /\ ChangeInv /\ Deliver(note) => ChangeInv'
<1>. SUFFICES ASSUME NEW note \in notes, Inv, ChangeInv, Deliver(note) PROVE ChangeInv'
  OBVIOUS
<1>1. /\ notes' = notes \ {note}
      /\ UNCHANGED <<kylinNodes, revision, up, cache, pc, key, seen>>
  BY DEF Deliver, apiVars, workerVars
<1>2. /\ waiting \subseteq waiting'
      /\ UNCHANGED <<queue, dirty, processing>>
      /\ note.old # note.new => note.key \in waiting'
  <2>1. CASE NoObject \in {note.old, note.new}
    BY <2>1 DEF Deliver, AddRateLimited
  <2>2. CASE NoObject \notin {note.old, note.new}
    <3>1. note.old # note.new => note.old.version # note.new.version
      BY <2>2 DEF ChangeInv, VersionInv, VersionOf
    <3>. QED
      BY <2>2, <3>1 DEF Deliver, UpdateFunc, AddRateLimited, wqVars
  <2>. QED
    BY <2>1, <2>2
<1>3. VersionInv'
  BY <1>1 DEF ChangeInv, VersionInv, VersionOf
<1>4. ASSUME NEW i \in Keys, Pending(i) PROVE Pending(i)'
  BY <1>1, <1>2, <1>4 DEF Pending
<1>. QED
  BY <1>1, <1>3, <1>4 DEF ChangeInv, NoChangeLost, VersionOf

LEMMA InformerChangeInv == Inv /\ ChangeInv /\ Informer => ChangeInv'
<1>. SUFFICES ASSUME Inv, ChangeInv, Informer PROVE ChangeInv'
  OBVIOUS
<1>1. ASSUME NEW k \in Keys, Resync(k) PROVE ChangeInv'
  <2>1. /\ notes' = notes \cup {[key |-> k, old |-> cache[k], new |-> cache[k]]}
        /\ UNCHANGED <<kylinNodes, revision, up, cache, waiting, queue, dirty,
                       processing, pc, key, seen>>
    BY <1>1 DEF Resync, apiVars, wqVars, workerVars
  <2>2. VersionInv'
    BY <2>1 DEF ChangeInv, VersionInv, VersionOf
  <2>. QED
    BY <2>1, <2>2 DEF ChangeInv, NoChangeLost, Pending, VersionOf
<1>2. ASSUME NEW k \in Keys, EndBackOff(k) PROVE ChangeInv'
  <2>1. k \in waiting => k \in Range(queue') \cup (dirty' \cap processing')
    <3>1. WQInv'
      BY <1>2, ExpireInv DEF EndBackOff, Inv, TypeOK
    <3>. QED
      BY <1>2, <3>1 DEF EndBackOff, Expire, WQInv
  <2>2. Range(queue) \cup (dirty \cap processing)
          \subseteq Range(queue') \cup (dirty' \cap processing')
    <3>1. WQInv'
      BY <1>2, ExpireInv DEF EndBackOff, Inv, TypeOK
    <3>. QED
      BY <1>2, <3>1 DEF EndBackOff, Expire, WQInv, Inv
  <2>3. \A i \in Keys : Pending(i) => Pending(i)'
    BY <1>2, <2>1, <2>2 DEF EndBackOff, Expire, Pending, informerVars, workerVars
  <2>. QED
    BY <1>2, <2>3, KeepsChangeInv DEF EndBackOff, Others
<1>. QED
  BY <1>1, <1>2, ObserveChangeInv, DeliverChangeInv DEF Informer

LEMMA WorkerChangeInv == \A w \in Workers : Inv /\ ChangeInv /\ Worker(w) => ChangeInv'
<1>. SUFFICES ASSUME NEW w \in Workers, Inv, ChangeInv, Worker(w) PROVE ChangeInv'
  OBVIOUS
<1>1. CASE GetItem(w)
  <2>1. Range(queue) = Range(queue') \cup {Head(queue)}
    BY <1>1, GetInv DEF GetItem, Inv, TypeOK
  <2>2. /\ pc'[w] = "lister" /\ key'[w] = Head(queue) /\ pc[w] = "Get"
        /\ \A v \in Workers \ {w} : pc'[v] = pc[v] /\ key'[v] = key[v]
    BY <1>1 DEF GetItem, At, Goto, Inv, TypeOK
  <2>3. dirty \cap processing \subseteq (dirty' \cap processing') \cup {Head(queue)}
    BY <1>1 DEF GetItem, Get
  <2>4. \A i \in Keys : Pending(i) => Pending(i)'
    BY <1>1, <2>1, <2>2, <2>3 DEF GetItem, Get, Pending, Others, informerVars
  <2>. QED
    BY <1>1, <2>4, KeepsChangeInv DEF GetItem
<1>2. CASE ReadLister(w)
  <2>1. /\ key[w] \in Keys
        /\ seen' = [seen EXCEPT ![key[w]] = VersionOf(cache[key[w]])]
        /\ up
        /\ UNCHANGED <<kylinNodes, revision, up, cache, notes, waiting, queue, dirty,
                       processing, key>>
        /\ \A v \in Workers \ {w} : pc'[v] = pc[v]
    BY <1>2 DEF ReadLister, At, Goto, Others, apiVars, informerVars, wqVars, Inv, TypeOK,
       WorkerInv
  <2>2. VersionInv'
    BY <2>1 DEF ChangeInv, VersionInv, VersionOf
  <2>3. ASSUME NEW i \in Keys, seen'[i] # VersionOf(cache[i]) PROVE Pending(i)'
    <3>1. i # key[w] /\ seen'[i] = seen[i]
      BY <2>1, <2>3 DEF Inv, TypeOK
    <3>2. Pending(i)
      BY <2>1, <2>3, <3>1 DEF ChangeInv, NoChangeLost
    <3>. QED
      BY <2>1, <3>1, <3>2 DEF Pending
  <2>. QED
    BY <2>1, <2>2, <2>3 DEF ChangeInv, NoChangeLost, VersionOf
<1>3. CASE FinishItem(w)
  <2>1. key[w] \in processing
    BY <1>3 DEF FinishItem, Inv, WorkerInv
  <2>2. Range(queue) \cup (dirty \cap processing)
          \subseteq Range(queue') \cup (dirty' \cap processing')
    BY <1>3, <2>1, DoneInv DEF FinishItem, Inv, TypeOK
  <2>3. /\ pc[w] # "lister"
        /\ \A v \in Workers \ {w} : pc'[v] = pc[v] /\ key'[v] = key[v]
    BY <1>3 DEF FinishItem, Goto, Inv, TypeOK
  <2>4. \A i \in Keys : Pending(i) => Pending(i)'
    BY <1>3, <2>2, <2>3 DEF FinishItem, Done, Pending, Others, informerVars
  <2>. QED
    BY <1>3, <2>4, KeepsChangeInv DEF FinishItem
<1>4. CASE Admission(w) \/ GetJoinCommand(w) \/ SaveResetInfo(w) \/ LookupResetInfo(w)
  BY <1>4, WalkChangeInv DEF Admission, GetJoinCommand, Attempt, SaveResetInfo,
     LookupResetInfo, At
<1>5. CASE \/ DeleteNodeStep(w) \/ SetHostnameStep(w) \/ CopyStep(w) \/ UnzipStep(w)
           \/ InitStep(w) \/ JoinStep(w) \/ ResetStep(w)
  <2>1. pc[w] # "lister" /\ UNCHANGED <<Others, wqVars, key, seen>>
    BY <1>5 DEF DeleteNodeStep, SetHostnameStep, CopyStep, UnzipStep, InitStep,
       JoinStep, ResetStep, Remote, At
  <2>2. \E step \in Steps : Goto(w, step)
    BY <1>5 DEF DeleteNodeStep, SetHostnameStep, CopyStep, UnzipStep, InitStep,
       JoinStep, ResetStep, Remote, Steps, RemoteSteps, InstallSteps, MapSteps
  <2>. QED
    BY <2>1, <2>2, WalkChangeInv
<1>. QED
  BY <1>1, <1>2, <1>3, <1>4, <1>5, ExitChangeInv
     DEF Worker, LocalStep, RemoteStep, PingPanics, NilDereference, CopyFatal

LEMMA NextChangeInv == Inv /\ ChangeInv /\ [Next]_vars => ChangeInv'
<1>. SUFFICES ASSUME Inv, ChangeInv, [Next]_vars PROVE ChangeInv'
  OBVIOUS
<1>1. CASE Kubelet \/ WatchCache \/ UNCHANGED vars
  <2>1. UNCHANGED <<apiVars, processVars>>
    BY <1>1 DEF Kubelet, WatchCache, vars
  <2>. QED
    BY <2>1, KeepsChangeInv DEF apiVars, processVars, informerVars, wqVars, workerVars,
       Others, Pending
<1>. QED
  BY <1>1, UserChangeInv, StartChangeInv, ExitChangeInv, InformerChangeInv,
     WorkerChangeInv DEF Next, Kill, MapRace

(* Whatever version of a KylinNode the informer's store holds, a sync of   *)
(* this process has read it or is still to come, for any number of keys,   *)
(* workers and writes.                                                     *)
THEOREM ChangesReachWorkers == Spec => []NoChangeLost
<1>1. Init => ChangeInv
  BY InitChangeInv
<1>2. Inv /\ ChangeInv /\ [Next]_vars => ChangeInv'
  BY NextChangeInv
<1>3. ChangeInv => NoChangeLost
  BY DEF ChangeInv
<1>. QED
  BY <1>1, <1>2, <1>3, InvCorrect, PTL DEF Spec

-----------------------------------------------------------------------------
(* What the last read of a KylinNode was decides which way its sync went.  *)

ApplySteps == {"admission", "token", "save"} \cup InstallSteps
CleanSteps == {"lookup", "reset", "deleteNode"}

SyncInv ==
    /\ \A w \in Workers : pc[w] \in ApplySteps => seen[key[w]] # 0
    /\ \A w \in Workers : pc[w] \in CleanSteps => seen[key[w]] = 0
    /\ ~up => resetNodeInfo = NoResetInfo

USE DEF ApplySteps, CleanSteps

LEMMA InitSyncInv == Init => SyncInv
BY DEF Init, SyncInv, InstallSteps

(* A step of w that reads nothing and stays on its way or leaves it.       *)
LEMMA WalkSyncInv ==
  ASSUME Inv, SyncInv, NEW w \in Workers, up, UNCHANGED <<up, key, seen>>,
         NEW step, Goto(w, step),
         step \in ApplySteps => pc[w] \in ApplySteps,
         step \in CleanSteps => pc[w] \in CleanSteps
  PROVE  SyncInv'
<1>1. \A v \in Workers : pc'[v] = IF v = w THEN step ELSE pc[v]
  BY DEF Goto, Inv, TypeOK
<1>. QED
  BY <1>1 DEF SyncInv

LEMMA WorkerSyncInv == \A w \in Workers : Inv /\ SyncInv /\ Worker(w) => SyncInv'
<1>. SUFFICES ASSUME NEW w \in Workers, Inv, SyncInv, Worker(w) PROVE SyncInv'
  OBVIOUS
<1>1. CASE GetItem(w)
  <2>1. /\ up /\ UNCHANGED <<up, seen>>
        /\ pc'[w] = "lister"
        /\ \A v \in Workers \ {w} : pc'[v] = pc[v] /\ key'[v] = key[v]
    BY <1>1 DEF GetItem, At, Goto, Others, Inv, TypeOK
  <2>. QED
    BY <2>1 DEF SyncInv, InstallSteps
<1>2. CASE ReadLister(w)
  <2>1. /\ up /\ UNCHANGED <<up, key>>
        /\ pc[w] = "lister" /\ key[w] \in Keys
        /\ seen' = [seen EXCEPT ![key[w]] = VersionOf(cache[key[w]])]
        /\ \A v \in Workers \ {w} : pc'[v] = pc[v]
        /\ \/ cache[key[w]] = NoObject /\ pc'[w] = "lookup"
           \/ cache[key[w]] # NoObject /\ pc'[w] = "admission"
    BY <1>2 DEF ReadLister, At, Goto, Others, Inv, TypeOK, WorkerInv
  <2>2. cache[key[w]] = NoObject <=> VersionOf(cache[key[w]]) = 0
    BY <2>1, VersionOfType DEF Inv, TypeOK
  <2>3. \A v \in Workers \ {w} : pc[v] \in ApplySteps \cup CleanSteps
                                   => seen'[key[v]] = seen[key[v]]
    BY <2>1 DEF Inv, TypeOK, WorkerInv, NoConcurrentSameKey, InstallSteps
  <2>4. seen'[key[w]] = VersionOf(cache[key[w]])
    BY <2>1 DEF Inv, TypeOK
  <2>. QED
    BY <2>1, <2>2, <2>3, <2>4 DEF SyncInv, InstallSteps
<1>3. CASE FinishItem(w)
  <2>1. /\ up /\ UNCHANGED <<up, seen>>
        /\ pc'[w] = "Get"
        /\ \A v \in Workers \ {w} : pc'[v] = pc[v] /\ key'[v] = key[v]
    BY <1>3 DEF FinishItem, Goto, Others, Inv, TypeOK
  <2>. QED
    BY <2>1 DEF SyncInv, InstallSteps
<1>4. CASE Admission(w) \/ GetJoinCommand(w) \/ SaveResetInfo(w) \/ LookupResetInfo(w)
  <2>1. up /\ UNCHANGED <<up, key, seen>>
    BY <1>4 DEF Admission, GetJoinCommand, Attempt, SaveResetInfo, LookupResetInfo, At,
       Others
  <2>2. \/ /\ pc[w] \in ApplySteps
           /\ \E step \in {"token", "save", "hostname", "error"} : Goto(w, step)
        \/ pc[w] = "lookup" /\ Goto(w, "reset")
    BY <1>4 DEF Admission, GetJoinCommand, Attempt, SaveResetInfo, LookupResetInfo, At
  <2>. QED
    BY <2>1, <2>2, WalkSyncInv DEF InstallSteps
<1>5. CASE \/ DeleteNodeStep(w) \/ SetHostnameStep(w) \/ CopyStep(w) \/ UnzipStep(w)
           \/ InitStep(w) \/ JoinStep(w) \/ ResetStep(w)
  <2>1. up /\ UNCHANGED <<up, key, seen>>
    BY <1>5 DEF DeleteNodeStep, SetHostnameStep, CopyStep, UnzipStep, InitStep,
       JoinStep, ResetStep, Remote, At, Others
  <2>2. \/ /\ pc[w] \in ApplySteps
           /\ \E step \in {"copy", "unzip", "init", "join", "ok", "error"} : Goto(w, step)
        \/ /\ pc[w] \in CleanSteps
           /\ \E step \in {"deleteNode", "ok", "error"} : Goto(w, step)
    BY <1>5 DEF DeleteNodeStep, SetHostnameStep, CopyStep, UnzipStep, InitStep,
       JoinStep, ResetStep, Remote, At, InstallSteps
  <2>. QED
    BY <2>1, <2>2, WalkSyncInv DEF InstallSteps
<1>6. CASE Exit
  BY <1>6 DEF Exit, SyncInv, InstallSteps
<1>. QED
  BY <1>1, <1>2, <1>3, <1>4, <1>5, <1>6
     DEF Worker, LocalStep, RemoteStep, PingPanics, NilDereference, CopyFatal

LEMMA NextSyncInv == Inv /\ SyncInv /\ [Next]_vars => SyncInv'
<1>. SUFFICES ASSUME Inv, SyncInv, [Next]_vars PROVE SyncInv'
  OBVIOUS
<1>1. CASE User \/ Kubelet \/ WatchCache \/ Start \/ Informer \/ UNCHANGED vars
  <2>1. UNCHANGED <<pc, key, seen, resetNodeInfo>> /\ (up => up')
    BY <1>1 DEF User, CreateKylinNode, UpdateKylinNode, DeleteKylinNode, Write,
       Kubelet, WatchCache, Start, Informer, Observe, Resync, EndBackOff, Deliver,
       vars, processVars, workerVars
  <2>. QED
    BY <2>1 DEF SyncInv
<1>2. CASE Exit
  BY <1>2 DEF Exit, SyncInv, InstallSteps
<1>. QED
  BY <1>1, <1>2, WorkerSyncInv DEF Next, Kill, MapRace

(* What the refinements and the history of the controller rest on.         *)
LEMMA SyncCorrect == Spec => [](Inv /\ ChangeInv /\ SyncInv)
<1>1. Init => ChangeInv /\ SyncInv
  BY InitChangeInv, InitSyncInv
<1>2. Inv /\ ChangeInv /\ SyncInv /\ [Next]_vars => ChangeInv' /\ SyncInv'
  BY NextChangeInv, NextSyncInv
<1>. QED
  BY <1>1, <1>2, InvCorrect, PTL DEF Spec
=============================================================================
