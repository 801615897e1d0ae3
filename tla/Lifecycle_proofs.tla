--------------------------- MODULE Lifecycle_proofs ---------------------------
(***************************************************************************)
(* Theorems about Lifecycle for any number of workers, any bound on the    *)
(* queue and any set of types that the factory knows.                      *)
(***************************************************************************)
EXTENDS Lifecycle, FiniteSetTheorems, TLAPS

(* However often NewController asks, the factory has at most one informer, *)
(* that of KylinNode.                                                      *)
OneInformer ==
    /\ made \in {0, 1}
    /\ informers[KylinNode] = made
    /\ \A t \in Types \ {KylinNode} : informers[t] = 0

(* What the Controller refers to once it has asked for it.                 *)
Referred ==
    /\ main \notin {"setup", "lister"} => controller["lister"] = 1
    /\ main \notin {"setup", "lister", "hasSynced"} => controller["hasSynced"] = 1

(* Workers exist only after the wait of Run.                               *)
WorkersWaited ==
    \A w \in Workers :
        worker[w] # "none" => main \in {"serve", "returned"} /\ 1 \in synced

(* What Start runs, or will run, includes the informer of KylinNode: it is *)
(* spawned after the last request, and what it has run stays run.          *)
StartInv ==
    /\ main \in {"start", "wait", "serve", "returned"} =>
           made = 1 /\ controller["handler"] = 1
    /\ starter => main \in {"wait", "serve", "returned"}
    /\ KylinNode \in startedInformers => 1 \in running
    /\ main \in {"wait", "serve", "returned"} /\ ~ starter => 1 \in running

(* TypeOK in parts that one backend each can prove.                        *)
FlagTypes == starter \in BOOLEAN /\ stopCh \in BOOLEAN /\ shutDown \in BOOLEAN

NumberTypes ==
    /\ controller \in [Requests -> 0..made]
    /\ signals \in 0..2
    /\ synced \subseteq running
    /\ items \in 0..MaxItems

PlaceTypes ==
    /\ main \in Requests \cup {"setup", "start", "wait", "serve", "returned"}
    /\ worker \in [Workers -> {"none", "start", "get", "busy", "stopped"}]
    /\ exit \in {Alive, 0, 1, 255}

Inv == TypeOK /\ OneInformer /\ Referred /\ WorkersWaited

-----------------------------------------------------------------------------

LEMMA TypeParts == TypeOK <=> FactoryTypeOK /\ FlagTypes /\ NumberTypes /\ PlaceTypes
BY Zenon DEF TypeOK, FlagTypes, NumberTypes, PlaceTypes

LEMMA TypePartsNext ==
  TypeOK' <=> FactoryTypeOK' /\ FlagTypes' /\ NumberTypes' /\ PlaceTypes'
BY Zenon DEF TypeOK, FlagTypes, NumberTypes, PlaceTypes

(* There is room for the informer of KylinNode.                            *)
LEMMA RoomForOne == Cardinality(Types) \in Nat /\ Cardinality(Types) >= 1
<1>1. KylinNode \in Types /\ IsFiniteSet(Types)
  BY LifecycleAssumption, FactoryAssumption
<1>2. Cardinality(Types) \in Nat
  BY <1>1, FS_CardinalityType
<1>3. Cardinality(Types) # 0
  BY <1>1, FS_EmptySet
<1>. QED
  BY <1>2, <1>3

LEMMA InitInv == Init => Inv
<1>. SUFFICES ASSUME Init PROVE Inv
  OBVIOUS
<1>. USE DEF Init, FactoryInit
<1>1. FactoryTypeOK
  BY RoomForOne DEF FactoryTypeOK
<1>2. FlagTypes
  BY Zenon DEF FlagTypes
<1>3. NumberTypes
  BY LifecycleAssumption DEF NumberTypes, Requests
<1>4. PlaceTypes
  BY DEF PlaceTypes, Requests
<1>5. OneInformer /\ Referred /\ WorkersWaited
  BY LifecycleAssumption DEF OneInformer, Referred, WorkersWaited, Requests
<1>. QED
  BY <1>1, <1>2, <1>3, <1>4, <1>5, TypeParts DEF Inv

-----------------------------------------------------------------------------
(* One lemma for each goroutine                                            *)

(* What a step has to establish for the invariant.                         *)
LEMMA InvNext ==
  ASSUME FactoryTypeOK', OneInformer', FlagTypes', NumberTypes', PlaceTypes',
         Referred', WorkersWaited'
  PROVE  Inv'
BY TypePartsNext, Zenon DEF Inv

(* A step that leaves the factory and the Controller alone.                *)
LEMMA SetupUnchanged ==
  ASSUME Inv, UNCHANGED setupVars
  PROVE  FactoryTypeOK' /\ OneInformer'
BY TypeParts DEF Inv, FactoryTypeOK, OneInformer, setupVars, factoryVars

LEMMA SignalInv == Inv /\ (Signal \/ Handler) => Inv'
<1>. SUFFICES ASSUME Inv, Signal \/ Handler PROVE Inv'
  OBVIOUS
<1>. USE DEF Signal, Handler, CloseStop, SecondSignal, runVars, setupVars, factoryVars
<1>1. UNCHANGED setupVars
  OBVIOUS
<1>2. FlagTypes'
  BY TypeParts, Zenon DEF Inv, FlagTypes
<1>3. NumberTypes'
  BY TypeParts DEF Inv, NumberTypes
<1>4. PlaceTypes'
  BY TypeParts DEF Inv, PlaceTypes
<1>5. Referred' /\ WorkersWaited'
  BY DEF Inv, Referred, WorkersWaited
<1>. QED
  BY <1>1, <1>2, <1>3, <1>4, <1>5, SetupUnchanged, InvNext

(* Each request finds the informer or makes the first and only one.        *)
LEMMA RequestInv ==
  ASSUME Inv, NewController
  PROVE  Inv'
<1>1. PICK r \in Requests, next \in {"hasSynced", "handler", "start"} :
         /\ Request(r, next)
         /\ \/ r = "lister" /\ next = "hasSynced"
            \/ r = "hasSynced" /\ next = "handler"
            \/ r = "handler" /\ next = "start"
  BY DEF NewController, Requests
<1>2. InformerOf(KylinNode) = 1
  BY DEF Inv, OneInformer, InformerOf
<1>3. made' = 1
  BY <1>1, <1>2 DEF Request, InformerFor, Inv, OneInformer
<1>4. /\ informers' = [informers EXCEPT ![KylinNode] = 1]
      /\ controller' = [controller EXCEPT ![r] = 1]
      /\ UNCHANGED <<startedInformers, running>>
  BY <1>1, <1>2 DEF Request, InformerFor
<1>5. /\ main = r /\ main' = next
      /\ UNCHANGED <<starter, signals, stopCh, synced, items, shutDown, worker, exit>>
  BY <1>1 DEF Request, MainStep
<1>6. FactoryTypeOK'
  <2>1. FactoryTypeOK /\ made \in {0, 1}
    BY TypeParts DEF Inv, OneInformer
  <2>2. made' \in 0..Cardinality(Types)
    BY <1>3, RoomForOne
  <2>3. informers' \in [Types -> 0..made']
    <3>1. informers \in [Types -> 0..1]
      BY <2>1 DEF FactoryTypeOK
    <3>2. informers' \in [Types -> 0..1]
      <4>1. 1 \in 0..1
        OBVIOUS
      <4>. QED
        BY <1>4, <3>1, <4>1, Zenon
    <3>. QED
      BY <1>3, <3>2
  <2>4. startedInformers' \subseteq Types /\ running' \subseteq 1..made'
    BY <1>3, <1>4, <2>1 DEF FactoryTypeOK
  <2>. QED
    BY <2>2, <2>3, <2>4 DEF FactoryTypeOK
<1>7. OneInformer'
  BY <1>3, <1>4, TypeParts, LifecycleAssumption DEF Inv, FactoryTypeOK, OneInformer
<1>8. FlagTypes'
  BY <1>5, TypeParts, Zenon DEF Inv, FlagTypes
<1>9. NumberTypes'
  BY <1>3, <1>4, <1>5, TypeParts DEF Inv, NumberTypes, OneInformer
<1>10. PlaceTypes'
  BY <1>5, TypeParts DEF Inv, PlaceTypes, Requests
<1>11. Referred'
  BY <1>1, <1>4, <1>5, TypeParts DEF Inv, NumberTypes, Referred, Requests
<1>12. WorkersWaited'
  BY <1>1, <1>5 DEF Inv, WorkersWaited
<1>. QED
  BY <1>6, <1>7, <1>8, <1>9, <1>10, <1>11, <1>12, InvNext

(* The other steps of main leave the Controller as it is.                  *)
LEMMA MainInv == Inv /\ Main => Inv'
<1>. SUFFICES ASSUME Inv, Main PROVE Inv'
  OBVIOUS
<1>1. CASE NewController
  BY <1>1, RequestInv
<1>2. CASE CacheSynced
  <2>1. /\ UNCHANGED setupVars
        /\ main = "wait" /\ main' = "serve"
        /\ controller["hasSynced"] \in synced
        /\ worker' = [w \in Workers |-> "start"]
        /\ UNCHANGED <<starter, signals, stopCh, synced, items, shutDown, exit>>
    BY <1>2 DEF CacheSynced, StartWorkers, MainStep
  <2>2. FlagTypes'
    BY <2>1, TypeParts, Zenon DEF Inv, FlagTypes
  <2>3. NumberTypes' /\ PlaceTypes'
    BY <2>1, TypeParts DEF Inv, NumberTypes, PlaceTypes, setupVars, factoryVars
  <2>4. Referred' /\ WorkersWaited'
    BY <2>1 DEF Inv, Referred, WorkersWaited, setupVars
  <2>. QED
    BY <2>1, <2>2, <2>3, <2>4, SetupUnchanged, InvNext
<1>3. CASE Setup \/ SpawnStart \/ StopServing
  <2>. USE <1>3 DEF Setup, SpawnStart, StopServing, ReturnFromRun, MainStep
  <2>1. UNCHANGED setupVars
    OBVIOUS
  <2>2. FlagTypes'
    BY TypeParts, Zenon DEF Inv, FlagTypes
  <2>3. NumberTypes' /\ PlaceTypes'
    BY <2>1, TypeParts DEF Inv, NumberTypes, PlaceTypes, Requests, setupVars, factoryVars
  <2>4. Referred' /\ WorkersWaited'
    BY <2>1 DEF Inv, Referred, WorkersWaited, setupVars
  <2>. QED
    BY <2>1, <2>2, <2>3, <2>4, SetupUnchanged, InvNext
<1>4. CASE SetupFails \/ StoppedBeforeSync \/ MainReturns
  <2>1. /\ UNCHANGED <<main, setupVars, starter, signals, runVars>>
        /\ exit' \in {0, 255}
    BY <1>4 DEF SetupFails, StoppedBeforeSync, MainReturns, Fatal
  <2>2. FlagTypes'
    BY <2>1, TypeParts, Zenon DEF Inv, FlagTypes, runVars
  <2>3. NumberTypes' /\ PlaceTypes'
    BY <2>1, TypeParts DEF Inv, NumberTypes, PlaceTypes, runVars, setupVars, factoryVars
  <2>4. Referred' /\ WorkersWaited'
    BY <2>1 DEF Inv, Referred, WorkersWaited, runVars, setupVars
  <2>. QED
    BY <2>1, <2>2, <2>3, <2>4, SetupUnchanged, InvNext
<1>. QED
  BY <1>1, <1>2, <1>3, <1>4 DEF Main

(* Start runs informers that were made; their lists arrive.                *)
LEMMA InformersInv == Inv /\ (RunStart \/ \E i \in running : Sync(i)) => Inv'
<1>. SUFFICES ASSUME Inv, RunStart \/ \E i \in running : Sync(i) PROVE Inv'
  OBVIOUS
<1>1. CASE RunStart
  <2>1. /\ UNCHANGED <<main, controller, signals, runVars, exit, informers, made>>
        /\ startedInformers' = startedInformers \cup Fresh
        /\ running' = running \cup {informers[t] : t \in Fresh}
        /\ starter' = FALSE
    BY <1>1 DEF RunStart, StartInformers
  <2>2. \A t \in Fresh : t \in Types /\ informers[t] \in 1..made
    BY TypeParts DEF Fresh, Inv, FactoryTypeOK
  <2>3. FactoryTypeOK'
    BY <2>1, <2>2, TypeParts DEF Inv, FactoryTypeOK
  <2>4. FlagTypes'
    BY <2>1, TypeParts, Zenon DEF Inv, FlagTypes, runVars
  <2>5. NumberTypes' /\ PlaceTypes'
    BY <2>1, TypeParts DEF Inv, NumberTypes, PlaceTypes, runVars
  <2>6. OneInformer' /\ Referred' /\ WorkersWaited'
    BY <2>1 DEF Inv, OneInformer, Referred, WorkersWaited, runVars
  <2>. QED
    BY <2>3, <2>4, <2>5, <2>6, InvNext
<1>2. ASSUME NEW i \in running, Sync(i)
      PROVE  Inv'
  <2>. USE <1>2 DEF Sync
  <2>1. UNCHANGED setupVars
    OBVIOUS
  <2>2. FlagTypes'
    BY TypeParts, Zenon DEF Inv, FlagTypes
  <2>3. NumberTypes' /\ PlaceTypes'
    BY <2>1, TypeParts DEF Inv, NumberTypes, PlaceTypes, setupVars, factoryVars
  <2>4. Referred' /\ WorkersWaited'
    BY <2>1 DEF Inv, Referred, WorkersWaited, setupVars
  <2>. QED
    BY <2>1, <2>2, <2>3, <2>4, SetupUnchanged, InvNext
<1>. QED
  BY <1>1, <1>2

(* Work that arrives, and the workers                                      *)
LEMMA WorkInv == Inv /\ (Enqueue \/ \E w \in Workers : Worker(w)) => Inv'
<1>. SUFFICES ASSUME Inv, Enqueue \/ \E w \in Workers : Worker(w) PROVE Inv'
  OBVIOUS
<1>0. items \in 0..MaxItems
  BY TypeParts DEF Inv, NumberTypes
<1>1. CASE Enqueue
  <2>1. /\ UNCHANGED setupVars
        /\ items < MaxItems /\ items' = items + 1
        /\ UNCHANGED <<main, starter, signals, stopCh, synced, shutDown, worker, exit>>
    BY <1>1 DEF Enqueue
  <2>2. items' \in 0..MaxItems
    BY <1>0, <2>1, LifecycleAssumption
  <2>3. FlagTypes'
    BY <2>1, TypeParts, Zenon DEF Inv, FlagTypes
  <2>4. NumberTypes' /\ PlaceTypes'
    BY <2>1, <2>2, TypeParts DEF Inv, NumberTypes, PlaceTypes, setupVars, factoryVars
  <2>5. Referred' /\ WorkersWaited'
    BY <2>1 DEF Inv, Referred, WorkersWaited, setupVars
  <2>. QED
    BY <2>1, <2>3, <2>4, <2>5, SetupUnchanged, InvNext
<1>2. ASSUME NEW w \in Workers, Worker(w)
      PROVE  Inv'
  <2>1. PICK from \in {"start", "get", "busy"}, to \in {"get", "busy", "stopped"},
             n \in {0, 1} : WorkerStep(w, from, to, n) /\ n <= items
    <3>1. CASE RunWorker(w)
      BY <1>0, <3>1 DEF RunWorker
    <3>2. CASE Take(w)
      BY <1>0, <3>2 DEF Take
    <3>3. CASE Finish(w)
      BY <1>0, <3>3 DEF Finish
    <3>4. CASE StopWorker(w)
      BY <1>0, <3>4 DEF StopWorker
    <3>. QED
      BY <1>2, <3>1, <3>2, <3>3, <3>4 DEF Worker
  <2>2. /\ UNCHANGED setupVars
        /\ worker[w] = from /\ worker' = [worker EXCEPT ![w] = to]
        /\ items' = items - n
        /\ UNCHANGED <<main, starter, signals, stopCh, synced, shutDown, exit>>
    BY <2>1 DEF WorkerStep
  <2>3. items' \in 0..MaxItems
    BY <1>0, <2>1, <2>2, LifecycleAssumption
  <2>4. FlagTypes'
    BY <2>2, TypeParts, Zenon DEF Inv, FlagTypes
  <2>5. NumberTypes' /\ PlaceTypes'
    BY <2>2, <2>3, TypeParts DEF Inv, NumberTypes, PlaceTypes, setupVars, factoryVars
  <2>6. Referred' /\ WorkersWaited'
    BY <2>2, TypeParts DEF Inv, PlaceTypes, Referred, WorkersWaited, setupVars
  <2>. QED
    BY <2>2, <2>4, <2>5, <2>6, SetupUnchanged, InvNext
<1>. QED
  BY <1>1, <1>2

-----------------------------------------------------------------------------

LEMMA StutterInv == Inv /\ UNCHANGED vars => Inv'
BY DEF vars, runVars, factoryVars, Inv, TypeOK, FactoryTypeOK, OneInformer, Referred,
   WorkersWaited

LEMMA InvCorrect == Spec => []Inv
<1>1. Inv /\ [Next]_vars => Inv'
  BY SignalInv, MainInv, InformersInv, WorkInv, StutterInv DEF Next
<1>. QED
  BY <1>1, InitInv, PTL DEF Spec

(* Types: in particular the factory never makes a second informer for a    *)
(* type (factory.go:153), and the length of the queue is never negative.   *)
THEOREM TypeCorrect == Spec => []TypeOK
<1>1. Inv => TypeOK
  BY DEF Inv
<1>. QED
  BY <1>1, InvCorrect, PTL

(* No worker takes a key before the first list is in the store that its    *)
(* lister reads (controller.go:137): the informer that Run waits for is    *)
(* the one that the lister belongs to.                                     *)
THEOREM WorkFollowsSync == Spec => []NoWorkBeforeSync
<1>1. Inv => NoWorkBeforeSync
  BY DEF Inv, WorkersWaited, Referred, NoWorkBeforeSync
<1>. QED
  BY <1>1, InvCorrect, PTL

-----------------------------------------------------------------------------
(* Start                                                                   *)

LEMMA InitStartInv == Init => StartInv
BY DEF Init, FactoryInit, StartInv

(* The steps that leave what main has put together alone.                  *)
LEMMA ServingStart ==
  Inv /\ StartInv /\ (Signal \/ Handler \/ Enqueue \/ (\E i \in running : Sync(i))
                     \/ (\E w \in Workers : Worker(w)))
    => StartInv'
<1>. SUFFICES ASSUME StartInv,
                     \/ Signal \/ Handler \/ Enqueue
                     \/ \E i \in running : Sync(i)
                     \/ \E w \in Workers : Worker(w)
              PROVE  StartInv'
  OBVIOUS
<1>1. UNCHANGED <<main, setupVars, starter>>
  BY DEF Signal, Handler, CloseStop, SecondSignal, Enqueue, Sync, Worker, RunWorker,
     Take, Finish, StopWorker, WorkerStep
<1>. QED
  BY <1>1 DEF StartInv, setupVars, factoryVars

LEMMA RequestStart == Inv /\ StartInv /\ NewController => StartInv'
<1>. SUFFICES ASSUME Inv, StartInv, NewController PROVE StartInv'
  OBVIOUS
<1>1. PICK r \in Requests, next \in {"hasSynced", "handler", "start"} :
         /\ Request(r, next)
         /\ \/ r = "lister" /\ next = "hasSynced"
            \/ r = "hasSynced" /\ next = "handler"
            \/ r = "handler" /\ next = "start"
  BY DEF NewController, Requests
<1>2. InformerOf(KylinNode) = 1
  BY DEF Inv, OneInformer, InformerOf
<1>3. made' = 1
  BY <1>1, <1>2 DEF Request, InformerFor, Inv, OneInformer
<1>4. /\ main = r /\ main' = next
      /\ controller' = [controller EXCEPT ![r] = 1]
      /\ UNCHANGED <<starter, startedInformers, running>>
  BY <1>1, <1>2 DEF Request, MainStep, InformerFor
<1>5. main' = "start" => controller'["handler"] = 1
  BY <1>1, <1>4, TypeParts DEF Inv, NumberTypes, Requests
<1>. QED
  BY <1>1, <1>3, <1>4, <1>5 DEF StartInv

LEMMA MainStart == Inv /\ StartInv /\ Main => StartInv'
<1>. SUFFICES ASSUME Inv, StartInv, Main PROVE StartInv'
  OBVIOUS
<1>1. CASE NewController
  BY <1>1, RequestStart
<1>2. CASE ~ NewController
  <2>1. /\ UNCHANGED setupVars
        /\ \/ main' = main /\ UNCHANGED starter
           \/ main = "setup" /\ main' = "lister" /\ UNCHANGED starter
           \/ main = "start" /\ main' = "wait" /\ starter'
           \/ main = "wait" /\ main' = "serve" /\ UNCHANGED starter
           \/ main = "serve" /\ main' = "returned" /\ UNCHANGED starter
    BY <1>2 DEF Main, Setup, SetupFails, SpawnStart, CacheSynced, StartWorkers,
       StoppedBeforeSync, StopServing, ReturnFromRun, MainReturns, MainStep, Fatal
  <2>. QED
    BY <2>1 DEF StartInv, setupVars, factoryVars
<1>. QED
  BY <1>1, <1>2

(* Start finds the informer of KylinNode, or has run it before.            *)
LEMMA RunStartStart == Inv /\ StartInv /\ RunStart => StartInv'
<1>. SUFFICES ASSUME Inv, StartInv, RunStart PROVE StartInv'
  OBVIOUS
<1>1. /\ starter /\ ~ starter'
      /\ UNCHANGED <<main, controller, made>>
      /\ startedInformers' = startedInformers \cup Fresh
      /\ running' = running \cup {informers[t] : t \in Fresh}
  BY DEF RunStart, StartInformers
<1>2. informers[KylinNode] = 1 /\ made = 1
  BY <1>1 DEF StartInv, Inv, OneInformer
<1>3. KylinNode \in startedInformers \/ KylinNode \in Fresh
  BY <1>2, LifecycleAssumption DEF Fresh
<1>4. 1 \in running'
  BY <1>1, <1>2, <1>3 DEF StartInv
<1>. QED
  BY <1>1, <1>2, <1>4 DEF StartInv

LEMMA StartCorrect == Spec => [](Inv /\ StartInv)
<1>1. Inv /\ StartInv /\ [Next]_vars => StartInv'
  <2>1. Inv /\ StartInv /\ UNCHANGED vars => StartInv'
    BY DEF StartInv, vars, factoryVars
  <2>. QED
    BY <2>1, ServingStart, MainStart, RunStartStart DEF Next
<1>. QED
  BY <1>1, InitStartInv, InvCorrect, PTL DEF Spec

(* Start runs every informer that the Controller refers to (main.go:49):   *)
(* it is spawned after the last of the three requests, and all three were  *)
(* given the same informer.                                                *)
THEOREM StartRunsWhatIsUsed == Spec => []StartRunsAll
<1>1. Inv /\ StartInv => StartRunsAll
  BY DEF Inv, StartInv, Referred, StartRunsAll, Requests
<1>. QED
  BY <1>1, StartCorrect, PTL
=============================================================================
