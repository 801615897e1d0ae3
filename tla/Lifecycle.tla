------------------------------ MODULE Lifecycle ------------------------------
(***************************************************************************)
(* How the process starts and ends: main, NewController, the goroutines of *)
(* SetupSignalHandler and of the factory's Start, Controller.Run and the   *)
(* worker goroutines, which share the informers, the channel stopCh and the*)
(* work queue.  What a worker does with a key, and the keys themselves, are*)
(* left out: there is work or there is none, and a worker that is busy may *)
(* stay so for ever.                                                       *)
(***************************************************************************)
EXTENDS InformerFactory

CONSTANTS
    Workers,              \* the goroutines that Run starts
    MaxItems,             \* bound on the length of the queue
    KylinNode,            \* the type that the controller watches
    Alive                 \* the exit code of a process that runs

ASSUME LifecycleAssumption ==
    /\ MaxItems \in Nat
    /\ KylinNode \in Types
    /\ Alive \notin {0, 1, 255}

VARIABLES
    main,                 \* where main is, in NewController, in Run
    controller,           \* the informers that the Controller refers to
    starter,              \* has the goroutine of Start been spawned?
    signals,              \* how many signals have arrived
    stopCh,               \* closed?
    synced,               \* the informers whose first list has arrived
    items,                \* the length of the work queue
    shutDown,             \* has ShutDown been called?
    worker,               \* where each worker goroutine is
    exit                  \* the exit code

runVars == <<stopCh, synced, items, shutDown, worker>>
vars == <<main, controller, starter, factoryVars, signals, runVars, exit>>

(* The three requests of NewController for the shared informer, in order:  *)
(* for its lister, for HasSynced, for the event handlers.                  *)
Requests == {"lister", "hasSynced", "handler"}

TypeOK ==
    /\ FactoryTypeOK
    /\ main \in Requests \cup {"setup", "start", "wait", "serve", "returned"}
    /\ controller \in [Requests -> 0..made]
    /\ starter \in BOOLEAN
    /\ signals \in 0..2
    /\ stopCh \in BOOLEAN
    /\ synced \subseteq running
    /\ items \in 0..MaxItems
    /\ shutDown \in BOOLEAN
    /\ worker \in [Workers -> {"none", "start", "get", "busy", "stopped"}]
    /\ exit \in {Alive, 0, 1, 255}

Running == exit = Alive

(* SetupSignalHandler has been called; the clients are built next.         *)
Init ==
    /\ main = "setup"
    /\ FactoryInit
    /\ controller = [r \in Requests |-> 0]
    /\ starter = FALSE
    /\ signals = 0
    /\ stopCh = FALSE
    /\ synced = {}
    /\ items = 0
    /\ shutDown = FALSE
    /\ worker = [w \in Workers |-> "none"]
    /\ exit = Alive

-----------------------------------------------------------------------------
(* Signals                                                                 *)

(* What main has put together before it runs.                              *)
setupVars == <<controller, factoryVars>>

(* SIGTERM or SIGINT; os/signal keeps two for the goroutine to receive.    *)
Signal ==
    /\ Running
    /\ signals < 2
    /\ signals' = signals + 1
    /\ UNCHANGED <<main, setupVars, starter, runVars, exit>>

(* The first signal closes the channel, the second ends the process.       *)
CloseStop ==
    /\ Running
    /\ signals > 0
    /\ ~ stopCh
    /\ stopCh' = TRUE
    /\ UNCHANGED <<main, setupVars, starter, signals, synced, items, shutDown,
                   worker, exit>>

SecondSignal ==
    /\ Running
    /\ signals = 2
    /\ stopCh
    /\ exit' = 1
    /\ UNCHANGED <<main, setupVars, starter, signals, runVars>>

-----------------------------------------------------------------------------
(* main, NewController and the goroutine of Start                          *)

(* A step of main, which only goes on while the process runs.              *)
MainStep(from, to) ==
    /\ Running
    /\ main = from
    /\ main' = to
    /\ UNCHANGED <<signals, stopCh, synced, items, exit>>

(* glog.Fatalf                                                             *)
Fatal ==
    /\ Running
    /\ exit' = 255
    /\ UNCHANGED <<main, setupVars, starter, signals, runVars>>

(* The clients are built; nothing is sent yet.                             *)
Setup ==
    /\ MainStep("setup", "lister")
    /\ UNCHANGED <<setupVars, starter, shutDown, worker>>

SetupFails == main = "setup" /\ Fatal

(* kylinNodeInformer.Informer(), by itself or in Lister(): the Controller  *)
(* keeps what the factory returns.                                         *)
Request(r, next) ==
    /\ MainStep(r, next)
    /\ InformerFor(KylinNode)
    /\ controller' = [controller EXCEPT ![r] = InformerOf(KylinNode)]
    /\ UNCHANGED <<starter, shutDown, worker>>

NewController ==
    \/ Request("lister", "hasSynced")
    \/ Request("hasSynced", "handler")
    \/ Request("handler", "start")

(* go kylinNodeInformerFactory.Start(stopCh)                               *)
SpawnStart ==
    /\ MainStep("start", "wait")
    /\ starter' = TRUE
    /\ UNCHANGED <<setupVars, shutDown, worker>>

RunStart ==
    /\ Running
    /\ starter
    /\ StartInformers
    /\ starter' = FALSE
    /\ UNCHANGED <<main, controller, signals, runVars, exit>>

(* The first list of an informer arrives.  One that was asked for before   *)
(* the channel was closed may still do so after it.                        *)
Sync(i) ==
    /\ Running
    /\ i \in running \ synced
    /\ synced' = synced \cup {i}
    /\ UNCHANGED <<main, setupVars, starter, signals, stopCh, items, shutDown,
                   worker, exit>>

-----------------------------------------------------------------------------
(* Run                                                                     *)

StartWorkers ==
    /\ MainStep("wait", "serve")
    /\ worker' = [w \in Workers |-> "start"]
    /\ UNCHANGED <<setupVars, starter, shutDown>>

(* Mutant of CacheSynced: the workers are started without waiting.         *)
CacheSynced_NotWaited == StartWorkers

(* WaitForCacheSync polls HasSynced.                                       *)
CacheSynced == controller["hasSynced"] \in synced /\ StartWorkers

(* It gives up when the channel is closed; Run returns an error.           *)
StoppedBeforeSync == main = "wait" /\ stopCh /\ Fatal

(* The deferred ShutDown runs and Run returns.                             *)
ReturnFromRun ==
    /\ MainStep("serve", "returned")
    /\ shutDown' = TRUE
    /\ UNCHANGED <<setupVars, starter, worker>>

(* Mutant of StopServing: Run waits for the workers, as its comment says.  *)
StopServing_Waits ==
    /\ stopCh
    /\ \A w \in Workers : worker[w] # "busy"
    /\ ReturnFromRun

(* Run blocks until the channel is closed.                                 *)
StopServing == stopCh /\ ReturnFromRun

(* main returns, which ends every goroutine.                               *)
MainReturns ==
    /\ Running
    /\ main = "returned"
    /\ exit' = 0
    /\ UNCHANGED <<main, setupVars, starter, signals, runVars>>

-----------------------------------------------------------------------------
(* The queue and the workers                                               *)

(* The handlers are called while the first list arrives and from then on;  *)
(* after ShutDown the queue accepts nothing.                               *)
Enqueue ==
    /\ Running
    /\ controller["handler"] \in running
    /\ ~ shutDown
    /\ items < MaxItems
    /\ items' = items + 1
    /\ UNCHANGED <<main, setupVars, starter, signals, stopCh, synced, shutDown,
                   worker, exit>>

(* A worker goes on, and has taken n items from the queue.                 *)
WorkerStep(w, from, to, n) ==
    /\ Running
    /\ worker[w] = from
    /\ worker' = [worker EXCEPT ![w] = to]
    /\ items' = items - n
    /\ UNCHANGED <<main, setupVars, starter, signals, stopCh, synced, shutDown,
                   exit>>

(* wait.Until looks at the channel before it calls runWorker, which does   *)
(* not look at it.                                                         *)
RunWorker(w) == WorkerStep(w, "start", IF stopCh THEN "stopped" ELSE "get", 0)

(* Mutant of Take: Get does not block while the queue is empty.            *)
Take_Empty(w) == WorkerStep(w, "get", "busy", 1)

(* Get still hands out what is queued after ShutDown.                      *)
Take(w) == items > 0 /\ WorkerStep(w, "get", "busy", 1)

Finish(w) == WorkerStep(w, "busy", "get", 0)

(* Get says shutdown, runWorker returns, and wait.Until finds the channel  *)
(* closed.                                                                 *)
StopWorker(w) == shutDown /\ items = 0 /\ WorkerStep(w, "get", "stopped", 0)

-----------------------------------------------------------------------------
Handler == CloseStop \/ SecondSignal

Main == \/ Setup
        \/ SetupFails
        \/ NewController
        \/ SpawnStart
        \/ CacheSynced
        \/ StoppedBeforeSync
        \/ StopServing
        \/ MainReturns

Worker(w) == RunWorker(w) \/ Take(w) \/ Finish(w) \/ StopWorker(w)

Next ==
    \/ Signal
    \/ Handler
    \/ Main
    \/ RunStart
    \/ \E i \in running : Sync(i)
    \/ Enqueue
    \/ \E w \in Workers : Worker(w)

Spec == Init /\ [][Next]_vars

(* The goroutines that only wait for channels or for a lock run when they  *)
(* can.  Neither the first list nor a worker has to come to an end.        *)
Fairness == WF_vars(Handler) /\ WF_vars(Main) /\ WF_vars(RunStart)

FairSpec == Spec /\ Fairness

-----------------------------------------------------------------------------
(* Properties                                                              *)

(* No key is worked on before the store that the lister reads holds the    *)
(* whole first list ("wait for the caches to be synced before starting     *)
(* workers"), also when the process is asked to stop while it waits.       *)
NoWorkBeforeSync ==
    \A w \in Workers : worker[w] = "busy" => controller["lister"] \in synced

(* Once Start has run, every informer that the Controller refers to runs:  *)
(* the one it lists from, the one whose first list it waits for and the one*)
(* that calls its handlers.  Start is another goroutine and runs only what *)
(* was asked for before it, and NewController asks three times.            *)
StartRunsAll ==
    main \in {"wait", "serve", "returned"} /\ ~ starter =>
        \A r \in Requests : controller[r] \in running

(* If the first list of a running informer arrives, main gets through its  *)
(* wait or the process ends: the informer that main waits for is one that  *)
(* Start has run.                                                          *)
EventuallyServes ==
    (<>[](Running /\ running # {}) => <>(synced # {}))
        => <>(main = "serve" \/ ~ Running)

(* A signal ends the process, although the first list may never arrive and *)
(* the workers may hang, each on a remote command.                         *)
SignalEndsProcess == signals > 0 ~> ~ Running

-----------------------------------------------------------------------------
(* What a comment of the source says and the code does not do              *)

(* controller.go:126: "it will shutdown the workqueue and wait for workers *)
(* to finish processing their current work items".                         *)
RunWaitsForWorkers ==
    main = "returned" => \A w \in Workers : worker[w] # "busy"
=============================================================================
