------------------------------ MODULE WorkQueue ------------------------------
(***************************************************************************)
(* The rate limited work queue of k8s.io/client-go/util/workqueue, which   *)
(* the controller creates with NewNamedRateLimitingQueue and drives with   *)
(* AddRateLimited, Get, Done and Forget.  It is a library: it is modelled  *)
(* from the way controller.go uses it.  The module offers fragments of     *)
(* actions; the controller's module composes them.                         *)
(*                                                                         *)
(* Delays are not timed: an item that AddRateLimited took may stay in      *)
(* waiting for any number of steps before Expire moves it to the queue.    *)
(* Forget only shortens a later delay, so it changes nothing here.         *)
(***************************************************************************)
EXTENDS Sequences, Functions

CONSTANT Keys             \* the "namespace/name" strings of the KylinNodes

VARIABLES
    waiting,              \* added by AddRateLimited, back-off still running
    queue,                \* the FIFO that Get takes from
    dirty,                \* added and not yet taken by Get
    processing            \* taken by Get, Done not yet called

wqVars == <<waiting, queue, dirty, processing>>

WQTypeOK ==
    /\ waiting \subseteq Keys
    /\ queue \in Seq(Keys)
    /\ dirty \subseteq Keys
    /\ processing \subseteq Keys

WQInit ==
    /\ waiting = {}
    /\ queue = <<>>
    /\ dirty = {}
    /\ processing = {}

(* The queue holds, once each, the keys that are dirty and not processed.  *)
WQInv ==
    /\ IsInjective(queue)
    /\ Range(queue) = dirty \ processing

(* AddRateLimited(k): k waits out its back-off.                            *)
AddRateLimited(k) ==
    /\ waiting' = waiting \cup {k}
    /\ UNCHANGED <<queue, dirty, processing>>

(* The back-off of k ends and the delaying queue calls Add(k).  A key that *)
(* is queued already is not queued twice, and one that is being processed  *)
(* is only marked, so that Done puts it back.                              *)
Expire(k) ==
    /\ k \in waiting
    /\ waiting' = waiting \ {k}
    /\ dirty' = dirty \cup {k}
    /\ queue' = IF k \in dirty \cup processing THEN queue ELSE Append(queue, k)
    /\ UNCHANGED processing

(* Get blocks while the queue is empty; it returns the head.               *)
Get ==
    /\ queue # <<>>
    /\ queue' = Tail(queue)
    /\ dirty' = dirty \ {Head(queue)}
    /\ processing' = processing \cup {Head(queue)}
    /\ UNCHANGED waiting

(* Done(k): a key added again while it was processed goes back in line.    *)
Done(k) ==
    /\ processing' = processing \ {k}
    /\ queue' = IF k \in dirty THEN Append(queue, k) ELSE queue
    /\ UNCHANGED <<waiting, dirty>>
=============================================================================
